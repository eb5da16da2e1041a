-------------------------- MODULE MCSequenceBuffer ---------------------------
EXTENDS SequenceBuffer

\* Whether the buffer is used as fragment_reassembly is, or as the others are.
VARIABLE owned

NextOfOwner == /\ IF owned THEN NextOwned ELSE NextPlain
               /\ UNCHANGED owned

InitOfOwner == Init /\ owned \in BOOLEAN

SpecOfOwner == InitOfOwner /\ [][NextOfOwner]_<<vars, owned>>
=============================================================================
