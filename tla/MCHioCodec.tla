----------------------------- MODULE MCHioCodec -----------------------------
(* Model-checking instance of HioCodec.                                    *)
EXTENDS HioCodec

\* A device frame with one stray byte after its fields.
OneStrayByte == {<<>>, <<9>>}
NoStrayBytes == {<<>>}
=============================================================================
