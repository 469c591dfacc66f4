-------------------------- MODULE MCProfileBuffer --------------------------
(***************************************************************************)
(* Rings of two to four rows: a file of eight octets behind the header,    *)
(* and lists of columns that take two octets, the last of which may be     *)
(* refused, or three, or four, or none.                                    *)
(***************************************************************************)
EXTENDS ProfileBuffer

Cols(size, refused) == [size |-> size, refused |-> refused]

MCDefaultColumns == Cols(4, FALSE)
AllColumns ==
    {Cols(0, FALSE), Cols(2, TRUE), Cols(3, FALSE), MCDefaultColumns}
=============================================================================
