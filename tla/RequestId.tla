----------------------------- MODULE RequestId -----------------------------
(***************************************************************************)
(* Request identifiers and the operations on their fields                  *)
(* (MEQ/src/RequestId.cc).  An identifier is a sequence of numbers, one    *)
(* per field, of any length: a field that it does not have reads as 0.  A  *)
(* dependency mask is the set of the fields whose bit is raised in it;     *)
(* NBits is the number of bits of a mask that stand for fields.            *)
(***************************************************************************)
EXTENDS Naturals, Sequences

CONSTANT NBits

ASSUME NBitsAssumption == NBits \in Nat \ {0}

Fields == 1..NBits

(* The value that the comparisons read for a field. *)
Field(id, f) == IF f \in DOMAIN id THEN id[f] ELSE 0

(* An identifier whose fields are numbers. *)
IsId(id) == \A f \in Fields : Field(id, f) \in Nat

(* resize: the identifier made long enough for every field of the mask. *)
Resized(id, mask) ==
    [f \in DOMAIN id \cup {g \in Fields : \E m \in mask : g <= m} |-> Field(id, f)]

(* maskSubId: only the masked fields keep their values. *)
MaskSubId(id, mask) ==
    IF mask = {}
    THEN <<0>>
    ELSE [f \in DOMAIN id |-> IF f \in Fields \ mask THEN 0 ELSE id[f]]

(* setSubId and incrSubId: the masked fields take a value, or the next one. *)
SetSubId(id, mask, value) ==
    [f \in DOMAIN Resized(id, mask) |-> IF f \in mask THEN value ELSE Field(id, f)]

IncrSubId(id, mask) ==
    [f \in DOMAIN Resized(id, mask) |-> IF f \in mask THEN Field(id, f) + 1
                                                      ELSE Field(id, f)]

(* diffMask: the fields in which two identifiers differ. *)
DiffMask(id1, id2) == {f \in Fields : Field(id1, f) # Field(id2, f)}

(* maskedCompare: equal in every masked field.  An empty identifier equals *)
(* nothing, except under a mask of no fields.                              *)
MaskedCompare(id1, id2, mask) ==
    \/ mask = {}
    \/ /\ id1 # <<>>
       /\ id2 # <<>>
       /\ \A f \in mask : Field(id1, f) = Field(id2, f)

============================================================================
