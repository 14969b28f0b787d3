----------------------------- MODULE MCCustomFields -----------------------------
(* One object of each type that is inherited from, the module with the id of a *)
(* host; values and fields are interchangeable.                                *)
EXTENDS CustomFields, TLC

MCModuleOf == [c \in Class |-> CHOOSE m \in Module : TRUE]

MCSymmetry == Permutations(Field) \cup Permutations(Value)
=============================================================================
