------------------------------- MODULE ListSpec -------------------------------
(***************************************************************************)
(* What server/include/list.h promises: a list is a sequence, indices      *)
(* start at 0, and a call that finds nothing says -1 (list_find,           *)
(* list_delete) or NULL (list_get, list_slice).                            *)
(***************************************************************************)
EXTENDS Integers, Sequences, SequencesExt

CONSTANTS
    Val,        \* what a node may hold
    MaxIndex    \* bound on the indices a caller passes

VARIABLES
    items,      \* the list
    ret         \* what the last call returned

Index == -1 .. MaxIndex

\* What a call returns: a number, what a node holds, or a list; or NULL.
Number(n)  == <<"number", n>>
Data(v)    == <<"data", v>>
List(s)    == <<"list", s>>
Nothing    == <<"null", 0>>

SpecInit == items = <<>> /\ ret = Nothing

\* list_add_start and list_add_last return nothing.
AddStart(v) == items' = <<v>> \o items /\ UNCHANGED ret
AddLast(v)  == items' = Append(items, v) /\ UNCHANGED ret

Has(i) == i + 1 \in DOMAIN items

Find(v) ==
    /\ ret' = Number(SelectInSeq(items, LAMBDA w : w = v) - 1)
    /\ UNCHANGED items

Get(i) ==
    /\ ret' = IF Has(i) THEN Data(items[i + 1]) ELSE Nothing
    /\ UNCHANGED items

Delete(i) ==
    /\ ret' = Number(IF Has(i) THEN 1 ELSE -1)
    /\ items' = IF Has(i) THEN RemoveAt(items, i + 1) ELSE items

\* The list is cut before index i; the caller gets what follows.
Slice(i) ==
    IF i # 0 /\ Has(i)
    THEN /\ ret' = List(SubSeq(items, i + 1, Len(items)))
         /\ items' = SubSeq(items, 1, i)
    ELSE ret' = Nothing /\ UNCHANGED items

ToArray == ret' = List(items) /\ UNCHANGED items

Free == items' = <<>> /\ UNCHANGED ret

\* The indices a caller may pass: any, or that of a node it has walked to.
Passed == Index \cup 0 .. Len(items) - 1

SpecNext ==
    \/ \E v \in Val : AddStart(v) \/ AddLast(v) \/ Find(v)
    \/ \E i \in Passed : Get(i) \/ Delete(i) \/ Slice(i)
    \/ ToArray
    \/ Free

AbstractSpec == SpecInit /\ [][SpecNext]_<<items, ret>>
=============================================================================
