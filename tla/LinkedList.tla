------------------------------ MODULE LinkedList ------------------------------
(***************************************************************************)
(* server/src/list.c: a singly linked list that ends in an empty node, the *)
(* sentinel.  Nodes are addresses of a heap.  A call runs one iteration of *)
(* its loop per step, on its own variables curr, prev and index; op is the *)
(* call that runs.  The collectors of srv_util.c walk the list on their    *)
(* own and call list_delete on the way: iter and count are theirs.         *)
(*                                                                         *)
(* A node and the data that it points to are allocated and released        *)
(* together, so they are one object here.  calloc does not fail.           *)
(***************************************************************************)
EXTENDS Integers, Sequences, SequencesExt, FiniteSets

CONSTANTS
    Addr,       \* addresses of nodes
    Val,        \* what a node may hold
    MaxIndex,   \* bound on the indices a caller passes
    Null

ASSUME ListAssumption ==
    /\ Null \notin Addr
    /\ Val \subseteq Nat
    /\ MaxIndex \in Nat

VARIABLES
    heap,       \* [next, data] of each node; released nodes are Released
    head,       \* list->head
    op,         \* the call that runs, "idle" or, after list_free, "gone"
    arg,        \* its argument
    curr,       \* its local variables
    prev,
    index,
    array,      \* what list_to_array has copied
    ret,        \* what the last call returned
    iter,       \* node a collector has reached, Null if none runs
    count,      \* index of that node
    doomed,     \* values the collector removes
    spine,      \* history: the nodes of the list in order, with the sentinel
    given       \* history: nodes that list_slice has given to its caller

call      == <<op, arg, curr, prev, index, array>>
collector == <<iter, count, doomed>>
vars      == <<heap, head, call, ret, collector, spine, given>>

Released == [next |-> Null, data |-> -2]
Sentinel == [next |-> Null, data |-> -1]
Node     == [next : Addr \cup {Null}, data : Val \cup {-1}]
Index    == -1 .. MaxIndex

\* What a call returns: a number, what a node holds, or a list; or NULL.
Number(n)  == <<"number", n>>
Data(v)    == <<"data", v>>
List(s)    == <<"list", s>>
Nothing    == <<"null", 0>>

Allocated == {a \in Addr : heap[a] # Released}

NextOf(a) == heap[a].next
AtEnd(a) == NextOf(a) = Null    \* a is the sentinel

Init ==
    /\ head \in Addr
    /\ heap = [a \in Addr |-> IF a = head THEN Sentinel ELSE Released]
    /\ op = "idle" /\ arg = 0
    /\ curr = Null /\ prev = Null /\ index = 0
    /\ array = <<>>
    /\ ret = Nothing
    /\ iter = Null /\ count = 0 /\ doomed = {}
    /\ spine = <<head>>
    /\ given = {}

-----------------------------------------------------------------------------
(* Calls.                                                                  *)

Idle == op = "idle" /\ iter = Null

Enter(name, a) ==
    /\ op' = name /\ arg' = a
    /\ curr' = head /\ index' = 0
    /\ UNCHANGED <<prev, array>>

\* The locals of a call end with it.
Forget ==
    /\ arg' = 0 /\ curr' = Null /\ prev' = Null /\ index' = 0 /\ array' = <<>>

Return == op' = "idle" /\ Forget

\* An iteration of a loop that goes on.
Advance ==
    /\ curr' = NextOf(curr) /\ prev' = curr /\ index' = index + 1
    /\ UNCHANGED <<heap, head, op, arg, array, ret, collector, spine, given>>

\* The call returns r and changes nothing.
Answer(r) ==
    /\ ret' = r
    /\ Return
    /\ UNCHANGED <<heap, head, collector, spine, given>>

\* A node is allocated and becomes the first of the list.
Push(v) ==
    /\ \E a \in Addr \ Allocated :
        /\ heap' = [heap EXCEPT ![a] = [next |-> head, data |-> v]]
        /\ head' = a
        /\ spine' = <<a>> \o spine
    /\ UNCHANGED <<call, ret, collector, given>>

AddStart(v) == Idle /\ Push(v)

\* Addr bounds the nodes: what needs one is called while there is one.
AddLastCall(v) ==
    /\ Idle /\ Allocated # Addr
    /\ IF AtEnd(head)
       THEN Push(v)
       ELSE /\ Enter("add_last", v)
            /\ UNCHANGED <<heap, head, ret, collector, spine, given>>

\* The loop stops at the node before the sentinel.
AddLastLoop ==
    /\ op = "add_last" /\ ~AtEnd(NextOf(curr))
    /\ Advance

AddLastEnd ==
    /\ op = "add_last" /\ AtEnd(NextOf(curr))
    /\ \E a \in Addr \ Allocated :
        /\ heap' = [heap EXCEPT ![a] = [next |-> NextOf(curr), data |-> arg],
                                ![curr].next = a]
        /\ spine' = InsertAt(spine, Len(spine), a)
    /\ Return
    /\ UNCHANGED <<head, ret, collector, given>>

FindCall(v) ==
    /\ Idle
    /\ Enter("find", v)
    /\ UNCHANGED <<heap, head, ret, collector, spine, given>>

FindLoop ==
    /\ op = "find" /\ ~AtEnd(curr) /\ heap[curr].data # arg
    /\ Advance

FindEnd ==
    /\ op = "find" /\ (AtEnd(curr) \/ heap[curr].data = arg)
    /\ Answer(Number(IF AtEnd(curr) THEN -1 ELSE index))

GetCall(i) ==
    /\ Idle
    /\ IF i < 0
       THEN Answer(Nothing)
       ELSE /\ Enter("get", i)
            /\ UNCHANGED <<heap, head, ret, collector, spine, given>>

GetLoop ==
    /\ op = "get" /\ ~AtEnd(curr) /\ index # arg
    /\ Advance

GetEnd ==
    /\ op = "get" /\ (AtEnd(curr) \/ index = arg)
    /\ Answer(IF AtEnd(curr) THEN Nothing ELSE Data(heap[curr].data))

-----------------------------------------------------------------------------
(* list_delete.                                                            *)

\* The first node is unlinked and released.
DeleteFirst ==
    /\ heap' = [heap EXCEPT ![head] = Released]
    /\ head' = NextOf(head)
    /\ spine' = Tail(spine)
    /\ ret' = Number(1)

\* list_delete(i), called by a caller that takes care of collector'.
DeleteCall(i) ==
    CASE i < 0 \/ AtEnd(head) ->
            ret' = Number(-1) /\ UNCHANGED <<heap, head, call, spine, given>>
      [] i = 0 /\ ~AtEnd(head) ->
            DeleteFirst /\ UNCHANGED <<call, given>>
      [] OTHER ->
            Enter("delete", i) /\ UNCHANGED <<heap, head, ret, spine, given>>

Delete(i) == Idle /\ DeleteCall(i) /\ UNCHANGED collector

DeleteLoop ==
    /\ op = "delete" /\ ~AtEnd(curr) /\ index # arg
    /\ Advance

\* Mutant: the node is released before it is unlinked.
Bug_DeleteEnd ==
    /\ op = "delete" /\ (AtEnd(curr) \/ index = arg)
    /\ IF AtEnd(curr)
       THEN Answer(Number(-1))
       ELSE /\ heap' = [heap EXCEPT ![curr] = Released]
            /\ spine' = RemoveAt(spine, index + 1)
            /\ ret' = Number(1)
            /\ Return
            /\ UNCHANGED <<head, collector, given>>

DeleteEnd ==
    /\ op = "delete" /\ (AtEnd(curr) \/ index = arg)
    /\ IF AtEnd(curr)
       THEN Answer(Number(-1))
       ELSE /\ heap' = [heap EXCEPT ![prev].next = NextOf(curr), ![curr] = Released]
            /\ spine' = RemoveAt(spine, index + 1)
            /\ ret' = Number(1)
            /\ Return
            /\ UNCHANGED <<head, collector, given>>

-----------------------------------------------------------------------------
(* list_slice, list_to_array and list_free.                                *)

SliceCall(i) ==
    /\ Idle /\ Allocated # Addr
    /\ IF i = 0
       THEN Answer(Nothing)
       ELSE /\ Enter("slice", i)
            /\ UNCHANGED <<heap, head, ret, collector, spine, given>>

SliceLoop ==
    /\ op = "slice" /\ ~AtEnd(curr) /\ index # arg
    /\ Advance

\* Mutant: the first part is left without a sentinel.
Bug_SliceEnd ==
    /\ op = "slice" /\ (AtEnd(curr) \/ index = arg)
    /\ IF AtEnd(curr)
       THEN Answer(Nothing)
       ELSE \E a \in Addr \ Allocated :
            /\ heap' = [heap EXCEPT ![prev].next = Null]
            /\ ret' = List([i \in 1 .. Len(spine) - 1 - index |->
                               heap[spine[index + i]].data])
            /\ spine' = SubSeq(spine, 1, index)
            /\ given' = given \cup ToSet(SubSeq(spine, index + 1, Len(spine)))
            /\ Return
            /\ UNCHANGED <<head, collector>>

\* The first part gets a sentinel of its own; the rest is a list of the caller.
SliceEnd ==
    /\ op = "slice" /\ (AtEnd(curr) \/ index = arg)
    /\ IF AtEnd(curr)
       THEN Answer(Nothing)
       ELSE \E a \in Addr \ Allocated :
            /\ heap' = [heap EXCEPT ![a] = Sentinel, ![prev].next = a]
            /\ ret' = List([i \in 1 .. Len(spine) - 1 - index |->
                               heap[spine[index + i]].data])
            /\ spine' = Append(SubSeq(spine, 1, index), a)
            /\ given' = given \cup ToSet(SubSeq(spine, index + 1, Len(spine)))
            /\ Return
            /\ UNCHANGED <<head, collector>>

ToArrayCall ==
    /\ Idle
    /\ op' = "to_array" /\ curr' = head /\ array' = <<>>
    /\ UNCHANGED <<arg, prev, index, heap, head, ret, collector, spine, given>>

ToArrayLoop ==
    /\ op = "to_array" /\ ~AtEnd(curr)
    /\ array' = Append(array, heap[curr].data)
    /\ curr' = NextOf(curr)
    /\ UNCHANGED <<op, arg, prev, index, heap, head, ret, collector, spine, given>>

ToArrayEnd ==
    /\ op = "to_array" /\ AtEnd(curr)
    /\ Answer(List(array))

FreeCall ==
    /\ Idle
    /\ Enter("free", 0)
    /\ UNCHANGED <<heap, head, ret, collector, spine, given>>

FreeLoop ==
    /\ op = "free" /\ ~AtEnd(curr)
    /\ heap' = [heap EXCEPT ![curr] = Released]
    /\ curr' = NextOf(curr)
    /\ spine' = Tail(spine)
    /\ UNCHANGED <<op, arg, prev, index, array, head, ret, collector, given>>

\* Mutant: the sentinel is left.
Bug_FreeEnd ==
    /\ op = "free" /\ AtEnd(curr)
    /\ op' = "gone" /\ Forget
    /\ spine' = Tail(spine)
    /\ UNCHANGED <<heap, head, ret, collector, given>>

FreeEnd ==
    /\ op = "free" /\ AtEnd(curr)
    /\ heap' = [heap EXCEPT ![curr] = Released]
    /\ op' = "gone" /\ Forget
    /\ spine' = Tail(spine)
    /\ UNCHANGED <<head, ret, collector, given>>

-----------------------------------------------------------------------------
(* The loop of garb_collec_old_packets and garb_collec_old_conn.           *)

CollectCall(D) ==
    /\ Idle
    /\ iter' = head /\ count' = 0 /\ doomed' = D
    /\ UNCHANGED <<heap, head, call, ret, spine, given>>

Collecting == op = "idle" /\ iter # Null

CollectKeep ==
    /\ Collecting /\ ~AtEnd(iter) /\ heap[iter].data \notin doomed
    /\ iter' = NextOf(iter) /\ count' = count + 1
    /\ UNCHANGED <<heap, head, call, ret, doomed, spine, given>>

\* Mutant: the index moves on although the node at it is deleted.
Bug_CollectDelete ==
    /\ Collecting /\ ~AtEnd(iter) /\ heap[iter].data \in doomed
    /\ iter' = NextOf(iter) /\ count' = count + 1
    /\ DeleteCall(count)
    /\ UNCHANGED doomed

\* Mutant: iter stays at the node that is deleted.
Bug_CollectStale ==
    /\ Collecting /\ ~AtEnd(iter) /\ heap[iter].data \in doomed
    /\ DeleteCall(count)
    /\ UNCHANGED collector

\* iter moves on before its node is deleted.
CollectDelete ==
    /\ Collecting /\ ~AtEnd(iter) /\ heap[iter].data \in doomed
    /\ iter' = NextOf(iter)
    /\ DeleteCall(count)
    /\ UNCHANGED <<count, doomed>>

CollectEnd ==
    /\ Collecting /\ AtEnd(iter)
    /\ iter' = Null /\ count' = 0 /\ doomed' = {}
    /\ UNCHANGED <<heap, head, call, ret, spine, given>>

-----------------------------------------------------------------------------

Caller ==
    \/ \E v \in Val : AddStart(v) \/ AddLastCall(v) \/ FindCall(v)
    \/ \E i \in Index : GetCall(i) \/ Delete(i) \/ SliceCall(i)
    \/ ToArrayCall \/ FreeCall
    \/ \E D \in SUBSET Val : CollectCall(D)

Step ==
    \/ AddLastLoop \/ AddLastEnd \/ FindLoop \/ FindEnd \/ GetLoop \/ GetEnd
    \/ DeleteLoop \/ DeleteEnd \/ SliceLoop \/ SliceEnd
    \/ ToArrayLoop \/ ToArrayEnd \/ FreeLoop \/ FreeEnd
    \/ CollectKeep \/ CollectDelete \/ CollectEnd

Next == Caller \/ Step

Spec     == Init /\ [][Next]_vars
FairSpec == Spec /\ WF_vars(Step)

-----------------------------------------------------------------------------
(* What should be true.                                                    *)

TypeOK ==
    /\ heap \in [Addr -> Node \cup {Released}]
    /\ head \in Addr
    /\ op \in {"idle", "add_last", "find", "get", "delete", "slice", "to_array",
               "free", "gone"}
    /\ arg \in Int
    /\ curr \in Addr \cup {Null} /\ prev \in Addr \cup {Null}
    /\ index \in Nat
    /\ array \in Seq(Val)
    /\ iter \in Addr \cup {Null} /\ count \in Nat /\ doomed \subseteq Val
    /\ spine \in Seq(Addr)
    /\ given \subseteq Addr

\* No call and no collector reads or writes a node that was released, although
\* list_delete releases nodes while a collector walks over them.
SafePointers ==
    /\ op # "gone" => (op # "free" => head \in Allocated)
    /\ op \notin {"idle", "gone"} => curr \in Allocated
    /\ op \in {"delete", "slice"} /\ index > 0 => prev \in Allocated
    /\ op = "delete" /\ ~AtEnd(curr) /\ index = arg => index > 0
    /\ iter # Null => iter \in Allocated

\* The next pointers lead from the head through the nodes of the list to the
\* sentinel and nowhere else, whatever was inserted and unlinked where.
Linked ==
    /\ op \notin {"free", "gone"} => spine # <<>> /\ head = spine[1]
    /\ \A i \in DOMAIN spine :
        /\ spine[i] \in Allocated
        /\ NextOf(spine[i]) = IF i = Len(spine) THEN Null ELSE spine[i + 1]
    /\ \A i, j \in DOMAIN spine : spine[i] = spine[j] => i = j

\* What was allocated and not released is in the list or was given to a caller;
\* list_free leaves nothing behind.
NoLeak ==
    /\ Allocated = ToSet(spine) \cup given
    /\ op = "gone" => spine = <<>>

Items ==
    IF op \in {"free", "gone"} THEN <<>>
    ELSE [i \in 1 .. Len(spine) - 1 |-> heap[spine[i]].data]

Abstract == INSTANCE ListSpec WITH items <- Items

\* The list implements the sequence of ListSpec: each call takes effect, and
\* returns what it should, in one step.
Implements == Abstract!AbstractSpec

CollectedAll ==
    [][Collecting /\ iter' = Null =>
         \A i \in DOMAIN Items : Items[i] \notin doomed]_vars

OthersKept ==
    [][iter # Null =>
         \/ Items' = Items
         \/ \E i \in DOMAIN Items :
              Items[i] \in doomed /\ Items' = RemoveAt(Items, i)]_vars

CallsReturn == ~Idle ~> Idle \/ op = "gone"

\* What a running call or collector has left: the nodes before the collector, then
\* those before the call.  list_delete, which a collector calls, walks the list
\* once more.
Left ==
    <<IF iter # Null THEN Len(spine) - count ELSE 0,
      CASE op = "idle"     -> Len(spine) + 1
        [] op = "to_array" -> Len(spine) - Len(array)
        [] op = "free"     -> Len(spine)
        [] OTHER           -> Len(spine) - index>>

Less(a, b) == a[1] < b[1] \/ (a[1] = b[1] /\ a[2] < b[2])

\* Each step of a call or of a collector ends it or leaves less of it.
CallsEnd ==
    [][~Idle /\ op # "gone" =>
        /\ Left \in Nat \X Nat
        /\ Idle' \/ op' = "gone" \/ Less(Left', Left)]_vars

\* A collector comes to its end, as every call does; then every doomed value is
\* gone, and none other was lost on the way: its index and its node move
\* together over a list from which it deletes.
CollectsExactly == CollectedAll /\ OthersKept /\ CallsReturn
=============================================================================
