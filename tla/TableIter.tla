----------------------------- MODULE TableIter ------------------------------
(***************************************************************************)
(* Reading, clearing and zeroing a hash table while BPF programs change    *)
(* it: BPFHashTable / BPFTable get_table_offline and clear_table_non_atomic *)
(* (src/cc/api/BPFTable.{h,cc}) and TableBase iteration, clear, zero and   *)
(* the batch calls (src/python/bcc/table.py).  Every system call is a step *)
(* of its own, and a batch call takes the kernel one step per bucket.      *)
(***************************************************************************)
EXTENDS Naturals, Sequences, FiniteSets, FiniteSetsExt, Functions

CONSTANTS
  Keys,            \* a set of positive numbers
  NBuckets,        \* n_buckets of the kernel's table
  MaxEntries,      \* max_entries
  MaxWrites        \* bound: what the programs do during a behaviour

None == 0
ASSUME TableIterAssumption ==
  /\ Keys \subseteq Nat \ {None} /\ NBuckets \in Nat \ {0}
  /\ MaxEntries \in Nat /\ MaxWrites \in Nat
Ops == {"offline", "clear_cc", "items", "clear_py", "zero", "batch_lookup", "batch_delete"}

VARIABLES
  map,          \* map[b]: the keys of a bucket, in the kernel's order
  nonzero,      \* keys whose value is not zero
  rd,           \* the call in progress
  writes,       \* updates and deletions by programs so far
  hist          \* since the call began: what the programs did, the keys at its start

vars == <<map, nonzero, rd, writes, hist>>

Bucket(k) == k % NBuckets
Buckets == 0..(NBuckets - 1)
Content == UNION {Range(map[b]) : b \in Buckets}

Reader(op) == [op |-> op, pc |-> "next", key |-> None, got |-> <<>>, list |-> <<>>,
               cur |-> 0, cnt |-> 0, total |-> 0, left |-> 0, taken |-> 0]
Idle == [Reader("none") EXCEPT !.pc = "idle"]

Init ==
  /\ map = [b \in Buckets |-> <<>>] /\ nonzero = {}
  /\ rd = Idle /\ writes = 0 /\ hist = [did |-> {}, start |-> {}]

-----------------------------------------------------------------------------
(* The kernel (external).                                                   *)

\* The place of a key in a chain, and the chain without it.
Place(s, k) == CHOOSE i \in DOMAIN s : s[i] = k
Without(s, k) ==
  IF k \notin Range(s) THEN s
  ELSE SubSeq(s, 1, Place(s, k) - 1) \o SubSeq(s, Place(s, k) + 1, Len(s))

\* A new element goes to the head of its bucket, the old one of its key away.
Put(m, k) == [m EXCEPT ![Bucket(k)] = <<k>> \o Without(@, k)]
Drop(m, k) == [m EXCEPT ![Bucket(k)] = Without(@, k)]
Fits(k) == k \in Content \/ Cardinality(Content) < MaxEntries

\* get_next_key: the next one in the bucket of k, or else the first of a later
\* bucket; from the start again when k is not there.
FirstFrom(b) ==
  LET bs == {c \in Buckets : c >= b /\ map[c] # <<>>}
  IN  IF bs = {} THEN None ELSE Head(map[Min(bs)])
NextKey(k) ==
  LET chain == map[Bucket(k)]
  IN  IF k \notin Range(chain) THEN FirstFrom(0)
      ELSE IF Place(chain, k) < Len(chain) THEN chain[Place(chain, k) + 1]
      ELSE FirstFrom(Bucket(k) + 1)

\* Programs update and delete.
Note(what) == hist' = [hist EXCEPT !.did = IF rd.pc = "idle" THEN {} ELSE @ \cup {what}]
Update(k) ==
  /\ writes < MaxWrites /\ writes' = writes + 1 /\ Fits(k)
  /\ map' = Put(map, k) /\ nonzero' = nonzero \cup {k}
  /\ Note(IF k \in Content THEN "update" ELSE "insert") /\ UNCHANGED rd
Delete(k) ==
  /\ writes < MaxWrites /\ writes' = writes + 1 /\ k \in Content
  /\ map' = Drop(map, k) /\ nonzero' = nonzero \ {k}
  /\ Note("delete") /\ UNCHANGED rd

-----------------------------------------------------------------------------
(* The calls.                                                               *)

Table == UNCHANGED <<map, nonzero>>
Reads == UNCHANGED <<writes, hist>>
At(pc) == rd.pc = pc /\ Reads
Go(pc) == rd' = [rd EXCEPT !.pc = pc]

Call(op) ==
  /\ rd.pc \in {"idle", "returned", "raised"} /\ Table /\ UNCHANGED writes
  /\ rd' = [Reader(op) EXCEPT !.pc = IF op \in {"batch_lookup", "batch_delete"} THEN "batch" ELSE "next"]
  /\ hist' = [did |-> {}, start |-> Content]

\* first() or next(): clear_table_non_atomic asks for the first key every time.
From == IF rd.op = "clear_cc" THEN None ELSE rd.key

AfterMutant(k) == IF k = None THEN IF rd.op = "zero" THEN "set" ELSE "returned"
                  ELSE IF rd.key = None /\ rd.op = "offline" THEN "next" ELSE "use"
After(k) == IF k = None THEN IF rd.op = "zero" THEN "set" ELSE "returned" ELSE "use"

Advance ==
  /\ At("next") /\ Table
  /\ LET k == NextKey(From) IN rd' = [rd EXCEPT !.key = k, !.pc = After(k)]

\* get_table_offline stops at a key that has gone, iteritems goes on.
Lookup ==
  /\ At("use") /\ rd.op \in {"offline", "items"} /\ Table
  /\ \/ rd.key \in Content /\ rd' = [rd EXCEPT !.got = Append(@, rd.key), !.pc = "next"]
     \/ rd.key \notin Content /\ Go(IF rd.op = "offline" THEN "returned" ELSE "next")

\* Clearing fails at a key that has gone.
RemoveKey ==
  /\ At("use") /\ rd.op \in {"clear_cc", "clear_py"}
  /\ \/ /\ rd.key \in Content /\ Go("next")
        /\ map' = Drop(map, rd.key) /\ nonzero' = nonzero \ {rd.key}
     \/ rd.key \notin Content /\ Go("raised") /\ Table

\* zero: the list of all keys, then an assignment to each.
ListKeyMutant ==
  /\ At("use") /\ rd.op = "zero" /\ Go("next")
  /\ map' = Put(map, rd.key) /\ nonzero' = nonzero \ {rd.key}
ListKey ==
  /\ At("use") /\ rd.op = "zero" /\ Table
  /\ rd' = [rd EXCEPT !.list = Append(@, rd.key), !.pc = "next"]

SetZero ==
  /\ At("set")
  /\ \/ rd.list = <<>> /\ Go("returned") /\ Table
     \/ /\ rd.list # <<>>
        /\ LET k == Head(rd.list)
           IN  IF Fits(k)
                 THEN /\ map' = Put(map, k) /\ nonzero' = nonzero \ {k}
                      /\ rd' = [rd EXCEPT !.list = Tail(@)]
                 ELSE Table /\ Go("raised")

-----------------------------------------------------------------------------
(* _items_lookup_and_optionally_delete_batch.  ct_out_batch and ct_cnt are   *)
(* one object: the count asked for overwrites the position of the last call. *)

RoomMutant == MaxEntries + 1 - rd.total
Room == MaxEntries - rd.total

InBatchMutant == Room
InBatch == IF rd.total > 0 THEN Room ELSE 0

BatchCall ==
  /\ At("batch") /\ Table
  /\ rd' = [rd EXCEPT !.left = Room, !.cnt = 0, !.cur = InBatch, !.pc = "bucket"]

\* The kernel (external): one bucket under its lock; a bucket that does not fit
\* ends the call, with ENOSPC if it is the first; ENOENT past the last.
BatchBucket ==
  /\ At("bucket")
  /\ \/ rd.cur >= NBuckets /\ Go("ENOENT") /\ Table
     \/ /\ rd.cur < NBuckets /\ Len(map[rd.cur]) > rd.left - rd.cnt
        /\ Go(IF rd.cnt = 0 THEN "ENOSPC" ELSE "more") /\ Table
     \/ /\ rd.cur < NBuckets /\ Len(map[rd.cur]) <= rd.left - rd.cnt
        /\ rd' = [rd EXCEPT !.got = @ \o map[rd.cur], !.cnt = @ + Len(map[rd.cur]), !.cur = @ + 1,
                            !.taken = IF rd.op = "batch_delete" THEN @ + Len(map[rd.cur]) ELSE @]
        /\ IF rd.op = "batch_delete"
             THEN map' = [map EXCEPT ![rd.cur] = <<>>] /\ nonzero' = nonzero \ Range(map[rd.cur])
             ELSE Table

\* Back in the loop: the arrays keep the first total entries.
TotalMutant == rd.cnt
Total == rd.total + rd.cnt

BatchDone ==
  /\ rd.pc \in {"ENOENT", "ENOSPC", "more"} /\ Reads /\ Table
  /\ rd' = [rd EXCEPT !.total = Total, !.got = SubSeq(@, 1, Total),
              !.pc = IF rd.pc = "ENOSPC" THEN "raised"
                     ELSE IF rd.pc = "ENOENT" \/ Total = MaxEntries \/ rd.cnt = 0 THEN "returned"
                     ELSE "batch"]

-----------------------------------------------------------------------------
Step == Advance \/ Lookup \/ RemoveKey \/ ListKey \/ SetZero
        \/ BatchCall \/ BatchBucket \/ BatchDone
Next == \/ \E k \in Keys : Update(k) \/ Delete(k)
        \/ \E op \in Ops : Call(op)
        \/ Step

Spec == Init /\ [][Next]_vars

\* The reader's thread runs; the programs' writes are bounded, so they pause.
FairSpec == Spec /\ WF_vars(Step)

-----------------------------------------------------------------------------
(* Properties.                                                              *)

\* The state is well formed, and what a batch call stores stays within the two
\* arrays of max_entries elements.
TypeOK ==
  /\ \A b \in DOMAIN map : /\ Range(map[b]) \subseteq {k \in Keys : Bucket(k) = b}
                           /\ IsInjective(map[b])
  /\ nonzero \subseteq Content /\ Cardinality(Content) <= MaxEntries
  /\ rd.op \in Ops \cup {"none"} /\ rd.key \in Keys \cup {None}
  /\ rd.total + rd.cnt <= MaxEntries \/ rd.pc \notin {"bucket", "ENOENT", "ENOSPC", "more"}

Gathers == {"offline", "items", "batch_lookup"}

\* Without interference every call does all of its work once, although clearing
\* iterates over keys it has just deleted and zero moves keys within their buckets.
QuietIsExact ==
  rd.pc \in {"returned", "raised"} /\ hist.did = {} =>
    /\ rd.pc = "returned"
    /\ rd.op \in Gathers \cup {"batch_delete"} => Range(rd.got) = hist.start /\ IsInjective(rd.got)
    /\ rd.op \in {"clear_cc", "clear_py", "batch_delete"} => Content = {}
    /\ rd.op = "zero" => Content = hist.start /\ nonzero = {}

\* Programs that only add keys during the call hide none of the others from it: a
\* key that was there is reported, and only once.
InsertsHideNothing ==
  rd.pc = "returned" /\ hist.did \subseteq {"insert"} /\ rd.op \in Gathers =>
    hist.start \subseteq Range(rd.got) /\ IsInjective(rd.got)

\* What the lookup-and-delete batches take out of the table they yield, however the
\* buckets fill up meanwhile, unless they raise.
DeletedIsYielded ==
  rd.pc = "returned" /\ rd.op = "batch_delete" => Len(rd.got) = rd.taken

\* j comes before k when the table is walked.
Ahead(s, j, k) == \E x, y \in 1..Len(s) : x < y /\ s[x] = j /\ s[y] = k
Before(m, j, k) ==
  \/ Bucket(j) < Bucket(k)
  \/ Bucket(j) = Bucket(k) /\ Ahead(m[Bucket(k)], j, k)

\* The keys a walk has still to come to: all of them when its key has gone.
ToCome == {j \in Content : rd.key \in Content => ~Before(map, j, rd.key) /\ j # rd.key}

\* What is left of a call: its phase, the work of the phase, the steps of a turn.
Phase == IF rd.pc \in {"idle", "returned", "raised"} THEN 0 ELSE IF rd.pc = "set" THEN 1 ELSE 2
Work == IF rd.pc = "set" THEN Len(rd.list)
        ELSE IF rd.op \in {"batch_lookup", "batch_delete"} THEN MaxEntries - rd.total
        ELSE Cardinality(IF rd.op \in {"clear_cc", "clear_py"} THEN Content ELSE ToCome)
Turn == IF rd.pc = "batch" THEN NBuckets + 2
        ELSE IF rd.pc = "bucket" THEN IF rd.cur < NBuckets THEN NBuckets - rd.cur + 1 ELSE 1
        ELSE IF rd.pc = (IF rd.op \in {"clear_cc", "clear_py"} THEN "next" ELSE "use") THEN 1 ELSE 0

\* Every step of a call gets on with it, in any state the programs have brought the
\* table into: a walk that starts again, a clear that deletes the key it stands on, zero
\* and the batches.  Only the programs' writes can make a call longer.
GetsOn ==
  [][Step => /\ Work \in Nat /\ Turn \in Nat
             /\ \/ Phase' < Phase
                \/ Phase' = Phase /\ (Work' < Work \/ (Work' = Work /\ Turn' < Turn))]_vars

\* No call goes round for ever once the programs pause: deleting the key the
\* iteration stands on, or moving it, does not make the loop endless.
CallsEnd == []<>(rd.pc \in {"idle", "returned", "raised"})
=============================================================================
