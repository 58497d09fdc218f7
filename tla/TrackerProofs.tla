--------------------------- MODULE TrackerProofs ---------------------------
(***************************************************************************)
(* Theorems about the task tracker, for calls that do not overlap on a     *)
(* task: however many tasks and calls there are, no task is retried or     *)
(* sent beyond its budget, and its homes agree.                            *)
(***************************************************************************)
EXTENDS TaskTracker, TLAPS

Objects == Calls \cup Tasks
Ops == Statuses \cup {"none", "create", "failure"}
Writes == {"setex", "srem", "sadd", "hincrby"}
Places == {"idle", "get failed", "get", "publish", "done"} \cup Writes
Metrics == Counted \cup {"created"}

CallRecords == [op : Ops, task : Tasks \cup {None}, pc : Places,
                obj : Objects \cup {None}, old : Statuses \cup {"none"},
                data : Records \cup {None}, key : Statuses \cup {"none", "created"},
                tries : 0..MaxAttempts, publish : Tasks \cup {None}]

-----------------------------------------------------------------------------
(* What holds whether Redis fails or not *)

Typed == /\ heap \in [Objects -> Records \cup {None}]
         /\ local \in [Tasks -> Objects \cup {None}]
         /\ redis \in [Tasks -> Records \cup {None}]
         /\ index \in [Statuses -> SUBSET Tasks]
         /\ metrics \in [Metrics -> Nat]
         /\ counters \in [Metrics -> Nat]
         /\ call \in [Calls -> CallRecords]
         /\ sent \in [Tasks -> Nat]
         /\ raises \in 0..MaxRaises

Writing(c) == call[c].pc \in Writes

(* The task an object stands for. *)
Of(o) == IF o \in Tasks THEN o ELSE call[o].task

(* A call and the tasks it names. *)
Names(c) ==
    /\ call[c].pc = "idle" => call[c].task = None /\ call[c].publish = None
    /\ call[c].pc # "idle" => call[c].task \in Tasks
    /\ call[c].task # None => heap[call[c].task] # None
    /\ call[c].publish # None => heap[call[c].publish] # None
    /\ call[c].op = "create" => /\ call[c].publish \in Tasks /\ call[c].publish # call[c].task
                                /\ call[c].pc \in Writes \cup {"publish", "done"}
    /\ call[c].op # "create" => call[c].publish \in {None, call[c].task}

(* What it is about to do: its status in hand, its budget left.            *)
Means(c) ==
    /\ call[c].pc \in {"get failed", "get"} => call[c].publish = None /\ call[c].op # "create"
    /\ call[c].pc = "get" => call[c].op \in Statuses
    /\ call[c].pc = "publish" => call[c].publish \in Tasks /\ call[c].tries < MaxAttempts
    /\ call[c].pc \in {"get failed", "get"} \cup Writes => call[c].tries = 0

(* What it writes is what the object says, which nobody else changes.      *)
InHand(c) ==
    Writing(c) => /\ call[c].obj \in Objects /\ Of(call[c].obj) = call[c].task
                  /\ call[c].obj \in Calls \ {c} => call[call[c].obj].pc \in {"publish", "done"}
                  /\ call[c].data \in Records /\ heap[call[c].obj] = call[c].data
                  /\ call[c].op # "create" => call[c].old \in Statuses
                  /\ call[c].pc = "srem" => call[c].op # "create"

(* The object of a task, and its record, are of a task that was made.      *)
Homes(t) ==
    /\ local[t] # None => /\ heap[local[t]] # None /\ Of(local[t]) = t /\ heap[t] # None
                          /\ local[t] \in Calls => call[local[t]].pc \in {"publish", "done"}
    /\ redis[t] # None => heap[t] # None

(* A task that was published under an id of its own is not tracked.        *)
OnlyPublished(c) ==
    call[c].op = "create" => /\ local[call[c].publish] = None /\ redis[call[c].publish] = None
                             /\ \A d \in Calls : Writing(d) => call[d].task # call[c].publish

(* Of two calls under way, no task is of both. *)
Apart(c, d) == Active(c) /\ Active(d) =>
                   {call[c].task, call[c].publish} \cap {call[d].task, call[d].publish} \subseteq {None}

Structure == /\ Typed
             /\ \A c \in Calls : Names(c) /\ Means(c) /\ InHand(c) /\ OnlyPublished(c)
             /\ \A t \in Tasks : Homes(t)
             /\ \A c, d \in Calls : c # d => Apart(c, d)

-----------------------------------------------------------------------------
(* What holds as long as Redis has not failed *)

(* The sends that n retries allow. *)
Allowance(n) == MaxAttempts * n

(* x is what one of the homes of t says of it. *)
Says(t, x) == \/ redis[t] # None /\ x = redis[t]
              \/ local[t] # None /\ x = heap[local[t]]

BeingWritten(t) == \E c \in Calls : Writing(c) /\ call[c].task = t

Sound(t) ==
    /\ \A x \in Records : Says(t, x) => x.retries <= MaxRetries /\ sent[t] <= Allowance(x.retries)
    /\ ~BeingWritten(t) => \A x, y \in Records : Says(t, x) /\ Says(t, y) =>
                               x = y /\ t \in index[x.status]

(* Who decided to retry may. *)
MayRetry(c) ==
    call[c].pc = "get" /\ call[c].op = "retrying" =>
        \A x \in Records : Says(call[c].task, x) => x.retries < MaxRetries

(* Who publishes has attempts left that the task was charged with.         *)
MayPublish(c) ==
    call[c].pc = "publish" /\ call[c].publish = call[c].task =>
        \A x \in Records : Says(call[c].task, x) =>
            sent[call[c].task] + (MaxAttempts - call[c].tries) <= Allowance(x.retries)

(* What is being written, and how far. *)
MayWrite(c) ==
    Writing(c) =>
        /\ call[c].data.retries <= MaxRetries
        /\ sent[call[c].task] + (IF call[c].publish = call[c].task THEN MaxAttempts ELSE 0)
               <= Allowance(call[c].data.retries)
        /\ call[c].pc # "setex" => redis[call[c].task] \in {None, call[c].data}
        /\ call[c].pc = "setex" /\ call[c].op # "create" /\ call[c].old = call[c].data.status =>
               call[c].task \in index[call[c].data.status]
        /\ call[c].pc = "sadd" => call[c].key = call[c].data.status
        /\ call[c].pc = "srem" => call[c].old # call[c].data.status
        /\ call[c].pc = "hincrby" =>
               /\ call[c].task \in index[call[c].data.status]
               /\ call[c].key = IF call[c].op = "create" THEN "created" ELSE call[c].data.status
               /\ call[c].key \in Metrics

ObjectsInBudget == \A o \in Objects : heap[o] # None => heap[o].retries <= MaxRetries

(* A task that was never made was never sent. *)
Unsent == \A t \in Tasks : heap[t] = None => sent[t] = 0

Agreement == /\ \A t \in Tasks : Sound(t)
             /\ \A c \in Calls : MayRetry(c) /\ MayPublish(c) /\ MayWrite(c)
             /\ ObjectsInBudget /\ Unsent
             /\ metrics = counters

TrackerInv == Structure /\ (raises = 0 => Agreement)
-----------------------------------------------------------------------------
(* Lemmas about calls and objects *)

(* The fields of a call. *)
LEMMA CallFields ==
    ASSUME NEW r \in CallRecords
    PROVE  /\ r.op \in Ops /\ r.task \in Tasks \cup {None} /\ r.pc \in Places
           /\ r.obj \in Objects \cup {None} /\ r.old \in Statuses \cup {"none"}
           /\ r.data \in Records \cup {None} /\ r.key \in Statuses \cup {"none", "created"}
           /\ r.tries \in 0..MaxAttempts /\ r.publish \in Tasks \cup {None}
BY DEF CallRecords

(* A call at another place. *)
At(r, pc, key) == [r EXCEPT !.pc = pc, !.key = key]

LEMMA AtFields ==
    ASSUME NEW r \in CallRecords, NEW pc \in Places, NEW key \in Statuses \cup {"none", "created"}
    PROVE  /\ At(r, pc, key) \in CallRecords
           /\ At(r, pc, key).pc = pc /\ At(r, pc, key).key = key /\ At(r, pc, key).op = r.op
           /\ At(r, pc, key).task = r.task /\ At(r, pc, key).obj = r.obj
           /\ At(r, pc, key).old = r.old /\ At(r, pc, key).data = r.data
           /\ At(r, pc, key).tries = r.tries /\ At(r, pc, key).publish = r.publish
<1>1. At(r, pc, key) \in CallRecords
  BY DEF At, CallRecords
<1> QED
  BY <1>1 DEF At, CallRecords

(* A call goes on to another place, and to another key. *)
LEMMA Moves ==
    ASSUME call \in [Calls -> CallRecords], NEW c \in Calls, NEW pc \in Places,
           NEW key \in Statuses \cup {"none", "created"},
           \/ call' = [call EXCEPT ![c].pc = pc, ![c].key = key]
           \/ call' = [call EXCEPT ![c].pc = pc] /\ key = call[c].key
    PROVE  /\ call' \in [Calls -> CallRecords]
           /\ call'[c].pc = pc /\ call'[c].key = key /\ call'[c].op = call[c].op
           /\ call'[c].task = call[c].task /\ call'[c].obj = call[c].obj
           /\ call'[c].old = call[c].old /\ call'[c].data = call[c].data
           /\ call'[c].tries = call[c].tries /\ call'[c].publish = call[c].publish
           /\ \A d \in Calls \ {c} : call'[d] = call[d]
<1>1. call[c] \in CallRecords
  OBVIOUS
<1>2. call' = [call EXCEPT ![c] = At(call[c], pc, key)]
  <2>1. CASE call' = [call EXCEPT ![c].pc = pc, ![c].key = key]
    BY <2>1 DEF At
  <2>2. CASE call' = [call EXCEPT ![c].pc = pc] /\ key = call[c].key
    <3>1. call' = [call EXCEPT ![c] = [call[c] EXCEPT !.pc = pc]]
      BY <2>2
    <3>2. [call[c] EXCEPT !.pc = pc] = At(call[c], pc, key)
      BY <1>1, <2>2 DEF At, CallRecords
    <3> QED
      BY <3>1, <3>2
  <2> QED
    BY <2>1, <2>2
<1>3. call'[c] = At(call[c], pc, key) /\ \A d \in Calls \ {c} : call'[d] = call[d]
  BY <1>2
<1>4. call' \in [Calls -> CallRecords]
  BY <1>1, <1>2, AtFields
<1> QED
  BY <1>1, <1>3, <1>4, AtFields

LEMMA MovesWithKey ==
    ASSUME call \in [Calls -> CallRecords], NEW c \in Calls, NEW pc \in Places,
           NEW key \in Statuses \cup {"none", "created"},
           call' = [call EXCEPT ![c].pc = pc, ![c].key = key]
    PROVE  call'[c].pc = pc /\ call'[c].key = key
<1>1. call[c] \in CallRecords
  OBVIOUS
<1>2. call'[c] = At(call[c], pc, key)
  BY DEF At
<1> QED
  BY <1>1, <1>2, AtFields

(* The sends that n retries allow grow by MaxAttempts with each.           *)
LEMMA AllowanceGrows ==
    ASSUME NEW n \in Nat
    PROVE  /\ Allowance(n) \in Nat
           /\ Allowance(n + 1) = Allowance(n) + MaxAttempts
BY TrackerAssumption DEF Allowance
-----------------------------------------------------------------------------
(* Structure, step by step *)

(* A step of c: the other calls stay where they are, and of the objects    *)
(* and homes only those of its task change.                                *)
StepOf(c) ==
    /\ \A d \in Calls \ {c} : call'[d] = call[d]
    /\ call[c].task # None => call'[c].task = call[c].task
    /\ call[c].pc \in {"publish", "done"} => call'[c].pc \in {"publish", "done"}
    /\ \A o \in Objects : heap[o] # None =>
           heap'[o] # None /\ (heap'[o] = heap[o] \/ (Active(c) /\ Of(o) = call[c].task))
    /\ \A t \in Tasks : \/ local'[t] \in {local[t], None} /\ redis'[t] \in {redis[t], None}
                        \/ Writing(c) /\ t = call[c].task
    /\ call'[c].pc \in Writes =>
           \A d \in Calls : call[d].op = "create" => call[d].publish # call'[c].task

LEMMA OthersKept ==
    ASSUME Structure, NEW c \in Calls, StepOf(c), NEW d \in Calls \ {c}
    PROVE  Names(d)' /\ Means(d)' /\ InHand(d)' /\ OnlyPublished(d)'
<1>0. /\ Names(d) /\ Means(d) /\ InHand(d) /\ OnlyPublished(d) /\ Apart(c, d)
      /\ call[d] \in CallRecords /\ call'[d] = call[d]
  BY DEF Structure, StepOf, Typed
<1>1. /\ call[d].task \in Tasks \cup {None} /\ call[d].publish \in Tasks \cup {None}
      /\ call[d].obj \in Objects \cup {None}
  BY <1>0, CallFields
<1>2. Names(d)'
  BY <1>0, <1>1 DEF Names, StepOf, Objects
<1>3. Means(d)'
  BY <1>0 DEF Means
<1>4. InHand(d)'
  <2> SUFFICES ASSUME Writing(d) PROVE InHand(d)'
    BY <1>0 DEF InHand, Writing
  <2> DEFINE o == call[d].obj
  <2>1. /\ o \in Objects /\ Of(o) = call[d].task /\ call[d].data \in Records
        /\ heap[o] = call[d].data
        /\ call[d].op # "create" => call[d].old \in Statuses
        /\ call[d].pc = "srem" => call[d].op # "create"
        /\ o \in Calls \ {d} => call[o].pc \in {"publish", "done"}
    BY <1>0 DEF InHand
  <2>2. call[d].task \in Tasks /\ call[d].task # None /\ Active(d)
    BY <1>0, TrackerAssumption DEF Names, Writing, Writes, Active
  <2>3. Of(o)' = Of(o)
    BY <1>0, <2>1, <2>2, TrackerAssumption DEF Of, StepOf, Objects
  <2>4. o \in Calls \ {d} => call'[o].pc \in {"publish", "done"}
    BY <1>0, <2>1 DEF StepOf
  <2>5. heap[o] # None
    BY <2>1, TrackerAssumption
  <2>6. ~(Active(c) /\ Of(o) = call[c].task)
    BY <1>0, <2>1, <2>2 DEF Apart
  <2>7. heap'[o] = heap[o]
    BY <2>1, <2>5, <2>6 DEF StepOf
  <2> QED
    BY <1>0, <2>1, <2>3, <2>4, <2>7 DEF InHand
<1>5. OnlyPublished(d)'
  <2> SUFFICES ASSUME call[d].op = "create" PROVE OnlyPublished(d)'
    BY <1>0 DEF OnlyPublished
  <2> DEFINE p == call[d].publish
  <2>1. /\ p \in Tasks /\ local[p] = None /\ redis[p] = None
        /\ \A e \in Calls : Writing(e) => call[e].task # p
    BY <1>0 DEF OnlyPublished, Names
  <2>2. local'[p] = None /\ redis'[p] = None
    BY <2>1 DEF StepOf
  <2>3. \A e \in Calls : call'[e].pc \in Writes => call'[e].task # p
    BY <2>1 DEF StepOf, Writing
  <2> QED
    BY <1>0, <2>2, <2>3 DEF OnlyPublished, Writing
<1> QED
  BY <1>2, <1>3, <1>4, <1>5
(* A home changes only as expiry, clean-up or the call that writes it      *)
(* changes it.                                                             *)
HomesFollow(c) ==
    \A t \in Tasks :
        /\ redis'[t] \in {redis[t], None} \/ heap[t] # None
        /\ \/ local'[t] \in {local[t], None}
           \/ /\ Writing(c) /\ t = call[c].task /\ local'[t] = call[c].obj
              /\ call'[c].pc \in {"publish", "done"}

LEMMA HomesKept ==
    ASSUME Structure, NEW c \in Calls, StepOf(c), HomesFollow(c), NEW t \in Tasks
    PROVE  Homes(t)'
<1>1. redis'[t] # None => heap'[t] # None
  BY DEF Structure, Homes, StepOf, HomesFollow, Objects
<1>2. CASE local'[t] = None
  BY <1>1, <1>2 DEF Homes
<1>3. CASE local'[t] = local[t] /\ local[t] # None
  <2>0. PICK o \in Objects : o = local[t]
    BY <1>3, TrackerAssumption DEF Structure, Typed
  <2>1. /\ o \in Objects /\ heap[o] # None /\ Of(o) = t /\ heap[t] # None /\ t # None
        /\ o \in Calls => call[o].pc \in {"publish", "done"}
    BY <1>3, <2>0, TrackerAssumption DEF Structure, Homes, Typed
  <2>2. heap'[o] # None /\ heap'[t] # None
    BY <2>1 DEF StepOf, Objects
  <2>3. o \in Calls => call'[o].task = call[o].task /\ call'[o].pc \in {"publish", "done"}
    BY <2>1, TrackerAssumption DEF StepOf, Of
  <2>4. Of(o)' = t
    BY <2>1, <2>3 DEF Of, Objects
  <2> QED
    BY <1>1, <1>3, <2>0, <2>2, <2>3, <2>4 DEF Homes
<1>4. CASE local'[t] # local[t] /\ local'[t] # None
  <2>1. /\ Writing(c) /\ t = call[c].task /\ local'[t] = call[c].obj
        /\ call'[c].pc \in {"publish", "done"}
    BY <1>4 DEF HomesFollow
  <2>0. PICK o \in Objects : o = call[c].obj
    BY <2>1 DEF Structure, InHand
  <2>2. /\ Of(o) = t /\ heap[o] # None
        /\ o \in Calls \ {c} => call[o].pc \in {"publish", "done"}
    BY <2>0, <2>1, TrackerAssumption DEF Structure, InHand
  <2>3. heap[t] # None /\ t # None
    BY <2>1, TrackerAssumption DEF Structure, Names
  <2>4. heap'[o] # None /\ heap'[t] # None
    BY <2>2, <2>3 DEF StepOf, Objects
  <2>5. o \in Calls => call'[o].task = call[o].task /\ call'[o].pc \in {"publish", "done"}
    BY <2>1, <2>2, <2>3 DEF StepOf, Of
  <2>6. Of(o)' = t
    BY <2>2, <2>5 DEF Of, Objects
  <2> QED
    BY <1>1, <2>0, <2>1, <2>4, <2>5, <2>6 DEF Homes
<1> QED
  BY <1>2, <1>3, <1>4

(* A call under way takes up no further task; one that begins takes up     *)
(* tasks that no other is about.                                           *)
StaysApart(c) ==
    \/ Active(c) /\ {call'[c].task, call'[c].publish} \subseteq {call[c].task, call[c].publish, None}
    \/ \A d \in Calls \ {c} : Active(d) =>
           {call'[c].task, call'[c].publish} \cap {call[d].task, call[d].publish} \subseteq {None}

LEMMA ApartKept ==
    ASSUME Structure, NEW c \in Calls, StepOf(c), StaysApart(c),
           NEW d \in Calls, NEW e \in Calls, d # e
    PROVE  Apart(d, e)'
<1>1. \A f \in Calls \ {c} : call'[f] = call[f] /\ (Active(f)' <=> Active(f))
  BY DEF StepOf, Active
<1>2. CASE c \notin {d, e}
  BY <1>1, <1>2 DEF Structure, Apart
<1>3. ASSUME NEW f \in Calls \ {c}
      PROVE  Active(f) => {call'[c].task, call'[c].publish} \cap {call[f].task, call[f].publish}
                              \subseteq {None}
  <2>1. Apart(c, f)
    BY DEF Structure
  <2> QED
    BY <2>1 DEF StaysApart, Apart
<1>4. CASE c = d
  BY <1>1, <1>3, <1>4 DEF Apart
<1>5. CASE c = e
  BY <1>1, <1>3, <1>5 DEF Apart
<1> QED
  BY <1>2, <1>4, <1>5

LEMMA StructureKept ==
    ASSUME Structure, NEW c \in Calls, StepOf(c), HomesFollow(c), StaysApart(c), Typed',
           Names(c)', Means(c)', InHand(c)', OnlyPublished(c)'
    PROVE  Structure'
<1>1. \A d \in Calls : Names(d)' /\ Means(d)' /\ InHand(d)' /\ OnlyPublished(d)'
  BY OthersKept
<1>2. \A t \in Tasks : Homes(t)'
  BY HomesKept
<1>3. \A d, e \in Calls : d # e => Apart(d, e)'
  BY ApartKept
<1> QED
  BY <1>1, <1>2, <1>3 DEF Structure
-----------------------------------------------------------------------------
(* Writing *)

(* A command is done with: the next is another, or the publish, or none;   *)
(* or it was the last, and the dict has the object.                        *)
GoesOn(c) ==
    /\ call' \in [Calls -> CallRecords]
    /\ \A d \in Calls \ {c} : call'[d] = call[d]
    /\ call'[c].op = call[c].op /\ call'[c].task = call[c].task /\ call'[c].obj = call[c].obj
    /\ call'[c].old = call[c].old /\ call'[c].data = call[c].data
    /\ call'[c].tries = call[c].tries /\ call'[c].publish = call[c].publish
    /\ call'[c].pc \in Writes \cup {"publish", "done"}
    /\ call'[c].pc = "publish" => call[c].publish # None
    /\ call'[c].pc = "srem" => call[c].op # "create"
    /\ heap' = heap
    /\ counters' \in [Metrics -> Nat]
    /\ \/ local' = local
       \/ /\ local' = [local EXCEPT ![call[c].task] = call[c].obj]
          /\ call'[c].pc \in {"publish", "done"}

(* What a call that writes has in hand. *)
LEMMA WriterHas ==
    ASSUME Structure, NEW c \in Calls, Writing(c)
    PROVE  /\ call[c] \in CallRecords /\ call[c].task \in Tasks /\ call[c].task # None
           /\ call[c].obj \in Objects /\ call[c].data \in Records /\ call[c].data # None
           /\ heap[call[c].obj] = call[c].data
           /\ Status(call[c].obj) = call[c].data.status
           /\ call[c].data.status \in Statuses /\ call[c].data.retries \in Nat
           /\ call[c].tries = 0 /\ Active(c)
<1>1. call[c] \in CallRecords /\ InHand(c) /\ Names(c) /\ Means(c)
  BY DEF Structure, Typed
<1>2. /\ call[c].task \in Tasks /\ call[c].tries = 0 /\ Active(c)
      /\ call[c].obj \in Objects /\ call[c].data \in Records
      /\ heap[call[c].obj] = call[c].data
  BY <1>1 DEF InHand, Names, Means, Writing, Writes, Active
<1> QED
  BY <1>1, <1>2, TrackerAssumption DEF Status, Records

LEMMA KeepGoesOn ==
    ASSUME Structure, NEW c \in Calls, Writing(c), KeepLocally(c)
    PROVE  GoesOn(c) /\ local' = [local EXCEPT ![call[c].task] = call[c].obj]
<1>1. /\ local' = [local EXCEPT ![call[c].task] = call[c].obj] /\ heap' = heap
      /\ call' = [call EXCEPT ![c].pc = Stored(c)]
  BY DEF KeepLocally, Goes
<1>2. Stored(c) \in {"publish", "done"} /\ (Stored(c) = "publish" => call[c].publish # None)
  BY DEF Stored
<1>3. counters' \in [Metrics -> Nat]
  <2>1. counters \in [Metrics -> Nat]
    BY DEF Structure, Typed
  <2>2. PICK m \in Metrics : counters' \in {counters, [counters EXCEPT ![m] = @ + 1]}
    BY DEF KeepLocally, Metrics
  <2> QED
    BY <2>1, <2>2
<1>4. call \in [Calls -> CallRecords] /\ call[c].key \in Statuses \cup {"none", "created"}
  BY WriterHas, CallFields DEF Structure, Typed
<1>5. Stored(c) \in Places
  BY <1>2 DEF Places
<1> QED
  BY <1>1, <1>2, <1>3, <1>4, <1>5, Moves DEF GoesOn

LEMMA CountGoesOn ==
    ASSUME Structure, NEW c \in Calls, Writing(c), CountNext(c)
    PROVE  GoesOn(c)
<1> DEFINE status == IF call[c].op = "create" THEN "created" ELSE Status(call[c].obj)
<1>1. CASE status \in Counted \cup {"created"}
  <2>1. /\ call' = [call EXCEPT ![c].pc = "hincrby", ![c].key = status]
        /\ heap' = heap /\ local' = local /\ counters' = counters
    BY <1>1 DEF CountNext
  <2>2. /\ status \in Statuses \cup {"none", "created"} /\ "hincrby" \in Places
        /\ call \in [Calls -> CallRecords] /\ counters' \in [Metrics -> Nat]
    BY <2>1, WriterHas DEF Places, Writes, Structure, Typed
  <2> HIDE DEF status
  <2> QED
    BY <2>1, <2>2, Moves DEF GoesOn, Writes
<1>2. CASE status \notin Counted \cup {"created"}
  <2>1. KeepLocally(c)
    BY <1>2 DEF CountNext
  <2> QED
    BY <2>1, KeepGoesOn
<1> QED
  BY <1>1, <1>2

LEMMA WritingKeeps ==
    ASSUME Structure, NEW c \in Calls, Writing(c), GoesOn(c),
           redis' \in {redis, [redis EXCEPT ![call[c].task] = call[c].data]},
           index' \in [Statuses -> SUBSET Tasks], metrics' \in [Metrics -> Nat],
           sent' = sent, raises' \in 0..MaxRaises
    PROVE  Structure'
<1>0. /\ Names(c) /\ Means(c) /\ InHand(c) /\ OnlyPublished(c) /\ Typed
      /\ \A t \in Tasks : Homes(t)
  BY DEF Structure
<1>1. /\ call[c].task \in Tasks /\ call[c].task # None /\ call[c].obj \in Objects
      /\ call[c].data \in Records /\ Active(c) /\ heap[call[c].task] # None
  BY <1>0, WriterHas DEF Names
<1>2. Typed'
  BY <1>0, <1>1 DEF Typed, GoesOn
<1>3. StepOf(c)
  <2>1. call[c].pc \notin {"publish", "done"}
    BY DEF Writing, Writes
  <2>2. \A t \in Tasks \ {call[c].task} : local'[t] = local[t] /\ redis'[t] = redis[t]
    BY <1>0 DEF GoesOn, Typed
  <2>3. \A d \in Calls : call[d].op = "create" => call[d].publish # call[c].task
    BY DEF Structure, OnlyPublished
  <2> QED
    BY <2>1, <2>2, <2>3 DEF StepOf, GoesOn
<1>4. HomesFollow(c)
  BY <1>0, <1>1 DEF HomesFollow, GoesOn, Typed, Homes
<1>5. StaysApart(c)
  BY <1>1 DEF StaysApart, GoesOn
<1>6. Names(c)'
  BY <1>0, <1>1 DEF Names, GoesOn, Writing, Writes
<1>7. Means(c)'
  <2>1. /\ call'[c].tries = 0 /\ call'[c].publish = call[c].publish
        /\ call'[c].pc \in Writes \cup {"publish", "done"}
        /\ call'[c].pc = "publish" => call[c].publish \in Tasks
    BY WriterHas, CallFields DEF GoesOn
  <2>2. 0 < MaxAttempts
    BY TrackerAssumption
  <2> QED
    BY <2>1, <2>2 DEF Means, Writes
<1>8. InHand(c)'
  <2> SUFFICES ASSUME Writing(c)' PROVE InHand(c)'
    BY DEF InHand
  <2>0. PICK o \in Objects : o = call[c].obj
    BY <1>1
  <2>1. Of(o) = call[c].task /\ (o \in Calls => call'[o].task = call[o].task)
    BY <1>0, <2>0 DEF InHand, GoesOn
  <2>2. Of(o)' = call[c].task
    BY <2>1 DEF Of, Objects
  <2> QED
    BY <1>0, <1>1, <2>0, <2>2 DEF InHand, GoesOn
<1>9. OnlyPublished(c)'
  <2> SUFFICES ASSUME call[c].op = "create" PROVE OnlyPublished(c)'
    BY DEF OnlyPublished, GoesOn
  <2>1. /\ call[c].publish \in Tasks /\ call[c].publish # call[c].task
        /\ local[call[c].publish] = None /\ redis[call[c].publish] = None
        /\ \A d \in Calls : Writing(d) => call[d].task # call[c].publish
    BY <1>0 DEF OnlyPublished, Names
  <2>2. local'[call[c].publish] = None /\ redis'[call[c].publish] = None
    BY <1>0, <2>1 DEF GoesOn, Typed
  <2>3. \A d \in Calls : Writing(d)' => call'[d].task # call[c].publish
    BY <2>1 DEF GoesOn, Writing
  <2> QED
    BY <2>2, <2>3 DEF OnlyPublished, GoesOn
<1> QED
  BY <1>2, <1>3, <1>4, <1>5, <1>6, <1>7, <1>8, <1>9, StructureKept
(* Each command, done or raising. *)
LEMMA CommandsKeepStructure ==
    ASSUME Structure, NEW c \in Calls,
           Setex(c) \/ Srem(c) \/ Sadd(c) \/ Hincrby(c) \/ WriteRaises(c)
    PROVE  Structure' /\ Writing(c) /\ GoesOn(c)
<1>0. /\ Typed /\ InHand(c)
      /\ Writing(c) => /\ call[c].task \in Tasks /\ call[c].data \in Records
                       /\ Status(call[c].obj) \in Statuses /\ call[c] \in CallRecords
  BY WriterHas DEF Structure
<1>m. ASSUME Writing(c), NEW pc \in Writes, NEW key \in Statuses \cup {"none", "created"},
             pc = "srem" => call[c].op # "create",
             \/ call' = [call EXCEPT ![c].pc = pc, ![c].key = key]
             \/ call' = [call EXCEPT ![c].pc = pc] /\ key = call[c].key,
             UNCHANGED <<heap, local, counters>>
      PROVE  GoesOn(c)
  <2>1. pc \in Places /\ pc \notin {"publish", "done"}
    BY DEF Places, Writes
  <2> QED
    BY <1>0, <1>m, <2>1, Moves DEF GoesOn, Typed
<1>1. CASE Setex(c)
  <2>0. Writing(c) /\ "srem" \in Writes /\ "sadd" \in Writes
    BY <1>1 DEF Setex, Writing, Writes
  <2>1. GoesOn(c)
    <3>1. CASE CountNext(c)
      BY <2>0, <3>1, CountGoesOn
    <3>2. CASE /\ call' = [call EXCEPT ![c].pc = "sadd", ![c].key = Status(call[c].obj)]
               /\ UNCHANGED <<heap, local, counters>>
      BY <1>0, <1>m, <2>0, <3>2
    <3>3. CASE /\ call[c].op # "create" /\ call' = [call EXCEPT ![c].pc = "srem"]
               /\ UNCHANGED <<heap, local, counters>>
      <4>1. call[c].key \in Statuses \cup {"none", "created"}
        BY <1>0, <2>0, CallFields
      <4> QED
        BY <1>m, <2>0, <3>3, <4>1
    <3> QED
      BY <1>1, <3>1, <3>2, <3>3 DEF Setex, Goes
  <2>2. /\ redis' = [redis EXCEPT ![call[c].task] = call[c].data] /\ index' = index
        /\ metrics' = metrics /\ sent' = sent /\ raises' = raises
    BY <1>1 DEF Setex
  <2> QED
    BY <1>0, <2>0, <2>1, <2>2, WritingKeeps DEF Typed
<1>2. CASE Srem(c)
  <2>1. Writing(c) /\ "sadd" \in Writes
    BY <1>2 DEF Srem, Writing, Writes
  <2>2. GoesOn(c)
    BY <1>0, <1>2, <1>m, <2>1 DEF Srem
  <2>3. /\ redis' = redis /\ metrics' = metrics /\ sent' = sent /\ raises' = raises
        /\ index' = [index EXCEPT ![call[c].old] = @ \ {call[c].task}]
    BY <1>2 DEF Srem
  <2>4. index' \in [Statuses -> SUBSET Tasks]
    BY <1>0, <2>3 DEF Typed
  <2> QED
    BY <1>0, <2>1, <2>2, <2>3, <2>4, WritingKeeps DEF Typed
<1>3. CASE Sadd(c)
  <2>1. Writing(c) /\ CountNext(c)
    BY <1>3 DEF Sadd, Writing, Writes
  <2>2. GoesOn(c)
    BY <2>1, CountGoesOn
  <2>3. /\ redis' = redis /\ metrics' = metrics /\ sent' = sent /\ raises' = raises
        /\ index' = [index EXCEPT ![call[c].key] = @ \cup {call[c].task}]
    BY <1>3 DEF Sadd
  <2>4. index' \in [Statuses -> SUBSET Tasks]
    BY <1>0, <2>1, <2>3 DEF Typed
  <2> QED
    BY <1>0, <2>1, <2>2, <2>3, <2>4, WritingKeeps DEF Typed
<1>4. CASE Hincrby(c)
  <2>1. Writing(c) /\ KeepLocally(c)
    BY <1>4 DEF Hincrby, Writing, Writes
  <2>2. GoesOn(c)
    BY <2>1, KeepGoesOn
  <2>3. /\ redis' = redis /\ index' = index /\ sent' = sent /\ raises' = raises
        /\ metrics' = [metrics EXCEPT ![call[c].key] = @ + 1]
    BY <1>4 DEF Hincrby
  <2>4. metrics' \in [Metrics -> Nat]
    <3>1. metrics' \in {metrics, [metrics EXCEPT ![call[c].key] = @ + 1]}
      BY <2>3
    <3> QED
      BY <1>0, <3>1 DEF Typed
  <2> QED
    BY <1>0, <2>1, <2>2, <2>3, <2>4, WritingKeeps DEF Typed
<1>5. CASE WriteRaises(c)
  <2>1. Writing(c) /\ KeepLocally(c)
    BY <1>5 DEF WriteRaises, Writing, Writes
  <2>2. GoesOn(c)
    BY <2>1, KeepGoesOn
  <2>3. redis' \in {redis, [redis EXCEPT ![call[c].task] = call[c].data]}
    BY <1>5 DEF WriteRaises
  <2>4. index' \in [Statuses -> SUBSET Tasks]
    <3>1. index' \in {index, [index EXCEPT ![call[c].old] = @ \ {call[c].task}],
                      [index EXCEPT ![call[c].key] = @ \cup {call[c].task}]}
      BY <1>5 DEF WriteRaises
    <3> QED
      BY <1>0, <2>1, <3>1 DEF Typed
  <2>5. metrics' \in [Metrics -> Nat]
    <3>1. metrics' \in {metrics, [metrics EXCEPT ![call[c].key] = @ + 1]}
      BY <1>5 DEF WriteRaises
    <3> QED
      BY <1>0, <3>1 DEF Typed
  <2>6. sent' = sent /\ raises' \in 0..MaxRaises
    <3>1. raises < MaxRaises /\ raises' = raises + 1 /\ sent' = sent
      BY <1>5 DEF WriteRaises, Raise
    <3> QED
      BY <1>0, <3>1, TrackerAssumption DEF Typed
  <2> QED
    BY <2>1, <2>2, <2>3, <2>4, <2>5, <2>6, WritingKeeps
<1> QED
  BY <1>1, <1>2, <1>3, <1>4, <1>5
-----------------------------------------------------------------------------
(* Reading, deciding, publishing *)

(* A step of c that touches no object and no home.                         *)
LEMMA LookingKeeps ==
    ASSUME Structure, NEW c \in Calls,
           UNCHANGED <<heap, local, redis, index, metrics, counters>>,
           call' \in [Calls -> CallRecords], \A d \in Calls \ {c} : call'[d] = call[d],
           call[c].task # None => call'[c].task = call[c].task,
           call[c].pc \in {"publish", "done"} => call'[c].pc \in {"publish", "done"},
           call'[c].pc \notin Writes,
           call'[c].op = "create" => call[c].op = "create" /\ call'[c].publish = call[c].publish,
           StaysApart(c), Names(c)', Means(c)', sent' \in [Tasks -> Nat], raises' \in 0..MaxRaises
    PROVE  Structure'
<1>1. Typed'
  BY DEF Structure, Typed
<1>2. StepOf(c)
  BY DEF StepOf
<1>3. HomesFollow(c)
  BY DEF HomesFollow
<1>4. InHand(c)'
  BY DEF InHand, Writing
<1>5. OnlyPublished(c)'
  <2>1. OnlyPublished(c)
    BY DEF Structure
  <2>2. \A d \in Calls : Writing(d)' => Writing(d) /\ call'[d].task = call[d].task
    BY DEF Writing
  <2> QED
    BY <2>1, <2>2 DEF OnlyPublished
<1> QED
  BY <1>1, <1>2, <1>3, <1>4, <1>5, StructureKept

(* get_task(): what it returns is what a home of the task says of it.      *)
LEMMA ReadsIts ==
    ASSUME Structure, NEW c \in Calls, call[c].pc \in {"get failed", "get"},
           NEW obj \in Objects, Reads(c, call[c].task, obj)
    PROVE  /\ Copy(c, call[c].task, obj) \in Records
           /\ Says(call[c].task, Copy(c, call[c].task, obj))
           /\ Of(obj) = call[c].task
           /\ obj = c \/ obj = local[call[c].task]
           /\ obj \in Calls \ {c} => call[obj].pc \in {"publish", "done"}
<1>1. /\ call[c].task \in Tasks /\ Homes(call[c].task)
      /\ redis \in [Tasks -> Records \cup {None}] /\ heap \in [Objects -> Records \cup {None}]
  BY DEF Structure, Names, Typed
<1>2. CASE obj = c /\ redis[call[c].task] # None
  BY <1>1, <1>2, TrackerAssumption DEF Copy, Says, Of
<1>3. CASE obj = local[call[c].task]
  <2>1. obj # None /\ heap[obj] # None /\ Of(obj) = call[c].task
    BY <1>1, <1>3, TrackerAssumption DEF Homes, Objects
  <2>2. obj # c /\ (obj \in Calls => call[obj].pc \in {"publish", "done"})
    BY <1>1, <1>3, <2>1 DEF Homes
  <2> QED
    BY <1>1, <1>3, <2>1, <2>2 DEF Copy, Says
<1> QED
  BY <1>2, <1>3 DEF Reads

(* A call that ends here. *)
LEMMA EndingKeeps ==
    ASSUME Structure, NEW c \in Calls, call[c].pc \in {"get failed", "get"}, Goes(c, "done"),
           UNCHANGED <<heap, local, redis, index, metrics, counters, sent>>,
           raises' \in 0..MaxRaises
    PROVE  Structure'
<1>0. Names(c) /\ Means(c) /\ Typed
  BY DEF Structure
<1>1. /\ call' \in [Calls -> CallRecords] /\ \A d \in Calls \ {c} : call'[d] = call[d]
      /\ call'[c].pc = "done" /\ call'[c].op = call[c].op /\ call'[c].task = call[c].task
      /\ call'[c].tries = call[c].tries /\ call'[c].publish = call[c].publish
  <2>1. "done" \in Places /\ call[c].key \in Statuses \cup {"none", "created"}
    BY <1>0, CallFields DEF Places, Typed
  <2> QED
    BY <1>0, <2>1, Moves DEF Goes, Typed
<1>2. StaysApart(c)
  BY <1>1 DEF StaysApart, Active
<1>3. Names(c)' /\ Means(c)'
  BY <1>0, <1>1 DEF Names, Means, Writes
<1> QED
  BY <1>0, <1>1, <1>2, <1>3, LookingKeeps DEF Typed, Writes

(* A call with another operation in mind. *)
Minded(r, op) == [r EXCEPT !.pc = "get", !.op = op]

LEMMA MindedFields ==
    ASSUME NEW r \in CallRecords, NEW op \in Ops
    PROVE  /\ Minded(r, op) \in CallRecords /\ Minded(r, op).pc = "get" /\ Minded(r, op).op = op
           /\ Minded(r, op).task = r.task /\ Minded(r, op).tries = r.tries
           /\ Minded(r, op).publish = r.publish
BY DEF CallRecords, Places, Minded

LEMMA DecideKeeps ==
    ASSUME Structure, NEW c \in Calls, Decide(c)
    PROVE  Structure'
<1>0. Names(c) /\ Means(c) /\ Typed /\ call[c].pc = "get failed"
  BY DEF Structure, Decide
<1>1. PICK obj \in Calls \cup Tasks \cup {None} :
          /\ Reads(c, call[c].task, obj)
          /\ \/ obj = None /\ Goes(c, "done")
             \/ /\ obj # None
                /\ call' = [call EXCEPT
                       ![c].pc = "get",
                       ![c].op = IF CanRetry(Copy(c, call[c].task, obj))
                                 THEN "retrying" ELSE "dead_letter"]
  BY DEF Decide
<1>2. UNCHANGED <<heap, local, redis, index, metrics, counters, sent>>
  BY DEF Decide, stores
<1>3. raises' \in 0..MaxRaises
  <2>1. raises' = raises \/ (raises < MaxRaises /\ raises' = raises + 1)
    BY <1>1 DEF Reads, Raise
  <2>2. raises \in 0..MaxRaises
    BY <1>0 DEF Typed
  <2> QED
    BY <2>1, <2>2, TrackerAssumption
<1>4. CASE Goes(c, "done")
  BY <1>0, <1>2, <1>3, <1>4, EndingKeeps
<1>5. ASSUME NEW op \in {"retrying", "dead_letter"},
             call' = [call EXCEPT ![c].pc = "get", ![c].op = op]
      PROVE  Structure'
  <2>1. call' = [call EXCEPT ![c] = Minded(call[c], op)]
    BY <1>5 DEF Minded
  <2>2. op \in Ops /\ call[c] \in CallRecords
    BY <1>0 DEF Typed, Ops, Statuses
  <2>3. /\ call' \in [Calls -> CallRecords] /\ \A d \in Calls \ {c} : call'[d] = call[d]
        /\ call'[c].pc = "get" /\ call'[c].op = op /\ call'[c].task = call[c].task
        /\ call'[c].tries = call[c].tries /\ call'[c].publish = call[c].publish
    BY <1>0, <2>1, <2>2, MindedFields DEF Typed
  <2>4. StaysApart(c)
    BY <1>0, <2>3 DEF StaysApart, Active
  <2>5. Names(c)' /\ Means(c)'
    BY <1>0, <1>2, <2>3 DEF Names, Means, Writes, Statuses
  <2> QED
    BY <1>0, <1>2, <1>3, <2>3, <2>4, <2>5, LookingKeeps DEF Typed, Writes
<1> QED
  BY <1>1, <1>4, <1>5
(* A call that has changed an object and is about to store it. *)
Storing(r, obj, data, old, publish) ==
    [r EXCEPT !.pc = "setex", !.obj = obj, !.data = data, !.old = old, !.publish = publish]

LEMMA StoringFields ==
    ASSUME NEW r \in CallRecords, NEW obj \in Objects, NEW data \in Records, NEW old \in Statuses,
           NEW publish \in Tasks \cup {None}
    PROVE  /\ Storing(r, obj, data, old, publish) \in CallRecords
           /\ Storing(r, obj, data, old, publish).pc = "setex"
           /\ Storing(r, obj, data, old, publish).obj = obj
           /\ Storing(r, obj, data, old, publish).data = data
           /\ Storing(r, obj, data, old, publish).old = old
           /\ Storing(r, obj, data, old, publish).publish = publish
           /\ Storing(r, obj, data, old, publish).op = r.op
           /\ Storing(r, obj, data, old, publish).task = r.task
           /\ Storing(r, obj, data, old, publish).tries = r.tries
           /\ Storing(r, obj, data, old, publish).key = r.key
<1>1. Storing(r, obj, data, old, publish) \in CallRecords
  BY DEF CallRecords, Places, Writes, Storing
<1> QED
  BY <1>1 DEF CallRecords, Storing

(* What Change(c) makes of a record. *)
After(c, before) == [status |-> call[c].op,
                     retries |-> before.retries + IF call[c].op = "retrying" THEN 1 ELSE 0]

Changed(c, obj, before) ==
    /\ Reads(c, call[c].task, obj)
    /\ Says(call[c].task, before) /\ Of(obj) = call[c].task
    /\ obj = c \/ obj = local[call[c].task]
    /\ obj \in Calls \ {c} => call[obj].pc \in {"publish", "done"}
    /\ After(c, before) \in Records
    /\ heap' = [heap EXCEPT ![obj] = After(c, before)]
    /\ call' \in [Calls -> CallRecords] /\ \A d \in Calls \ {c} : call'[d] = call[d]
    /\ call'[c].pc = "setex" /\ call'[c].obj = obj /\ call'[c].data = After(c, before)
    /\ call'[c].old = (IF call[c].op = "retrying" THEN "failed" ELSE before.status)
    /\ call'[c].publish = (IF call[c].op = "retrying" THEN call[c].task ELSE None)
    /\ call'[c].op = call[c].op /\ call'[c].task = call[c].task
    /\ call'[c].tries = call[c].tries

LEMMA ChangeIs ==
    ASSUME Structure, NEW c \in Calls, Change(c)
    PROVE  \/ Goes(c, "done") /\ UNCHANGED heap
           \/ \E obj \in Objects, before \in Records : Changed(c, obj, before)
<1>0. Names(c) /\ Means(c) /\ Typed /\ call[c].pc = "get"
  BY DEF Structure, Change
<1>1. PICK obj \in Calls \cup Tasks \cup {None} :
          /\ Reads(c, call[c].task, obj)
          /\ \/ obj = None /\ Goes(c, "done") /\ UNCHANGED heap
             \/ LET before == Copy(c, call[c].task, obj)
                    after == [status |-> call[c].op,
                              retries |-> before.retries + IF call[c].op = "retrying" THEN 1 ELSE 0]
                IN  /\ obj # None
                    /\ heap' = [heap EXCEPT ![obj] = after]
                    /\ call' = [call EXCEPT
                           ![c].pc = "setex", ![c].obj = obj, ![c].data = after,
                           ![c].old = IF call[c].op = "retrying" THEN "failed" ELSE before.status,
                           ![c].publish = IF call[c].op = "retrying" THEN call[c].task ELSE None]
  BY DEF Change
<1>2. CASE obj = None /\ Goes(c, "done") /\ UNCHANGED heap
  BY <1>2
<1>3. CASE ~(obj = None /\ Goes(c, "done") /\ UNCHANGED heap)
  <2>1. obj \in Objects
    BY <1>1, <1>3 DEF Objects
  <2>2. PICK before \in Records : before = Copy(c, call[c].task, obj)
    BY <1>0, <1>1, <2>1, ReadsIts
  <2>3. /\ Says(call[c].task, before) /\ Of(obj) = call[c].task
        /\ obj = c \/ obj = local[call[c].task]
        /\ obj \in Calls \ {c} => call[obj].pc \in {"publish", "done"}
    BY <1>0, <1>1, <2>1, <2>2, ReadsIts
  <2> DEFINE old == IF call[c].op = "retrying" THEN "failed" ELSE before.status
             publish == IF call[c].op = "retrying" THEN call[c].task ELSE None
  <2>4. /\ heap' = [heap EXCEPT ![obj] = After(c, before)]
        /\ call' = [call EXCEPT ![c] = Storing(call[c], obj, After(c, before), old, publish)]
    BY <1>1, <1>3, <2>2 DEF After, Storing
  <2>5. After(c, before) \in Records
    <3>1. before.retries \in Nat /\ call[c].op \in Statuses
      BY <1>0 DEF Means, Records
    <3>2. before.retries + (IF call[c].op = "retrying" THEN 1 ELSE 0) \in Nat
      BY <3>1
    <3> QED
      BY <3>1, <3>2 DEF After, Records
  <2>6. old \in Statuses /\ publish \in Tasks \cup {None}
    BY <1>0, <2>2 DEF Names, Records, Statuses
  <2> HIDE DEF old, publish
  <2>7. call[c] \in CallRecords /\ call \in [Calls -> CallRecords]
    BY <1>0 DEF Typed
  <2>8. /\ call' \in [Calls -> CallRecords] /\ \A d \in Calls \ {c} : call'[d] = call[d]
        /\ call'[c] = Storing(call[c], obj, After(c, before), old, publish)
    BY <2>1, <2>4, <2>5, <2>6, <2>7, StoringFields
  <2>9. /\ call'[c].pc = "setex" /\ call'[c].obj = obj /\ call'[c].data = After(c, before)
        /\ call'[c].old = old /\ call'[c].publish = publish
        /\ call'[c].op = call[c].op /\ call'[c].task = call[c].task
        /\ call'[c].tries = call[c].tries
    BY <2>1, <2>5, <2>6, <2>7, <2>8, StoringFields
  <2>10. Changed(c, obj, before)
    BY <1>1, <2>3, <2>4, <2>5, <2>8, <2>9 DEF Changed, old, publish
  <2> QED
    BY <2>1, <2>2, <2>10
<1> QED
  BY <1>1, <1>2, <1>3

LEMMA ChangeKeeps ==
    ASSUME Structure, NEW c \in Calls, Change(c)
    PROVE  Structure'
<1>0. /\ Names(c) /\ Means(c) /\ Typed /\ call[c].pc = "get" /\ Active(c)
      /\ call[c].task \in Tasks /\ call[c].task # None
  BY TrackerAssumption DEF Structure, Change, Names, Active
<1>1. /\ UNCHANGED <<local, redis, index, metrics, counters, sent>>
      /\ raises' \in 0..MaxRaises
  <2>1. /\ UNCHANGED <<local, redis, index, metrics, counters, sent>>
        /\ raises' = raises \/ (raises < MaxRaises /\ raises' = raises + 1)
    BY DEF Change, Reads, Raise
  <2>2. raises \in 0..MaxRaises
    BY <1>0 DEF Typed
  <2> QED
    BY <2>1, <2>2, TrackerAssumption
<1>2. CASE Goes(c, "done") /\ UNCHANGED heap
  BY <1>0, <1>1, <1>2, EndingKeeps
<1>3. ASSUME NEW obj \in Objects, NEW before \in Records, Changed(c, obj, before)
      PROVE  Structure'
  <2>0. /\ heap' = [heap EXCEPT ![obj] = After(c, before)] /\ After(c, before) \in Records
        /\ After(c, before) # None /\ Of(obj) = call[c].task
        /\ call' \in [Calls -> CallRecords] /\ \A d \in Calls \ {c} : call'[d] = call[d]
        /\ call'[c].pc = "setex" /\ call'[c].obj = obj /\ call'[c].data = After(c, before)
        /\ call'[c].publish = (IF call[c].op = "retrying" THEN call[c].task ELSE None)
        /\ call'[c].op = call[c].op /\ call'[c].task = call[c].task
        /\ call'[c].tries = call[c].tries
        /\ obj \in Calls \ {c} => call[obj].pc \in {"publish", "done"}
    BY <1>3, TrackerAssumption DEF Changed
  <2>1. Typed'
    BY <1>0, <1>1, <2>0 DEF Typed
  <2>2. \A o \in Objects : heap[o] # None => heap'[o] # None /\ (heap'[o] = heap[o] \/ o = obj)
    BY <1>0, <2>0 DEF Typed
  <2>3. StepOf(c)
    <3>1. \A d \in Calls : call[d].op = "create" => call[d].publish # call[c].task
      BY <1>3 DEF Changed, Says, Structure, OnlyPublished
    <3> QED
      BY <1>0, <1>1, <2>0, <2>2, <3>1 DEF StepOf
  <2>4. HomesFollow(c) /\ StaysApart(c)
    BY <1>0, <1>1, <2>0 DEF HomesFollow, StaysApart
  <2>5. heap'[call[c].task] # None
    BY <1>0, <2>2 DEF Names, Objects
  <2>6. Names(c)' /\ Means(c)' /\ OnlyPublished(c)'
    BY <1>0, <2>0, <2>5, CallFields DEF Names, Means, OnlyPublished, Writes
  <2>7. InHand(c)'
    <3>1. (obj \in Calls => call'[obj].task = call[obj].task)
      BY <2>0
    <3>2. Of(obj)' = call[c].task
      BY <2>0, <3>1 DEF Of, Objects
    <3>3. heap'[obj] = After(c, before)
      BY <1>0, <2>0 DEF Typed
    <3>4. call'[c].old \in Statuses
      BY <1>3 DEF Changed, Records, Statuses
    <3> QED
      BY <2>0, <3>2, <3>3, <3>4 DEF InHand, Writes
  <2> QED
    BY <2>1, <2>3, <2>4, <2>6, <2>7, StructureKept
<1> QED
  BY <1>2, <1>3, ChangeIs
(* One more attempt. *)
Attempted(r, n, pc) == [r EXCEPT !.tries = n, !.pc = pc]

LEMMA AttemptedFields ==
    ASSUME NEW r \in CallRecords, NEW n \in 0..MaxAttempts, NEW pc \in Places
    PROVE  /\ Attempted(r, n, pc) \in CallRecords
           /\ Attempted(r, n, pc).tries = n /\ Attempted(r, n, pc).pc = pc
           /\ Attempted(r, n, pc).op = r.op /\ Attempted(r, n, pc).task = r.task
           /\ Attempted(r, n, pc).publish = r.publish
<1>1. Attempted(r, n, pc) \in CallRecords
  BY DEF CallRecords, Places, Attempted
<1> QED
  BY <1>1 DEF CallRecords, Attempted

(* What Publish(c) does: at most one more copy, and one attempt less.      *)
Published(c, n) ==
    /\ sent' = [sent EXCEPT ![call[c].publish] = @ + n]
    /\ call' \in [Calls -> CallRecords] /\ \A d \in Calls \ {c} : call'[d] = call[d]
    /\ call'[c].op = call[c].op /\ call'[c].task = call[c].task
    /\ call'[c].publish = call[c].publish
    /\ \/ call'[c].pc = "done"
       \/ /\ call'[c].pc = "publish" /\ call'[c].tries = call[c].tries + 1
          /\ call'[c].tries < MaxAttempts

LEMMA PublishIs ==
    ASSUME Structure, NEW c \in Calls, Publish(c)
    PROVE  \E n \in {0, 1} : Published(c, n)
<1>0. /\ call[c].pc = "publish" /\ call[c] \in CallRecords /\ call \in [Calls -> CallRecords]
      /\ call[c].tries \in 0..MaxAttempts /\ call[c].tries < MaxAttempts
      /\ call[c].key \in Statuses \cup {"none", "created"}
  BY CallFields DEF Publish, Structure, Typed, Means
<1>1. CASE sent' = [sent EXCEPT ![call[c].publish] = @ + 1] /\ Goes(c, "done")
  <2>1. "done" \in Places
    BY DEF Places
  <2> QED
    BY <1>0, <1>1, <2>1, Moves DEF Goes, Published
<1>2. ASSUME NEW n \in {0, 1}, sent' = [sent EXCEPT ![call[c].publish] = @ + n],
             call' = [call EXCEPT ![c].tries = @ + 1,
                                  ![c].pc = IF call[c].tries + 1 >= MaxAttempts
                                            THEN "done" ELSE "publish"]
      PROVE  \E k \in {0, 1} : Published(c, k)
  <2> DEFINE k == call[c].tries + 1
             pc == IF call[c].tries + 1 >= MaxAttempts THEN "done" ELSE "publish"
  <2>1. call' = [call EXCEPT ![c] = Attempted(call[c], k, pc)]
    BY <1>2 DEF Attempted
  <2>2. /\ k \in 0..MaxAttempts /\ pc \in {"publish", "done"} /\ pc \in Places
        /\ pc = "publish" => k < MaxAttempts
    BY <1>0, TrackerAssumption DEF Places
  <2>3. k = call[c].tries + 1
    OBVIOUS
  <2> HIDE DEF k, pc
  <2>4. /\ call' \in [Calls -> CallRecords] /\ \A d \in Calls \ {c} : call'[d] = call[d]
        /\ call'[c] = Attempted(call[c], k, pc)
    BY <1>0, <2>1, <2>2, AttemptedFields
  <2>5. /\ call'[c].op = call[c].op /\ call'[c].task = call[c].task
        /\ call'[c].publish = call[c].publish /\ call'[c].tries = k /\ call'[c].pc = pc
    <3>1. /\ Attempted(call[c], k, pc).tries = k /\ Attempted(call[c], k, pc).pc = pc
          /\ Attempted(call[c], k, pc).op = call[c].op
          /\ Attempted(call[c], k, pc).task = call[c].task
          /\ Attempted(call[c], k, pc).publish = call[c].publish
      BY <1>0, <2>2, AttemptedFields
    <3> QED
      BY <2>4, <3>1
  <2>6. Published(c, n)
    BY <1>2, <2>2, <2>3, <2>4, <2>5 DEF Published
  <2> QED
    BY <2>6
<1> QED
  BY <1>1, <1>2 DEF Publish

LEMMA PublishKeeps ==
    ASSUME Structure, NEW c \in Calls, Publish(c)
    PROVE  Structure'
<1>0. Names(c) /\ Means(c) /\ Typed /\ call[c].pc = "publish" /\ call[c].publish \in Tasks
  BY DEF Structure, Publish, Means
<1>1. PICK n \in {0, 1} : Published(c, n)
  BY PublishIs
<1>2. UNCHANGED <<heap, local, redis, index, metrics, counters>> /\ raises' = raises
  BY DEF Publish, stores
<1>3. sent' \in [Tasks -> Nat]
  BY <1>0, <1>1 DEF Published, Typed
<1>4. StaysApart(c)
  BY <1>0, <1>1 DEF Published, StaysApart, Active
<1>5. Names(c)' /\ Means(c)'
  BY <1>0, <1>1, <1>2 DEF Names, Means, Published, Writes
<1> QED
  BY <1>0, <1>1, <1>2, <1>3, <1>4, <1>5, LookingKeeps DEF Published, Typed, Writes

-----------------------------------------------------------------------------
(* Beginning *)

(* Where a call is that is about to read its task.                         *)
Looking == {"get failed", "get"}

(* A fresh call, as the operations make it.                                *)
Fresh(op, t, pc) == [Free EXCEPT !.op = op, !.task = t, !.pc = pc]

LEMMA FreshFields ==
    ASSUME NEW op \in Ops, NEW t \in Tasks, NEW pc \in Places
    PROVE  /\ Fresh(op, t, pc) \in CallRecords /\ Fresh(op, t, pc).op = op
           /\ Fresh(op, t, pc).task = t /\ Fresh(op, t, pc).pc = pc
           /\ Fresh(op, t, pc).tries = 0 /\ Fresh(op, t, pc).publish = None
<1>1. Free \in CallRecords /\ Free.tries = 0 /\ Free.publish = None
  <2>1. 0 \in 0..MaxAttempts
    BY TrackerAssumption
  <2>2. "none" \in Ops /\ "idle" \in Places
    BY DEF Ops, Places
  <2> QED
    BY <2>1, <2>2 DEF Free, CallRecords
<1> QED
  BY <1>1 DEF Fresh, CallRecords

LEMMA BeginningKeeps ==
    ASSUME Structure, ~Overlap, NEW c \in Calls, NEW t \in Tasks, Admits(c, t), heap[t] # None,
           NEW op \in Ops, op # "create", NEW pc \in Looking,
           pc = "get" => op \in Statuses,
           call' = [call EXCEPT ![c] = Fresh(op, t, pc)],
           UNCHANGED <<stores, sent, raises>>
    PROVE  Structure'
<1>0. Typed /\ Names(c) /\ call[c].pc = "idle" /\ t # None /\ call[c].task = None
  <2>1. Typed /\ Names(c) /\ call[c].pc = "idle"
    BY DEF Structure, Admits
  <2> QED
    BY <2>1, TrackerAssumption DEF Names
<1>2. /\ call' \in [Calls -> CallRecords] /\ \A d \in Calls \ {c} : call'[d] = call[d]
      /\ call'[c].op = op /\ call'[c].task = t /\ call'[c].pc = pc
      /\ call'[c].tries = 0 /\ call'[c].publish = None
  <2>1. call \in [Calls -> CallRecords]
    BY <1>0 DEF Typed
  <2>2. /\ Fresh(op, t, pc) \in CallRecords /\ Fresh(op, t, pc).op = op
        /\ Fresh(op, t, pc).task = t /\ Fresh(op, t, pc).pc = pc
        /\ Fresh(op, t, pc).tries = 0 /\ Fresh(op, t, pc).publish = None
    <3>1. pc \in Places
      BY DEF Looking, Places
    <3> QED
      BY <3>1, FreshFields
  <2>3. /\ call' \in [Calls -> CallRecords] /\ \A d \in Calls \ {c} : call'[d] = call[d]
        /\ call'[c] = Fresh(op, t, pc)
    BY <2>1, <2>2
  <2> QED
    BY <2>2, <2>3
<1>3. UNCHANGED <<heap, local, redis, index, metrics, counters>> /\ sent' = sent /\ raises' = raises
  BY DEF stores
<1>4. StaysApart(c)
  BY <1>2 DEF StaysApart, Admits
<1>5. Names(c)' /\ Means(c)'
  BY <1>0, <1>2, <1>3 DEF Names, Means, Writes, Looking
<1> QED
  BY <1>0, <1>2, <1>3, <1>4, <1>5, LookingKeeps DEF Typed, Writes, Looking

LEMMA MarkKeeps ==
    ASSUME Structure, ~Overlap, NEW c \in Calls, NEW t \in Tasks,
           HandleFailure(c, t) \/ \E s \in Statuses : Mark(c, t, s)
    PROVE  Structure'
<1>1. CASE HandleFailure(c, t)
  <2>1. "failure" \in Ops /\ "get failed" \in Looking
    BY DEF Ops, Looking
  <2>2. call' = [call EXCEPT ![c] = Fresh("failure", t, "get failed")]
    BY <1>1 DEF HandleFailure, Fresh
  <2>3. /\ Admits(c, t) /\ heap[t] # None /\ UNCHANGED <<stores, sent, raises>>
    BY <1>1 DEF HandleFailure
  <2> QED
    BY <2>1, <2>2, <2>3, BeginningKeeps
<1>2. ASSUME NEW s \in Statuses, Mark(c, t, s) PROVE Structure'
  <2>1. s \in Ops /\ s # "create" /\ "get" \in Looking
    BY DEF Ops, Statuses, Looking
  <2>2. call' = [call EXCEPT ![c] = Fresh(s, t, "get")]
    BY <1>2 DEF Mark, Fresh
  <2>3. Admits(c, t) /\ heap[t] # None /\ UNCHANGED <<stores, sent, raises>>
    BY <1>2 DEF Mark
  <2> QED
    BY <2>1, <2>2, <2>3, BeginningKeeps
<1> QED
  BY <1>1, <1>2
(* The call that creates a task, and what it puts in Redis.                *)
Queued == [status |-> "queued", retries |-> 0]
Creating(t, p) == [Free EXCEPT !.op = "create", !.task = t, !.obj = t, !.pc = "setex",
                               !.data = [status |-> "queued", retries |-> 0], !.publish = p]

LEMMA CreatingFields ==
    ASSUME NEW t \in Tasks, NEW p \in Tasks
    PROVE  /\ Queued \in Records /\ Queued.status = "queued" /\ Queued.retries = 0
           /\ Creating(t, p) \in CallRecords /\ Creating(t, p).op = "create"
           /\ Creating(t, p).task = t /\ Creating(t, p).obj = t /\ Creating(t, p).pc = "setex"
           /\ Creating(t, p).data = Queued /\ Creating(t, p).publish = p
           /\ Creating(t, p).tries = 0
<1>1. Queued \in Records /\ Queued.status = "queued" /\ Queued.retries = 0
  BY DEF Queued, Records, Statuses
<1>2. Free \in CallRecords /\ Free.tries = 0
  <2>1. 0 \in 0..MaxAttempts
    BY TrackerAssumption
  <2>2. "none" \in Ops /\ "idle" \in Places
    BY DEF Ops, Places
  <2> QED
    BY <2>1, <2>2 DEF Free, CallRecords
<1>3. "create" \in Ops /\ "setex" \in Places /\ t \in Objects
  BY DEF Ops, Places, Writes, Objects
<1>4. Creating(t, p) \in CallRecords
  BY <1>1, <1>2, <1>3 DEF Creating, CallRecords, Queued
<1> QED
  BY <1>1, <1>2, <1>4 DEF Creating, CallRecords, Queued

(* What Dispatch(c, p, t) makes of the calls and the objects.              *)
Dispatched(c, p, t) ==
    /\ p # t /\ heap[p] = None /\ heap[t] = None
    /\ local[p] = None /\ redis[p] = None /\ local[t] = None /\ redis[t] = None
    /\ heap' = [o \in Objects |-> IF o \in {p, t} THEN Queued ELSE heap[o]]
    /\ call' \in [Calls -> CallRecords] /\ \A d \in Calls \ {c} : call'[d] = call[d]
    /\ call'[c].op = "create" /\ call'[c].task = t /\ call'[c].obj = t
    /\ call'[c].pc = "setex" /\ call'[c].data = Queued /\ call'[c].publish = p
    /\ call'[c].tries = 0
    /\ \A d \in Calls : /\ call[d].task \notin {p, t}
                        /\ call[d].op = "create" => call[d].publish \notin {p, t}
    /\ UNCHANGED <<local, redis, index, metrics, counters, sent, raises>>

LEMMA DispatchIs ==
    ASSUME Structure, NEW c \in Calls, NEW p \in Tasks, NEW t \in Tasks, Dispatch(c, p, t)
    PROVE  Dispatched(c, p, t) /\ call[c].pc = "idle"
<1>0. Typed
  BY DEF Structure
<1>1. /\ p # t /\ heap[p] = None /\ heap[t] = None /\ p # None /\ t # None
      /\ UNCHANGED <<local, redis, index, metrics, counters, sent, raises>>
      /\ call[c].pc = "idle"
  BY TrackerAssumption DEF Dispatch, Admits
<1>2. heap' = [o \in Objects |-> IF o \in {p, t} THEN Queued ELSE heap[o]]
  <2>1. heap' = [heap EXCEPT ![p] = Queued, ![t] = Queued]
    BY DEF Dispatch, Queued
  <2>2. heap \in [Objects -> Records \cup {None}]
    BY <1>0 DEF Typed
  <2> QED
    BY <2>1, <2>2
<1>3. /\ call' \in [Calls -> CallRecords] /\ \A d \in Calls \ {c} : call'[d] = call[d]
      /\ call'[c] = Creating(t, p)
  <2>1. call' = [call EXCEPT ![c] = Creating(t, p)]
    BY DEF Dispatch, Creating
  <2>2. call \in [Calls -> CallRecords] /\ Creating(t, p) \in CallRecords
    BY <1>0, CreatingFields DEF Typed
  <2> QED
    BY <2>1, <2>2
<1>4. local[p] = None /\ redis[p] = None /\ local[t] = None /\ redis[t] = None
  BY <1>1 DEF Structure, Homes
<1>5. ASSUME NEW d \in Calls
      PROVE  /\ call[d].task \notin {p, t}
             /\ call[d].op = "create" => call[d].publish \notin {p, t}
  <2>1. Names(d)
    BY DEF Structure
  <2> QED
    BY <1>1, <2>1 DEF Names
<1> QED
  BY <1>1, <1>2, <1>3, <1>4, <1>5, CreatingFields DEF Dispatched

LEMMA DispatchKeeps ==
    ASSUME Structure, ~Overlap, NEW c \in Calls, NEW p \in Tasks, NEW t \in Tasks,
           Dispatch(c, p, t)
    PROVE  Structure'
<1>0. Typed /\ Dispatched(c, p, t) /\ Names(c) /\ call[c].pc = "idle" /\ call[c].task = None
  BY DispatchIs DEF Structure, Names
<1>1. Queued \in Records /\ Queued # None /\ p # None /\ t # None /\ p \in Objects /\ t \in Objects
  BY CreatingFields, TrackerAssumption DEF Objects
<1>2. Typed'
  <2>1. heap' \in [Objects -> Records \cup {None}]
    BY <1>0, <1>1 DEF Typed, Dispatched
  <2> QED
    BY <1>0, <2>1 DEF Typed, Dispatched
<1>3. StepOf(c)
  <2>1. \A o \in Objects : heap[o] # None => heap'[o] = heap[o]
    BY <1>0 DEF Dispatched
  <2>2. \A d \in Calls : call[d].op = "create" => call[d].publish # t
    BY <1>0 DEF Dispatched
  <2>3. \A d \in Calls \ {c} : call'[d] = call[d]
    BY <1>0 DEF Dispatched
  <2> QED
    BY <1>0, <2>1, <2>2, <2>3 DEF StepOf, Dispatched
<1>4. HomesFollow(c)
  BY <1>0 DEF HomesFollow, Dispatched
<1>5. StaysApart(c)
  <2>1. \A d \in Calls : Active(d) => {p, t} \cap {call[d].task, call[d].publish} = {}
    BY DEF Dispatch, Admits
  <2> QED
    BY <1>0, <2>1 DEF StaysApart, Dispatched
<1>6. Names(c)' /\ Means(c)'
  <2>1. heap'[p] = Queued /\ heap'[t] = Queued
    BY <1>0, <1>1 DEF Dispatched
  <2> QED
    BY <1>0, <1>1, <2>1 DEF Names, Means, Dispatched, Writes
<1>7. InHand(c)'
  <2>1. heap'[t] = Queued /\ Of(t)' = t /\ t \notin Calls
    BY <1>0, <1>1, TrackerAssumption DEF Dispatched, Of
  <2> QED
    BY <1>0, <1>1, <2>1 DEF InHand, Dispatched
<1>8. OnlyPublished(c)'
  <2>1. \A d \in Calls : call'[d].task # p
    BY <1>0 DEF Dispatched
  <2> QED
    BY <1>0, <2>1 DEF OnlyPublished, Dispatched
<1> QED
  BY <1>2, <1>3, <1>4, <1>5, <1>6, <1>7, <1>8, StructureKept

-----------------------------------------------------------------------------
(* Structure, all together *)

(* Records and objects only leave their homes. *)
LEMMA LeavingKeeps ==
    ASSUME Structure, UNCHANGED <<heap, index, metrics, counters, call, sent, raises>>,
           local' \in [Tasks -> Objects \cup {None}], redis' \in [Tasks -> Records \cup {None}],
           \A t \in Tasks : local'[t] \in {local[t], None} /\ redis'[t] \in {redis[t], None}
    PROVE  Structure'
<1>1. Typed'
  BY DEF Structure, Typed
<1>2. ASSUME NEW c \in Calls
      PROVE  Names(c)' /\ Means(c)' /\ InHand(c)'
  <2>1. Names(c) /\ Means(c) /\ InHand(c)
    BY DEF Structure
  <2>2. Names(c)' /\ Means(c)'
    BY <2>1 DEF Names, Means
  <2>3. InHand(c)'
    BY <2>1 DEF InHand, Writing, Of
  <2> QED
    BY <2>2, <2>3
<1>3. ASSUME NEW c \in Calls PROVE OnlyPublished(c)'
  <2>1. OnlyPublished(c) /\ Names(c)
    BY DEF Structure
  <2> SUFFICES ASSUME call[c].op = "create" PROVE OnlyPublished(c)'
    BY DEF OnlyPublished
  <2>2. call[c].publish \in Tasks
    BY <2>1 DEF Names
  <2> QED
    BY <2>1, <2>2 DEF OnlyPublished, Writing
<1>4. ASSUME NEW t \in Tasks PROVE Homes(t)'
  <2>1. Homes(t) /\ local'[t] \in {local[t], None} /\ redis'[t] \in {redis[t], None}
    BY DEF Structure
  <2>2. CASE local'[t] = None
    BY <2>1, <2>2 DEF Homes
  <2>3. CASE local'[t] = local[t]
    BY <2>1, <2>3 DEF Homes, Of
  <2> QED
    BY <2>1, <2>2, <2>3
<1>5. \A c, d \in Calls : c # d => Apart(c, d)'
  BY DEF Structure, Apart, Active
<1> QED
  BY <1>1, <1>2, <1>3, <1>4, <1>5 DEF Structure

LEMMA StructureStep ==
    ASSUME Structure, ~Overlap, [Next]_vars
    PROVE  Structure'
<1>1. ASSUME NEW c \in Calls, Begins(c) PROVE Structure'
  BY <1>1, DispatchKeeps, MarkKeeps DEF Begins
<1>2. ASSUME NEW c \in Calls, Continues(c) PROVE Structure'
  BY <1>2, DecideKeeps, ChangeKeeps, CommandsKeepStructure, PublishKeeps DEF Continues
<1>3. local \in [Tasks -> Objects \cup {None}] /\ redis \in [Tasks -> Records \cup {None}]
  BY DEF Structure, Typed
<1>4. ASSUME NEW t \in Tasks, Expire(t) PROVE Structure'
  BY <1>3, <1>4, LeavingKeeps DEF Expire
<1>5. CASE ClearCompleted
  BY <1>3, <1>5, LeavingKeeps DEF ClearCompleted
<1>6. CASE UNCHANGED vars
  BY <1>3, <1>6, LeavingKeeps DEF vars, stores
<1> QED
  BY <1>1, <1>2, <1>4, <1>5, <1>6 DEF Next

LEMMA InitiallyStructure == Init => Structure
<1> SUFFICES ASSUME Init PROVE Structure
  OBVIOUS
<1>1. Free \in CallRecords
  <2>1. 0 \in 0..MaxAttempts
    BY TrackerAssumption
  <2>2. "none" \in Ops /\ "idle" \in Places
    BY DEF Ops, Places
  <2> QED
    BY <2>1, <2>2 DEF Free, CallRecords
<1>2. \A c \in Calls : call[c] = Free
  BY DEF Init
<1>3. Free.pc = "idle" /\ Free.task = None /\ Free.publish = None /\ Free.op = "none" /\ Free.tries = 0
  BY DEF Free
<1>4. Typed
  <2>1. 0 \in 0..MaxRaises
    BY TrackerAssumption
  <2> QED
    BY <1>1, <2>1 DEF Init, Typed, Objects, Metrics
<1>5. ASSUME NEW c \in Calls PROVE Names(c) /\ Means(c) /\ InHand(c) /\ OnlyPublished(c)
  BY <1>2, <1>3 DEF Names, Means, InHand, OnlyPublished, Writing, Writes
<1>6. ASSUME NEW t \in Tasks PROVE Homes(t)
  BY DEF Init, Homes
<1>7. \A c, d \in Calls : c # d => Apart(c, d)
  BY <1>2, <1>3 DEF Apart, Active
<1> QED
  BY <1>4, <1>5, <1>6, <1>7 DEF Structure

-----------------------------------------------------------------------------
(* Agreement: what a step leaves alone *)

(* No home of t says anything new, and t is in the indexes it was in.      *)
Untouched(t) == /\ \A x \in Records : Says(t, x)' => Says(t, x)
                /\ redis'[t] \in {redis[t], None} /\ sent'[t] = sent[t]
                /\ \A s \in Statuses : t \in index[s] => t \in index'[s]

LEMMA SoundKept ==
    ASSUME Agreement, NEW t \in Tasks, Untouched(t), BeingWritten(t) => BeingWritten(t)'
    PROVE  Sound(t)'
<1>1. Sound(t)
  BY DEF Agreement
<1>2. \A x \in Records : x.status \in Statuses
  BY DEF Records
<1>3. \A x \in Records : Says(t, x)' => x.retries <= MaxRetries /\ sent'[t] <= Allowance(x.retries)
  BY <1>1 DEF Sound, Untouched
<1>4. ASSUME ~BeingWritten(t)', NEW x \in Records, NEW y \in Records, Says(t, x)', Says(t, y)'
      PROVE  x = y /\ t \in index'[x.status]
  BY <1>1, <1>2, <1>4 DEF Sound, Untouched
<1> QED
  BY <1>3, <1>4 DEF Sound

LEMMA CallKept ==
    ASSUME Structure, Agreement, NEW d \in Calls, call'[d] = call[d],
           \A t \in Tasks : Active(d) /\ call[d].task = t => Untouched(t)
    PROVE  MayRetry(d)' /\ MayPublish(d)' /\ MayWrite(d)'
<1>1. MayRetry(d) /\ MayPublish(d) /\ MayWrite(d) /\ Names(d) /\ Means(d) /\ InHand(d)
  BY DEF Structure, Agreement
<1>2. CASE ~Active(d)
  BY <1>2 DEF Active, MayRetry, MayPublish, MayWrite, Writing, Writes
<1>3. CASE Active(d)
  <2>1. PICK t \in Tasks : t = call[d].task
    BY <1>1, <1>3 DEF Names, Active
  <2>2. Untouched(t)
    BY <1>3, <2>1
  <2>3. MayRetry(d)'
    BY <1>1, <2>1, <2>2 DEF MayRetry, Untouched
  <2>4. MayPublish(d)'
    BY <1>1, <2>1, <2>2 DEF MayPublish, Untouched
  <2>5. MayWrite(d)'
    <3> SUFFICES ASSUME Writing(d) PROVE MayWrite(d)'
      BY DEF MayWrite, Writing
    <3>1. call[d].data \in Records /\ call[d].data.status \in Statuses
      BY <1>1 DEF InHand, Records
    <3> QED
      BY <1>1, <2>1, <2>2, <3>1 DEF MayWrite, Untouched, Writing
  <2> QED
    BY <2>3, <2>4, <2>5
<1> QED
  BY <1>2, <1>3

(* What a step about one task leaves alone of another. *)
LEMMA ElsewhereUntouched ==
    ASSUME Structure, NEW t \in Tasks, NEW u \in Tasks, t # u,
           \A o \in Objects : heap[o] # None => heap'[o] = heap[o] \/ Of(o) = u,
           local'[t] \in {local[t], None}, redis'[t] \in {redis[t], None}, sent'[t] = sent[t],
           \A s \in Statuses : t \in index[s] => t \in index'[s]
    PROVE  Untouched(t)
<1>1. ASSUME NEW x \in Records, Says(t, x)' PROVE Says(t, x)
  <2>1. CASE redis'[t] # None /\ x = redis'[t]
    BY <2>1 DEF Says
  <2>2. CASE local'[t] # None /\ x = heap'[local'[t]]
    <3>1. local'[t] = local[t] /\ local[t] # None
      BY <2>2
    <3>2. local[t] \in Objects /\ heap[local[t]] # None /\ Of(local[t]) = t
      BY <3>1 DEF Structure, Typed, Homes
    <3>3. heap'[local[t]] = heap[local[t]]
      BY <3>2
    <3> QED
      BY <2>2, <3>1, <3>3 DEF Says
  <2> QED
    BY <1>1, <2>1, <2>2 DEF Says
<1> QED
  BY <1>1 DEF Untouched

(* Nothing at all is touched. *)
LEMMA NothingTouched ==
    ASSUME UNCHANGED <<heap, local, redis, index, sent>>, NEW t \in Tasks
    PROVE  Untouched(t)
BY DEF Untouched, Says

(* A step that touches nothing, and after which c claims nothing new but   *)
(* what it may do.                                                         *)
LEMMA LookingAgrees ==
    ASSUME Structure, Agreement, NEW c \in Calls, ~Writing(c),
           UNCHANGED <<heap, local, redis, index, metrics, counters, sent>>,
           \A d \in Calls \ {c} : call'[d] = call[d],
           MayRetry(c)', call'[c].pc \notin Writes \cup {"publish"}
    PROVE  Agreement'
<1>1. \A t \in Tasks : Untouched(t)
  BY NothingTouched
<1>2. ASSUME NEW t \in Tasks PROVE Sound(t)'
  <2>1. BeingWritten(t) => BeingWritten(t)'
    BY DEF BeingWritten, Writing
  <2> QED
    BY <1>1, <2>1, SoundKept
<1>3. ASSUME NEW d \in Calls PROVE MayRetry(d)' /\ MayPublish(d)' /\ MayWrite(d)'
  <2>1. CASE d # c
    BY <1>1, <2>1, CallKept
  <2>2. CASE d = c
    BY <2>2 DEF MayPublish, MayWrite, Writing
  <2> QED
    BY <2>1, <2>2
<1>4. ObjectsInBudget' /\ Unsent' /\ metrics' = counters'
  BY DEF Agreement, ObjectsInBudget, Unsent
<1> QED
  BY <1>2, <1>3, <1>4 DEF Agreement

(* Of the calls only c is about its task. *)
LEMMA Alone ==
    ASSUME Structure, NEW c \in Calls, NEW d \in Calls, c # d, Active(c), Active(d)
    PROVE  call[d].task # call[c].task /\ call[d].task # call[c].publish
<1>1. Apart(c, d) /\ Names(c) /\ Names(d)
  BY DEF Structure
<1>2. call[c].task \in Tasks /\ call[d].task \in Tasks
  BY <1>1 DEF Names, Active
<1>3. {call[c].task, call[c].publish} \cap {call[d].task, call[d].publish} \subseteq {None}
  BY <1>1 DEF Apart
<1>4. call[d].task \notin {call[c].task, call[c].publish}
  <2>1. call[d].task \in {call[d].task, call[d].publish} /\ call[d].task \notin {None}
    BY <1>2, TrackerAssumption
  <2> QED
    BY <1>3, <2>1
<1> QED
  BY <1>4

LEMMA NotWritten ==
    ASSUME Structure, NEW c \in Calls, Active(c), ~Writing(c)
    PROVE  ~BeingWritten(call[c].task)
<1>1. ASSUME NEW d \in Calls, Writing(d), call[d].task = call[c].task PROVE FALSE
  <2>1. d # c /\ Active(d)
    BY <1>1 DEF Writing, Writes, Active
  <2> QED
    BY <1>1, <2>1, Alone
<1> QED
  BY <1>1 DEF BeingWritten

-----------------------------------------------------------------------------
(* Agreement, step by step *)

LEMMA DecideAgrees ==
    ASSUME Structure, Agreement, NEW c \in Calls, Decide(c), raises' = raises
    PROVE  Agreement'
<1>0. Names(c) /\ Means(c) /\ Typed /\ call[c].pc = "get failed" /\ ~Writing(c) /\ Active(c)
  BY DEF Structure, Decide, Writing, Writes, Active
<1>1. PICK obj \in Calls \cup Tasks \cup {None} :
          /\ Reads(c, call[c].task, obj)
          /\ \/ obj = None /\ Goes(c, "done")
             \/ /\ obj # None
                /\ call' = [call EXCEPT
                       ![c].pc = "get",
                       ![c].op = IF CanRetry(Copy(c, call[c].task, obj))
                                 THEN "retrying" ELSE "dead_letter"]
  BY DEF Decide
<1>2. UNCHANGED <<heap, local, redis, index, metrics, counters, sent>>
  BY DEF Decide, stores
<1>3. call[c] \in CallRecords /\ call \in [Calls -> CallRecords]
  BY <1>0 DEF Typed
<1>4. CASE Goes(c, "done")
  <2>1. "done" \in Places /\ call[c].key \in Statuses \cup {"none", "created"}
    BY <1>3, CallFields DEF Places
  <2>2. call'[c].pc = "done" /\ \A d \in Calls \ {c} : call'[d] = call[d]
    BY <1>3, <1>4, <2>1, Moves DEF Goes
  <2>3. MayRetry(c)'
    BY <2>2 DEF MayRetry
  <2> QED
    BY <1>0, <1>2, <2>2, <2>3, LookingAgrees DEF Writes
<1>5. CASE obj # None /\ ~Goes(c, "done")
  <2> DEFINE x == Copy(c, call[c].task, obj)
             op == IF CanRetry(x) THEN "retrying" ELSE "dead_letter"
  <2>1. call' = [call EXCEPT ![c] = Minded(call[c], op)]
    BY <1>1, <1>5 DEF Minded
  <2>2. op \in Ops
    BY DEF Ops, Statuses
  <2>3. obj \in Objects
    BY <1>5 DEF Objects
  <2>4. PICK before \in Records : before = x /\ Says(call[c].task, before)
    BY <1>0, <1>1, <2>3, ReadsIts
  <2>5. op = "retrying" => before.retries < MaxRetries
    BY <2>4 DEF CanRetry
  <2> HIDE DEF x, op
  <2>6. /\ \A d \in Calls \ {c} : call'[d] = call[d]
        /\ call'[c].pc = "get" /\ call'[c].op = op /\ call'[c].task = call[c].task
    BY <1>3, <2>1, <2>2, MindedFields
  <2>7. MayRetry(c)'
    <3>0. PICK t \in Tasks : t = call[c].task
      BY <1>0 DEF Names, Active
    <3>1. Sound(t) /\ ~BeingWritten(t)
      BY <1>0, <3>0, NotWritten DEF Agreement
    <3>2. \A y \in Records : Says(t, y) => y = before
      BY <2>4, <3>0, <3>1 DEF Sound
    <3>3. \A y \in Records : Says(t, y)' => Says(t, y)
      BY <1>2 DEF Says
    <3> QED
      BY <2>5, <2>6, <3>0, <3>2, <3>3 DEF MayRetry
  <2> QED
    BY <1>0, <1>2, <2>6, <2>7, LookingAgrees DEF Writes
<1> QED
  BY <1>1, <1>4, <1>5

LEMMA MarkAgrees ==
    ASSUME Structure, Agreement, NEW c \in Calls, NEW t \in Tasks,
           HandleFailure(c, t) \/ \E s \in Statuses : Mark(c, t, s)
    PROVE  Agreement'
<1>1. PICK op \in Ops \ {"retrying"}, pc \in Looking : call' = [call EXCEPT ![c] = Fresh(op, t, pc)]
  <2>1. CASE HandleFailure(c, t)
    BY <2>1 DEF HandleFailure, Fresh, Ops, Statuses, Looking
  <2>2. ASSUME NEW s \in Statuses, Mark(c, t, s)
        PROVE  /\ s \in Ops \ {"retrying"} /\ "get" \in Looking
               /\ call' = [call EXCEPT ![c] = Fresh(s, t, "get")]
    BY <2>2 DEF Mark, Fresh, Ops, Looking
  <2> QED
    BY <2>1, <2>2
<1>2. /\ UNCHANGED <<heap, local, redis, index, metrics, counters, sent>>
      /\ call[c].pc = "idle"
  BY DEF HandleFailure, Mark, stores, Admits
<1>3. /\ \A d \in Calls \ {c} : call'[d] = call[d]
      /\ call'[c].op = op /\ call'[c].pc = pc
  <2>1. call \in [Calls -> CallRecords] /\ pc \in Places
    BY DEF Structure, Typed, Looking, Places
  <2>2. Fresh(op, t, pc).op = op /\ Fresh(op, t, pc).pc = pc
    BY <2>1, FreshFields
  <2> QED
    BY <1>1, <2>1, <2>2
<1>4. ~Writing(c) /\ call'[c].pc \notin Writes \cup {"publish"} /\ MayRetry(c)'
  BY <1>2, <1>3 DEF Writing, Writes, Looking, MayRetry
<1> QED
  BY <1>2, <1>3, <1>4, LookingAgrees

LEMMA LeavingAgrees ==
    ASSUME Structure, Agreement, UNCHANGED <<heap, index, metrics, counters, call, sent>>,
           \A t \in Tasks : local'[t] \in {local[t], None} /\ redis'[t] \in {redis[t], None}
    PROVE  Agreement'
<1>1. ASSUME NEW t \in Tasks PROVE Untouched(t)
  BY DEF Untouched, Says
<1>2. ASSUME NEW t \in Tasks PROVE Sound(t)'
  <2>1. BeingWritten(t) => BeingWritten(t)'
    BY DEF BeingWritten, Writing
  <2> QED
    BY <1>1, <2>1, SoundKept
<1>3. ASSUME NEW d \in Calls PROVE MayRetry(d)' /\ MayPublish(d)' /\ MayWrite(d)'
  BY <1>1, CallKept
<1>4. ObjectsInBudget' /\ Unsent' /\ metrics' = counters'
  BY DEF Agreement, ObjectsInBudget, Unsent
<1> QED
  BY <1>2, <1>3, <1>4 DEF Agreement

LEMMA DispatchAgrees ==
    ASSUME Structure, Agreement, NEW c \in Calls, NEW p \in Tasks, NEW t \in Tasks,
           Dispatch(c, p, t)
    PROVE  Agreement'
<1>0. Dispatched(c, p, t) /\ call[c].pc = "idle" /\ Queued # None /\ Queued.retries = 0
  BY DispatchIs, CreatingFields, TrackerAssumption
<1>1. UNCHANGED <<local, redis, index, metrics, counters, sent>>
  BY <1>0 DEF Dispatched
<1>2. \A o \in Objects : heap'[o] = IF o \in {p, t} THEN Queued ELSE heap[o]
  BY <1>0 DEF Dispatched
<1>3. ASSUME NEW u \in Tasks PROVE Untouched(u)
  <2>1. CASE local[u] = None
    BY <1>1, <2>1 DEF Untouched, Says
  <2>2. CASE local[u] # None
    <3>1. local[u] \in Objects /\ heap[local[u]] # None
      BY <2>2 DEF Structure, Typed, Homes
    <3>2. heap'[local[u]] = heap[local[u]]
      BY <1>0, <1>2, <3>1 DEF Dispatched
    <3> QED
      BY <1>1, <3>2 DEF Untouched, Says
  <2> QED
    BY <2>1, <2>2
<1>4. ASSUME NEW u \in Tasks PROVE Sound(u)'
  <2>1. BeingWritten(u) => BeingWritten(u)'
    <3>1. \A d \in Calls : Writing(d) => call'[d] = call[d]
      BY <1>0 DEF Dispatched, Writing, Writes
    <3> QED
      BY <3>1 DEF BeingWritten, Writing
  <2> QED
    BY <1>3, <2>1, SoundKept
<1>5. ASSUME NEW d \in Calls \ {c} PROVE MayRetry(d)' /\ MayPublish(d)' /\ MayWrite(d)'
  BY <1>0, <1>3, CallKept DEF Dispatched
<1>6. MayRetry(c)' /\ MayPublish(c)' /\ MayWrite(c)'
  <2>1. call'[c].pc = "setex" /\ call'[c].op = "create" /\ call'[c].task = t
        /\ call'[c].data = Queued /\ call'[c].publish = p /\ p # t
    BY <1>0 DEF Dispatched
  <2>2. sent'[t] = 0 /\ 0 <= Allowance(0) /\ 0 <= MaxRetries
    <3>1. sent[t] = 0
      BY <1>0 DEF Agreement, Unsent, Dispatched
    <3> QED
      BY <1>1, <3>1, TrackerAssumption DEF Allowance
  <2>3. MayRetry(c)' /\ MayPublish(c)'
    BY <2>1 DEF MayRetry, MayPublish
  <2>4. MayWrite(c)'
    BY <1>0, <2>1, <2>2 DEF MayWrite
  <2> QED
    BY <2>3, <2>4
<1>7. ObjectsInBudget' /\ Unsent' /\ metrics' = counters'
  <2>1. ObjectsInBudget'
    BY <1>0, <1>2, TrackerAssumption DEF Agreement, ObjectsInBudget
  <2>2. Unsent'
    BY <1>0, <1>1, <1>2 DEF Agreement, Unsent, Objects
  <2> QED
    BY <1>1, <2>1, <2>2 DEF Agreement
<1> QED
  BY <1>4, <1>5, <1>6, <1>7 DEF Agreement

LEMMA ChangeAgrees ==
    ASSUME Structure, Agreement, NEW c \in Calls, Change(c), raises' = raises
    PROVE  Agreement'
<1>0. Names(c) /\ Means(c) /\ Typed /\ call[c].pc = "get" /\ ~Writing(c) /\ Active(c)
  BY DEF Structure, Change, Writing, Writes, Active
<1>1. UNCHANGED <<local, redis, index, metrics, counters, sent>>
  BY DEF Change
<1>2. CASE Goes(c, "done") /\ UNCHANGED heap
  <2>1. /\ call[c] \in CallRecords /\ call \in [Calls -> CallRecords] /\ "done" \in Places
        /\ call[c].key \in Statuses \cup {"none", "created"}
    BY <1>0, CallFields DEF Typed, Places
  <2>2. call'[c].pc = "done" /\ \A d \in Calls \ {c} : call'[d] = call[d]
    BY <1>2, <2>1, Moves DEF Goes
  <2>3. MayRetry(c)'
    BY <2>2 DEF MayRetry
  <2> QED
    BY <1>0, <1>1, <1>2, <2>2, <2>3, LookingAgrees DEF Writes
<1>3. ASSUME NEW obj \in Objects, NEW before \in Records, Changed(c, obj, before)
      PROVE  Agreement'
  <2>0. PICK t \in Tasks : t = call[c].task
    BY <1>0 DEF Names, Active
  <2>1. PICK after \in Records : after = After(c, before)
    BY <1>3 DEF Changed
  <2>2. /\ Says(t, before) /\ Of(obj) = t
        /\ heap' = [heap EXCEPT ![obj] = after]
        /\ \A d \in Calls \ {c} : call'[d] = call[d]
        /\ call'[c].pc = "setex" /\ call'[c].obj = obj /\ call'[c].data = after
        /\ call'[c].old = (IF call[c].op = "retrying" THEN "failed" ELSE before.status)
        /\ call'[c].publish = (IF call[c].op = "retrying" THEN t ELSE None)
        /\ call'[c].op = call[c].op /\ call'[c].task = t
    BY <1>3, <2>0, <2>1 DEF Changed
  <2>3. /\ after.status = call[c].op
        /\ after.retries = before.retries + (IF call[c].op = "retrying" THEN 1 ELSE 0)
        /\ before.retries \in Nat /\ before.status \in Statuses
    BY <2>1 DEF After, Records
  <2>4. Sound(t) /\ ~BeingWritten(t) /\ MayRetry(c)
    BY <1>0, <2>0, NotWritten DEF Agreement
  <2>5. /\ before.retries <= MaxRetries /\ sent[t] <= Allowance(before.retries)
        /\ t \in index[before.status]
        /\ call[c].op = "retrying" => before.retries < MaxRetries
        /\ sent[t] \in Nat
    BY <1>0, <2>0, <2>2, <2>4 DEF Sound, MayRetry, Typed
  <2>6. /\ after.retries <= MaxRetries
        /\ sent[t] + (IF call[c].op = "retrying" THEN MaxAttempts ELSE 0) <= Allowance(after.retries)
    <3>1. CASE call[c].op = "retrying"
      <4>1. Allowance(after.retries) = Allowance(before.retries) + MaxAttempts
        BY <2>3, <3>1, AllowanceGrows
      <4>2. Allowance(before.retries) \in Nat
        BY <2>3, AllowanceGrows
      <4>3. after.retries = before.retries + 1
        BY <2>3, <3>1
      <4> QED
        BY <2>3, <2>5, <3>1, <4>1, <4>2, <4>3, TrackerAssumption
    <3>2. CASE call[c].op # "retrying"
      <4>1. after.retries = before.retries
        BY <2>3, <3>2
      <4> QED
        BY <2>5, <3>2, <4>1
    <3> QED
      BY <3>1, <3>2
  <2>6a. sent[t] <= Allowance(after.retries)
    <3>1. Allowance(after.retries) \in Nat
      BY AllowanceGrows DEF Records
    <3> QED
      BY <2>5, <2>6, <3>1, TrackerAssumption
  <2>7. MayRetry(c)' /\ MayPublish(c)'
    BY <2>2 DEF MayRetry, MayPublish
  <2>8. MayWrite(c)'
    <3>1. (IF call'[c].publish = t THEN MaxAttempts ELSE 0)
              = (IF call[c].op = "retrying" THEN MaxAttempts ELSE 0)
      BY <2>2, TrackerAssumption
    <3>2. call'[c].old = after.status => t \in index[after.status]
      BY <2>2, <2>3, <2>5
    <3> QED
      BY <1>1, <2>2, <2>6, <3>1, <3>2 DEF MayWrite
  <2>9. \A o \in Objects : heap'[o] = IF o = obj THEN after ELSE heap[o]
    BY <1>0, <2>2 DEF Typed
  <2>10. ASSUME NEW u \in Tasks, u # t PROVE Untouched(u)
    BY <1>1, <2>2, <2>9, <2>10, ElsewhereUntouched
  <2>11. ASSUME NEW d \in Calls \ {c} PROVE MayRetry(d)' /\ MayPublish(d)' /\ MayWrite(d)'
    <3>1. Active(d) => call[d].task # t
      BY <1>0, <2>0, Alone
    <3> QED
      BY <2>2, <2>10, <3>1, CallKept
  <2>12. ASSUME NEW u \in Tasks PROVE Sound(u)'
    <3>1. CASE u # t
      <4>1. BeingWritten(u) => BeingWritten(u)'
        BY <1>0, <2>2 DEF BeingWritten, Writing
      <4> QED
        BY <2>10, <3>1, <4>1, SoundKept
    <3>2. CASE u = t
      <4>1. BeingWritten(t)'
        BY <2>2 DEF BeingWritten, Writing, Writes
      <4>2. ASSUME NEW x \in Records, Says(t, x)' PROVE Says(t, x) \/ x = after
        <5>1. local[t] # None => local[t] \in Objects
          BY <1>0 DEF Typed
        <5> QED
          BY <1>1, <2>9, <4>2, <5>1 DEF Says
      <4>3. ASSUME NEW x \in Records, Says(t, x)'
            PROVE  x.retries <= MaxRetries /\ sent'[t] <= Allowance(x.retries)
        BY <1>1, <2>4, <2>6, <2>6a, <4>2, <4>3 DEF Sound
      <4> QED
        BY <3>2, <4>1, <4>3 DEF Sound
    <3> QED
      BY <3>1, <3>2
  <2>13. ObjectsInBudget' /\ Unsent' /\ metrics' = counters'
    <3>1. ObjectsInBudget'
      BY <2>6, <2>9 DEF Agreement, ObjectsInBudget
    <3>2. Unsent'
      BY <1>1, <2>1, <2>9, TrackerAssumption DEF Agreement, Unsent, Objects
    <3> QED
      BY <1>1, <3>1, <3>2 DEF Agreement
  <2> QED
    BY <2>7, <2>8, <2>11, <2>12, <2>13 DEF Agreement
<1> QED
  BY <1>2, <1>3, ChangeIs

LEMMA PublishAgrees ==
    ASSUME Structure, Agreement, NEW c \in Calls, Publish(c)
    PROVE  Agreement'
<1>0. /\ Names(c) /\ Means(c) /\ OnlyPublished(c) /\ Typed /\ call[c].pc = "publish" /\ ~Writing(c)
      /\ Active(c) /\ call[c].publish \in Tasks /\ call[c].tries < MaxAttempts
      /\ call[c].tries \in Nat
  <2>1. /\ Names(c) /\ Means(c) /\ OnlyPublished(c) /\ Typed
        /\ call[c].pc = "publish" /\ call[c].tries \in 0..MaxAttempts
    BY CallFields DEF Publish, Structure, Typed
  <2>2. call[c].tries \in Nat
    BY <2>1, TrackerAssumption
  <2> QED
    BY <2>1, <2>2 DEF Writing, Writes, Active, Means
<1>1. PICK n \in {0, 1} : Published(c, n)
  BY PublishIs
<1>2. UNCHANGED <<heap, local, redis, index, metrics, counters>>
  BY DEF Publish, stores
<1>3. PICK p \in Tasks : p = call[c].publish
  BY <1>0
<1>4. /\ \A t \in Tasks \ {p} : sent'[t] = sent[t]
      /\ sent'[p] = sent[p] + n /\ sent[p] \in Nat
  BY <1>0, <1>1, <1>3 DEF Published, Typed
<1>5. ASSUME NEW t \in Tasks, t # p PROVE Untouched(t)
  BY <1>2, <1>4, <1>5 DEF Untouched, Says
<1>6. ASSUME NEW x \in Records, Says(p, x)
      PROVE  /\ p = call[c].task /\ x.retries <= MaxRetries
             /\ sent[p] + (MaxAttempts - call[c].tries) <= Allowance(x.retries)
  <2>1. call[c].op # "create"
    BY <1>0, <1>3, <1>6 DEF OnlyPublished, Says
  <2>2. p = call[c].task
    BY <1>0, <1>3, <2>1, TrackerAssumption DEF Names
  <2>3. Sound(p) /\ MayPublish(c)
    BY DEF Agreement
  <2> QED
    BY <1>0, <1>3, <1>6, <2>2, <2>3 DEF Sound, MayPublish
<1>7. \A x \in Records : Says(p, x)' <=> Says(p, x)
  BY <1>2 DEF Says
<1>8. ASSUME NEW d \in Calls \ {c} PROVE MayRetry(d)' /\ MayPublish(d)' /\ MayWrite(d)'
  <2>1. Active(d) => call[d].task # p
    BY <1>0, <1>3, Alone
  <2>2. call'[d] = call[d]
    BY <1>1 DEF Published
  <2> QED
    BY <1>5, <2>1, <2>2, CallKept
<1>9. MayRetry(c)' /\ MayPublish(c)' /\ MayWrite(c)'
  <2>1. call'[c].pc \in {"publish", "done"}
    BY <1>1 DEF Published
  <2>2. MayRetry(c)' /\ MayWrite(c)'
    BY <2>1 DEF MayRetry, MayWrite, Writing, Writes
  <2>3. MayPublish(c)'
    <3> SUFFICES ASSUME call'[c].pc = "publish", call'[c].publish = call'[c].task,
                        NEW x \in Records, Says(p, x)
                 PROVE  sent'[p] + (MaxAttempts - call'[c].tries) <= Allowance(x.retries)
      <4>1. call'[c].publish = p
        BY <1>1, <1>3 DEF Published
      <4> QED
        BY <1>7, <4>1 DEF MayPublish
    <3>1. call'[c].tries = call[c].tries + 1
      BY <1>1 DEF Published
    <3>2. sent[p] + (MaxAttempts - call[c].tries) <= Allowance(x.retries)
      BY <1>6
    <3>3. Allowance(x.retries) \in Nat
      BY AllowanceGrows DEF Records
    <3> QED
      BY <1>0, <1>4, <3>1, <3>2, <3>3, TrackerAssumption
  <2> QED
    BY <2>2, <2>3
<1>10. ASSUME NEW t \in Tasks PROVE Sound(t)'
  <2>1. BeingWritten(t) <=> BeingWritten(t)'
    <3>1. call'[c].pc \in {"publish", "done"}
      BY <1>1 DEF Published
    <3>2. ~Writing(c)'
      BY <3>1 DEF Writing, Writes
    <3>3. \A d \in Calls \ {c} : call'[d] = call[d]
      BY <1>1 DEF Published
    <3> QED
      BY <1>0, <3>2, <3>3 DEF BeingWritten, Writing
  <2>2. CASE t # p
    BY <1>5, <2>1, <2>2, SoundKept
  <2>3. CASE t = p
    <3>1. ASSUME NEW x \in Records, Says(p, x)
          PROVE  x.retries <= MaxRetries /\ sent'[p] <= Allowance(x.retries)
      <4>1. /\ x.retries <= MaxRetries
            /\ sent[p] + (MaxAttempts - call[c].tries) <= Allowance(x.retries)
        BY <1>6, <3>1
      <4>2. Allowance(x.retries) \in Nat
        BY AllowanceGrows DEF Records
      <4> QED
        BY <1>0, <1>4, <4>1, <4>2, TrackerAssumption
    <3>2. Sound(p)
      BY DEF Agreement
    <3>3. ~BeingWritten(p)' => \A x, y \in Records : Says(p, x)' /\ Says(p, y)' =>
                                  x = y /\ p \in index'[x.status]
      BY <1>2, <1>7, <2>1, <2>3, <3>2 DEF Sound
    <3> QED
      BY <1>7, <2>3, <3>1, <3>3 DEF Sound
  <2> QED
    BY <2>2, <2>3
<1>11. ObjectsInBudget' /\ Unsent' /\ metrics' = counters'
  <2>1. heap[p] # None
    BY <1>0, <1>3, TrackerAssumption DEF Names
  <2> QED
    BY <1>2, <1>4, <2>1 DEF Agreement, ObjectsInBudget, Unsent
<1> QED
  BY <1>8, <1>9, <1>10, <1>11 DEF Agreement

(* What a command leaves for what comes after it. *)
Wrote(c) ==
    /\ redis' \in {redis, [redis EXCEPT ![call[c].task] = call[c].data]}
    /\ redis'[call[c].task] \in {None, call[c].data}
    /\ \A s \in Statuses, t \in Tasks \ {call[c].task} : t \in index[s] => t \in index'[s]
    /\ \/ call'[c].pc \in Writes
       \/ /\ local'[call[c].task] = call[c].obj
          /\ call[c].task \in index'[call[c].data.status]
    /\ call'[c].pc # "setex"
    /\ call'[c].pc = "sadd" => call'[c].key = call[c].data.status
    /\ call'[c].pc = "srem" => call[c].old # call[c].data.status
    /\ call'[c].pc = "hincrby" =>
           /\ call[c].task \in index'[call[c].data.status]
           /\ call'[c].key = IF call[c].op = "create" THEN "created" ELSE call[c].data.status
           /\ call'[c].key \in Metrics
    /\ sent' = sent /\ metrics' = counters'

LEMMA WroteAgrees ==
    ASSUME Structure, Agreement, NEW c \in Calls, Writing(c), GoesOn(c), Wrote(c)
    PROVE  Agreement'
<1>0. Typed /\ MayWrite(c) /\ Active(c)
  BY WriterHas DEF Structure, Agreement
<1>1. PICK t \in Tasks, data \in Records, obj \in Objects :
          t = call[c].task /\ data = call[c].data /\ obj = call[c].obj
  BY WriterHas
<1>2. /\ heap' = heap /\ sent' = sent /\ heap[obj] = data /\ t # None /\ data # None
      /\ \A d \in Calls \ {c} : call'[d] = call[d]
      /\ call'[c].op = call[c].op /\ call'[c].task = t /\ call'[c].obj = obj
      /\ call'[c].old = call[c].old /\ call'[c].data = data
      /\ call'[c].tries = 0 /\ call'[c].publish = call[c].publish
      /\ call'[c].pc \in Writes \cup {"publish", "done"}
      /\ local' = local \/ local' = [local EXCEPT ![t] = obj]
      /\ data.status \in Statuses /\ data.retries \in Nat
  BY <1>1, WriterHas DEF GoesOn, Wrote
<1>3. /\ redis'[t] \in {None, data}
      /\ \A s \in Statuses, u \in Tasks \ {t} : u \in index[s] => u \in index'[s]
      /\ call'[c].pc \in Writes \/ (local'[t] = obj /\ t \in index'[data.status])
      /\ redis' = redis \/ redis' = [redis EXCEPT ![t] = data]
  BY <1>1 DEF Wrote
<1>4. /\ data.retries <= MaxRetries
      /\ sent[t] + (IF call[c].publish = t THEN MaxAttempts ELSE 0) <= Allowance(data.retries)
      /\ sent[t] \in Nat /\ Allowance(data.retries) \in Nat
  BY <1>0, <1>1, <1>2, AllowanceGrows DEF MayWrite, Typed
<1>5. sent[t] <= Allowance(data.retries)
  BY <1>4, TrackerAssumption
<1>6. ASSUME NEW u \in Tasks, u # t PROVE Untouched(u)
  <2>1. local'[u] = local[u] /\ redis'[u] = redis[u]
    BY <1>0, <1>2, <1>3, <1>6 DEF Typed
  <2> QED
    BY <1>2, <1>3, <1>6, <2>1 DEF Untouched, Says
<1>7. ASSUME NEW x \in Records, Says(t, x)'
      PROVE  x = data \/ (call'[c].pc \in Writes /\ Says(t, x))
  <2>1. CASE redis'[t] # None /\ x = redis'[t]
    BY <1>3, <2>1
  <2>2. CASE local'[t] # None /\ x = heap'[local'[t]]
    <3>1. local'[t] = obj \/ (local'[t] = local[t] /\ call'[c].pc \in Writes)
      BY <1>0, <1>2, <1>3 DEF Typed
    <3>2. local'[t] = obj => x = data
      BY <1>2, <2>2
    <3>3. local'[t] = local[t] => Says(t, x)
      BY <1>2, <2>2 DEF Says
    <3> QED
      BY <3>1, <3>2, <3>3
  <2> QED
    BY <1>7, <2>1, <2>2 DEF Says
<1>8. ASSUME NEW d \in Calls \ {c} PROVE MayRetry(d)' /\ MayPublish(d)' /\ MayWrite(d)'
  <2>1. Active(d) => call[d].task # t
    BY <1>0, <1>1, Alone
  <2> QED
    BY <1>2, <1>6, <2>1, CallKept
<1>9. MayRetry(c)'
  BY <1>2 DEF MayRetry, Writes
<1>10. MayPublish(c)'
  <2> SUFFICES ASSUME call'[c].pc = "publish", call[c].publish = t, NEW x \in Records, Says(t, x)'
               PROVE  sent'[t] + (MaxAttempts - 0) <= Allowance(x.retries)
    BY <1>2 DEF MayPublish
  <2>1. x = data
    BY <1>7 DEF Writes
  <2> QED
    BY <1>2, <1>4, <2>1, TrackerAssumption
<1>11. MayWrite(c)'
  <2>1. /\ call'[c].pc # "setex"
        /\ call'[c].pc = "sadd" => call'[c].key = data.status
        /\ call'[c].pc = "srem" => call[c].old # data.status
        /\ call'[c].pc = "hincrby" =>
               /\ t \in index'[data.status]
               /\ call'[c].key = IF call[c].op = "create" THEN "created" ELSE data.status
               /\ call'[c].key \in Metrics
    BY <1>1 DEF Wrote
  <2> QED
    BY <1>2, <1>3, <1>4, <2>1 DEF MayWrite
<1>12. ASSUME NEW u \in Tasks PROVE Sound(u)'
  <2>1. CASE u # t
    <3>1. BeingWritten(u) => BeingWritten(u)'
      BY <1>1, <1>2, <2>1 DEF BeingWritten, Writing
    <3> QED
      BY <1>6, <2>1, <3>1, SoundKept
  <2>2. CASE u = t
    <3>1. Sound(t)
      BY DEF Agreement
    <3>2. ASSUME NEW x \in Records, Says(t, x)'
          PROVE  x.retries <= MaxRetries /\ sent'[t] <= Allowance(x.retries)
      BY <1>2, <1>4, <1>5, <1>7, <3>1, <3>2 DEF Sound
    <3>3. ASSUME ~BeingWritten(t)', NEW x \in Records, NEW y \in Records, Says(t, x)', Says(t, y)'
          PROVE  x = y /\ t \in index'[x.status]
      <4>1. call'[c].pc \notin Writes
        BY <1>2, <3>3 DEF BeingWritten, Writing
      <4>2. x = data /\ y = data
        BY <1>7, <3>3, <4>1
      <4> QED
        BY <1>3, <4>1, <4>2
    <3> QED
      BY <2>2, <3>2, <3>3 DEF Sound
  <2> QED
    BY <2>1, <2>2
<1>13. ObjectsInBudget' /\ Unsent' /\ metrics' = counters'
  BY <1>2 DEF Agreement, ObjectsInBudget, Unsent, Wrote
<1> QED
  BY <1>8, <1>9, <1>10, <1>11, <1>12, <1>13 DEF Agreement

(* The count comes after the index. *)
LEMMA CountWrote ==
    ASSUME Structure, Agreement, NEW c \in Calls, Writing(c), CountNext(c),
           call[c].task \in index'[call[c].data.status],
           redis' \in {redis, [redis EXCEPT ![call[c].task] = call[c].data]},
           redis'[call[c].task] \in {None, call[c].data},
           \A s \in Statuses, t \in Tasks \ {call[c].task} : t \in index[s] => t \in index'[s],
           sent' = sent, metrics' = metrics
    PROVE  Wrote(c)
<1>0. /\ call[c] \in CallRecords /\ call \in [Calls -> CallRecords] /\ metrics = counters
      /\ Status(call[c].obj) = call[c].data.status /\ call[c].data.status \in Statuses
      /\ call[c].task \in Tasks /\ local \in [Tasks -> Objects \cup {None}]
  BY WriterHas DEF Structure, Typed, Agreement
<1> DEFINE status == IF call[c].op = "create" THEN "created" ELSE call[c].data.status
<1>1. CASE status \in Counted \cup {"created"}
  <2>1. /\ call' = [call EXCEPT ![c].pc = "hincrby", ![c].key = status] /\ counters' = counters
    BY <1>0, <1>1 DEF CountNext
  <2>2. status \in Statuses \cup {"none", "created"} /\ "hincrby" \in Places /\ "hincrby" \in Writes
    BY <1>0 DEF Places, Writes
  <2>3. status = IF call[c].op = "create" THEN "created" ELSE call[c].data.status
    OBVIOUS
  <2> HIDE DEF status
  <2>4. call'[c].pc = "hincrby" /\ call'[c].key = status
    BY <1>0, <2>1, <2>2, MovesWithKey
  <2>5. status \in Metrics
    BY <1>1 DEF Metrics
  <2> QED
    BY <1>0, <2>1, <2>2, <2>3, <2>4, <2>5 DEF Wrote
<1>2. CASE status \notin Counted \cup {"created"}
  <2>1. KeepLocally(c) /\ call[c].op # "create" /\ Status(call[c].obj) \notin Counted
    BY <1>0, <1>2 DEF CountNext
  <2>2. /\ counters' = counters /\ local' = [local EXCEPT ![call[c].task] = call[c].obj]
        /\ call' = [call EXCEPT ![c].pc = Stored(c)]
    BY <2>1 DEF KeepLocally, Goes
  <2>3. Stored(c) \in {"publish", "done"} /\ Stored(c) \in Places
    BY DEF Stored, Places
  <2>4. call'[c].pc = Stored(c)
    <3>1. call[c].key \in Statuses \cup {"none", "created"}
      BY <1>0, CallFields
    <3> QED
      BY <1>0, <2>2, <2>3, <3>1, Moves
  <2>5. call'[c].pc \notin Writes
    BY <2>3, <2>4 DEF Writes
  <2>6. local'[call[c].task] = call[c].obj
    BY <1>0, <2>2
  <2> QED
    BY <1>0, <2>2, <2>3, <2>4, <2>6 DEF Wrote
<1> QED
  BY <1>1, <1>2

LEMMA CommandsAgree ==
    ASSUME Structure, Agreement, NEW c \in Calls,
           Setex(c) \/ Srem(c) \/ Sadd(c) \/ Hincrby(c)
    PROVE  Agreement'
<1>0. Writing(c) /\ GoesOn(c)
  BY CommandsKeepStructure
<1>1. /\ Typed /\ MayWrite(c) /\ InHand(c) /\ metrics = counters
      /\ call[c] \in CallRecords /\ call \in [Calls -> CallRecords]
      /\ call[c].task \in Tasks /\ call[c].data \in Records /\ call[c].data # None
      /\ Status(call[c].obj) = call[c].data.status /\ call[c].data.status \in Statuses
      /\ call[c].key \in Statuses \cup {"none", "created"}
  BY <1>0, WriterHas, CallFields DEF Structure, Typed, Agreement
<1>s. "sadd" \in Places /\ "srem" \in Places /\ "sadd" \in Writes /\ "srem" \in Writes
  BY DEF Places, Writes
<1>2. CASE Setex(c)
  <2>1. /\ redis' = [redis EXCEPT ![call[c].task] = call[c].data] /\ index' = index
        /\ metrics' = metrics /\ sent' = sent /\ call[c].pc = "setex"
    BY <1>2 DEF Setex
  <2>2. redis'[call[c].task] = call[c].data
    BY <1>1, <2>1 DEF Typed
  <2>3. CASE /\ call' = [call EXCEPT ![c].pc = "sadd", ![c].key = Status(call[c].obj)]
             /\ UNCHANGED <<heap, local, counters>>
    <3>1. call'[c].pc = "sadd" /\ call'[c].key = call[c].data.status
      <4>1. PICK key \in Statuses : key = call[c].data.status
        BY <1>1
      <4>2. call' = [call EXCEPT ![c].pc = "sadd", ![c].key = key]
        BY <1>1, <2>3, <4>1
      <4>3. call'[c].pc = "sadd" /\ call'[c].key = key
        BY <1>1, <1>s, <4>2, MovesWithKey
      <4> QED
        BY <4>1, <4>3
    <3>2. Wrote(c)
      BY <1>1, <1>s, <2>1, <2>2, <2>3, <3>1 DEF Wrote
    <3> QED
      BY <1>0, <3>2, WroteAgrees
  <2>4. CASE /\ call[c].op # "create" /\ call[c].old # Status(call[c].obj)
             /\ call' = [call EXCEPT ![c].pc = "srem"] /\ UNCHANGED <<heap, local, counters>>
    <3>1. call'[c].pc = "srem"
      BY <1>1, <1>s, <2>4, Moves
    <3>2. Wrote(c)
      BY <1>1, <1>s, <2>1, <2>2, <2>4, <3>1 DEF Wrote
    <3> QED
      BY <1>0, <3>2, WroteAgrees
  <2>5. CASE call[c].op # "create" /\ call[c].old = Status(call[c].obj) /\ CountNext(c)
    <3>1. call[c].task \in index'[call[c].data.status]
      BY <1>0, <1>1, <2>1, <2>5 DEF MayWrite
    <3>2. Wrote(c)
      BY <1>0, <2>1, <2>2, <2>5, <3>1, CountWrote
    <3> QED
      BY <1>0, <3>2, WroteAgrees
  <2> QED
    BY <1>2, <2>3, <2>4, <2>5 DEF Setex, Goes
<1>3. CASE Srem(c)
  <2>1. /\ redis' = redis /\ index' = [index EXCEPT ![call[c].old] = @ \ {call[c].task}]
        /\ metrics' = metrics /\ counters' = counters /\ sent' = sent /\ call[c].pc = "srem"
        /\ call' = [call EXCEPT ![c].pc = "sadd", ![c].key = Status(call[c].obj)]
    BY <1>3 DEF Srem
  <2>2. redis'[call[c].task] \in {None, call[c].data}
    BY <1>0, <1>1, <2>1 DEF MayWrite
  <2>3. call'[c].pc = "sadd" /\ call'[c].key = call[c].data.status
    <3>1. PICK key \in Statuses : key = call[c].data.status
      BY <1>1
    <3>2. call' = [call EXCEPT ![c].pc = "sadd", ![c].key = key]
      BY <1>1, <2>1, <3>1
    <3>3. call'[c].pc = "sadd" /\ call'[c].key = key
      BY <1>1, <1>s, <3>2, MovesWithKey
    <3> QED
      BY <3>1, <3>3
  <2>4. \A s \in Statuses, t \in Tasks \ {call[c].task} : t \in index[s] => t \in index'[s]
    BY <1>1, <2>1 DEF Typed
  <2>5. Wrote(c)
    BY <1>1, <1>s, <2>1, <2>2, <2>3, <2>4 DEF Wrote
  <2> QED
    BY <1>0, <2>5, WroteAgrees
<1>4. CASE Sadd(c)
  <2>1. /\ redis' = redis /\ index' = [index EXCEPT ![call[c].key] = @ \cup {call[c].task}]
        /\ metrics' = metrics /\ sent' = sent /\ call[c].pc = "sadd" /\ CountNext(c)
    BY <1>4 DEF Sadd
  <2>2. call[c].key = call[c].data.status /\ redis'[call[c].task] \in {None, call[c].data}
    BY <1>0, <1>1, <2>1 DEF MayWrite
  <2>3. /\ call[c].task \in index'[call[c].data.status]
        /\ \A s \in Statuses, t \in Tasks \ {call[c].task} : t \in index[s] => t \in index'[s]
    BY <1>1, <2>1, <2>2 DEF Typed
  <2>4. Wrote(c)
    BY <1>0, <2>1, <2>2, <2>3, CountWrote
  <2> QED
    BY <1>0, <2>4, WroteAgrees
<1>5. CASE Hincrby(c)
  <2>1. /\ redis' = redis /\ index' = index /\ sent' = sent /\ call[c].pc = "hincrby"
        /\ metrics' = [metrics EXCEPT ![call[c].key] = @ + 1] /\ KeepLocally(c)
    BY <1>5 DEF Hincrby
  <2>2. /\ redis[call[c].task] \in {None, call[c].data}
        /\ call[c].task \in index[call[c].data.status]
        /\ call[c].key = IF call[c].op = "create" THEN "created" ELSE call[c].data.status
        /\ call[c].key \in Metrics
    BY <1>0, <1>1, <2>1 DEF MayWrite
  <2>3. metrics' = counters'
    <3>1. call[c].op # "create" => call[c].data.status \in Counted
      BY <1>1, <2>2 DEF Metrics, Statuses
    <3>2. counters' = [counters EXCEPT ![call[c].key] = @ + 1]
      BY <1>1, <2>1, <2>2, <3>1 DEF KeepLocally
    <3> QED
      BY <1>1, <2>1, <3>2
  <2>4. local'[call[c].task] = call[c].obj /\ call' = [call EXCEPT ![c].pc = Stored(c)]
    BY <1>1, <2>1 DEF KeepLocally, Goes, Typed
  <2>5. Stored(c) \in {"publish", "done"} /\ Stored(c) \in Places
    BY DEF Stored, Places
  <2>6. call'[c].pc \in {"publish", "done"}
    <3>1. call'[c].pc = Stored(c)
      BY <1>1, <2>4, <2>5, Moves
    <3> QED
      BY <2>5, <3>1
  <2>7. Wrote(c)
    BY <2>1, <2>2, <2>3, <2>4, <2>6 DEF Wrote
  <2> QED
    BY <1>0, <2>7, WroteAgrees
<1> QED
  BY <1>2, <1>3, <1>4, <1>5

-----------------------------------------------------------------------------
(* The theorems *)

LEMMA InitiallyAgreement == Init => Agreement
<1> SUFFICES ASSUME Init PROVE Agreement
  OBVIOUS
<1>1. \A c \in Calls : call[c].pc = "idle"
  BY DEF Init, Free
<1>2. ASSUME NEW t \in Tasks PROVE Sound(t)
  BY DEF Init, Sound, Says
<1>3. ASSUME NEW c \in Calls PROVE MayRetry(c) /\ MayPublish(c) /\ MayWrite(c)
  BY <1>1 DEF MayRetry, MayPublish, MayWrite, Writing, Writes
<1>4. ObjectsInBudget /\ Unsent /\ metrics = counters
  BY DEF Init, ObjectsInBudget, Unsent, Objects
<1> QED
  BY <1>2, <1>3, <1>4 DEF Agreement

LEMMA AgreementStep ==
    ASSUME Structure, Agreement, [Next]_vars, raises = 0, raises' = 0
    PROVE  Agreement'
<1>0. raises' = raises
  OBVIOUS
<1>1. ASSUME NEW c \in Calls, Begins(c) PROVE Agreement'
  BY <1>1, DispatchAgrees, MarkAgrees DEF Begins
<1>2. ASSUME NEW c \in Calls, Continues(c) PROVE Agreement'
  <2>1. ~WriteRaises(c)
    BY DEF WriteRaises, Raise
  <2> QED
    BY <1>0, <1>2, <2>1, DecideAgrees, ChangeAgrees, CommandsAgree, PublishAgrees DEF Continues
<1>3. local \in [Tasks -> Objects \cup {None}] /\ redis \in [Tasks -> Records \cup {None}]
  BY DEF Structure, Typed
<1>4. ASSUME NEW t \in Tasks, Expire(t) PROVE Agreement'
  BY <1>3, <1>4, LeavingAgrees DEF Expire
<1>5. CASE ClearCompleted
  BY <1>3, <1>5, LeavingAgrees DEF ClearCompleted
<1>6. CASE UNCHANGED vars
  BY <1>6, LeavingAgrees DEF vars, stores
<1> QED
  BY <1>1, <1>2, <1>4, <1>5, <1>6 DEF Next

(* What raised is counted and never forgotten.                             *)
LEMMA RaisesGrow ==
    ASSUME Structure, [Next]_vars, raises' = 0
    PROVE  raises = 0
<1>1. raises \in Nat
  BY TrackerAssumption DEF Structure, Typed
<1>2. raises' \in {raises, raises + 1}
  <2>1. ASSUME NEW c \in Calls, Begins(c) PROVE raises' = raises
    BY <2>1 DEF Begins, Dispatch, Mark, HandleFailure
  <2>2. ASSUME NEW c \in Calls, Continues(c) PROVE raises' \in {raises, raises + 1}
    BY <2>2 DEF Continues, Decide, Change, Setex, Srem, Sadd, Hincrby, WriteRaises, Publish,
                Reads, Raise
  <2> QED
    BY <2>1, <2>2 DEF Next, Expire, ClearCompleted, vars
<1> QED
  BY <1>1, <1>2

(* The inductive invariant: the calls and the homes are in order whatever  *)
(* Redis does, and as long as it has not failed what they say agrees.      *)
THEOREM TrackerInvariant == ASSUME ~Overlap PROVE Spec => []TrackerInv
<1>1. Init => TrackerInv
  BY InitiallyStructure, InitiallyAgreement DEF TrackerInv
<1>2. ASSUME TrackerInv, [Next]_vars PROVE TrackerInv'
  <2>1. Structure'
    BY <1>2, StructureStep DEF TrackerInv
  <2>2. ASSUME raises' = 0 PROVE Agreement'
    BY <1>2, <2>2, RaisesGrow, AgreementStep DEF TrackerInv
  <2> QED
    BY <2>1, <2>2 DEF TrackerInv
<1> QED
  BY <1>1, <1>2, PTL DEF Spec

(* The retry budget (can_retry(), mark_retry(), _publish_task()): unless   *)
(* Redis has failed, no record of a task says it was retried more than     *)
(* max_retries times, and no more copies of it are in the topic than the   *)
(* retries it was charged with allow.                                      *)
THEOREM BudgetsAreKept == ASSUME ~Overlap PROVE Spec => []Budgets
<1>1. TrackerInv => Budgets
  <2> SUFFICES ASSUME TrackerInv PROVE Budgets
    OBVIOUS
  <2>0. Structure /\ Typed
    BY DEF TrackerInv, Structure
  <2>1. TypeOK
    <3>1. \A c \in Calls : call[c].tries \in 0..MaxAttempts
      BY <2>0, CallFields DEF Typed
    <3> QED
      BY <2>0, <3>1 DEF TypeOK, Typed, Objects, Metrics
  <2>2. WithinBudget
    <3> SUFFICES ASSUME raises = 0
                 PROVE  /\ \A o \in Calls \cup Tasks : heap[o] # None => heap[o].retries <= MaxRetries
                        /\ \A t \in Tasks : redis[t] # None => redis[t].retries <= MaxRetries
      BY DEF WithinBudget
    <3>1. Agreement
      BY DEF TrackerInv
    <3>2. ASSUME NEW t \in Tasks, redis[t] # None PROVE redis[t].retries <= MaxRetries
      <4>1. redis[t] \in Records /\ Says(t, redis[t])
        BY <2>0, <3>2 DEF Typed, Says
      <4> QED
        BY <3>1, <4>1 DEF Agreement, Sound
    <3> QED
      BY <3>1, <3>2 DEF Agreement, ObjectsInBudget, Objects
  <2>3. SentWithinBudget
    <3> SUFFICES ASSUME NEW t \in Tasks, raises = 0, local[t] # None
                 PROVE  sent[t] <= Allowance(heap[local[t]].retries)
      BY DEF SentWithinBudget, Allowance
    <3>1. Sound(t) /\ Homes(t)
      BY <2>0 DEF TrackerInv, Agreement, Structure
    <3>2. heap[local[t]] \in Records
      BY <2>0, <3>1 DEF Homes, Typed
    <3>3. Says(t, heap[local[t]])
      BY DEF Says
    <3> QED
      BY <3>1, <3>2, <3>3 DEF Sound
  <2> QED
    BY <2>1, <2>2, <2>3 DEF Budgets
<1> QED
  BY <1>1, TrackerInvariant, PTL

(* _update_task(): unless Redis has failed, the record, the dict's object  *)
(* and the status index of a task agree whenever no call works on it, and  *)
(* the metrics hash and the local counters when none works at all.         *)
THEOREM HomesStayTogether == ASSUME ~Overlap PROVE Spec => []HomesAgree
<1>1. TrackerInv => HomesAgree
  <2> SUFFICES ASSUME TrackerInv, raises = 0
               PROVE  /\ \A t \in Tasks : Quiet(t) /\ redis[t] # None =>
                             /\ local[t] # None => redis[t] = heap[local[t]]
                             /\ t \in index[redis[t].status]
                      /\ metrics = counters
    BY DEF HomesAgree
  <2>0. Structure /\ Typed /\ Agreement
    BY DEF TrackerInv, Structure
  <2>1. ASSUME NEW t \in Tasks, Quiet(t), redis[t] # None
        PROVE  /\ local[t] # None => redis[t] = heap[local[t]]
               /\ t \in index[redis[t].status]
    <3>1. ~BeingWritten(t)
      BY <2>1 DEF BeingWritten, Quiet, Writing, Writes, Active
    <3>2. redis[t] \in Records /\ Says(t, redis[t])
      BY <2>0, <2>1 DEF Typed, Says
    <3>3. \A x, y \in Records : Says(t, x) /\ Says(t, y) => x = y /\ t \in index[x.status]
      BY <2>0, <3>1 DEF Agreement, Sound
    <3>4. local[t] # None => heap[local[t]] \in Records /\ Says(t, heap[local[t]])
      BY <2>0 DEF Structure, Homes, Typed, Says
    <3> QED
      BY <3>2, <3>3, <3>4
  <2> QED
    BY <2>0, <2>1 DEF Agreement
<1> QED
  BY <1>1, TrackerInvariant, PTL

=============================================================================
