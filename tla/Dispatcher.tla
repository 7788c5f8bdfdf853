----------------------------- MODULE Dispatcher -----------------------------
(***************************************************************************)
(* The event dispatcher of py-xmlrpc: rpcDispatch.c, the source objects of *)
(* rpcSource.c, and the calls of rpcServer.c that reach the dispatcher     *)
(* (addSource, delSource, close, exit, work).                              *)
(*                                                                         *)
(* One thread runs work(): it polls the registered sources with select(),  *)
(* takes a snapshot of them, and calls the callback of each one that is    *)
(* ready.  Between two lines of the snapshot the application's callbacks   *)
(* may change anything: the registrations, the interests, the deadline,    *)
(* and they may run work() again.  While select() blocks the interpreter   *)
(* lock is free, so another thread may do the same.                        *)
(***************************************************************************)
EXTENDS Integers, Sequences, SequencesExt

CONSTANTS
  Sources,     (* the rpcSource objects the application keeps              *)
  NULL,        (* an empty slot of the array, or no source                 *)
  Fds,         (* file descriptors                                         *)
  FdOf,        (* FdOf[s]: the descriptor source s is created with         *)
  DoClose,     (* the sources whose doClose flag is set                    *)
  Interests,   (* the sets of acts the application waits for               *)
  OnErr,       (* what error handlers return, as sets of ONERR_ flags      *)
  Threads,     (* whether other threads use the dispatcher during select() *)
  Careless,    (* the mistakes the application may make, see below         *)
  InitSources, (* INIT_SOURCES: how many slots the array starts with       *)
  MaxDepth,    (* bound on nested calls of work()                          *)
  MaxId        (* bound on the ids handed out                              *)

Acts == {"input", "output", "immediate"}
BadFd == -1

(* "double": registering a source that is registered already;              *)
(* "delete": deleting or clearing a source that a batch has yet to call;   *)
(* "dead":   registering a source whose descriptor an error has closed;    *)
(* "raise":  failing in a callback that has registered its source again;   *)
(* "reread": reading or writing in a callback that has done so.            *)
Mistakes == {"double", "delete", "dead", "raise", "reread"}

ASSUME SourcesAssumption == NULL \notin Sources
ASSUME FdsAssumption == Fds \subseteq Nat /\ \A s \in Sources : FdOf[s] \in Fds
ASSUME FlagsAssumption ==
  /\ DoClose \subseteq Sources
  /\ OnErr \subseteq SUBSET {"KEEP_DEF", "KEEP_WORK"}
  /\ Threads \in BOOLEAN
  /\ Careless \subseteq Mistakes
ASSUME InterestsAssumption == Interests \subseteq (SUBSET Acts) \ {{}}
ASSUME BoundsAssumption ==
  /\ InitSources \in Nat \ {0}
  /\ MaxDepth \in Nat \ {0}
  /\ MaxId \in Nat \ {0}

VARIABLES
  slots,   (* dp->srcs: the array of salloc source pointers                *)
  salloc,  (* how many slots are allocated                                 *)
  scard,   (* how many of them are in use                                  *)
  maxid,   (* the next id                                                  *)
  etime,   (* when work() should stop: never, later, now, or exit() called *)
  id, actImp, actOcc, fd,  (* the fields of each source                    *)
  ready,   (* what the kernel has ready on each descriptor                 *)
  open,    (* the descriptors that are open                                *)
  watch,   (* the fd_sets of the select() in progress                      *)
  wait,    (* its timeout: poll, timed or block                            *)
  frames,  (* the active calls of work(), innermost last                   *)
  pc,      (* where the innermost one is                                   *)
  exc      (* a Python exception is pending                                *)

disp == <<slots, salloc, scard, maxid>>
sources == <<id, actImp, actOcc, fd>>
kernel == <<ready, open>>
polling == <<watch, wait>>
vars == <<disp, sources, etime, kernel, polling, frames, pc, exc>>

(* One activation of work(): what is left of its snapshot, the source being*)
(* called with the interest and the acts of the copy it is called on, and  *)
(* whether the caller gave a timeout.                                      *)
NoCall == [src |-> NULL, actImp |-> {}, actOcc |-> {}]
NewFrame(limited) == [rest |-> <<>>, call |-> NoCall, limited |-> limited]

(* The registered sources; the sources of the snapshots that are yet to be *)
(* looked at, and those of them that are yet to be called.                 *)
Reg == {slots[k] : k \in 1..scard}
First(K) == CHOOSE k \in K : \A m \in K : k <= m
Top == frames[Len(frames)]
InRest(s) == \E n \in 1..Len(frames) : s \in Range(frames[n].rest)
Pending == {s \in Sources : InRest(s) /\ actOcc[s] # {}}
Careful(mistake, safe) == mistake \in Careless \/ safe

-----------------------------------------------------------------------------
Init ==
  /\ slots = [k \in 1..InitSources |-> NULL]
  /\ salloc = InitSources
  /\ scard = 0
  /\ maxid = 1
  /\ etime = "never"
  /\ id = [s \in Sources |-> -1]
  /\ actImp = [s \in Sources |-> {}]
  /\ actOcc = [s \in Sources |-> {}]
  /\ fd = [s \in Sources |-> FdOf[s]]
  /\ ready = [f \in Fds |-> {}]
  /\ open = Fds
  /\ watch = {}
  /\ wait = "poll"
  /\ frames = <<>>
  /\ pc = "idle"
  /\ exc = FALSE

-----------------------------------------------------------------------------
(* The array of sources.                                                   *)

(* Mutants: the array grows one registration too late; the id is the slot. *)
AddSourceGrowsLate(s) ==
  /\ maxid < MaxId
  /\ salloc' = IF scard > salloc THEN 2 * salloc ELSE salloc
  /\ slots' = [k \in 1..salloc' |-> IF k = scard + 1 THEN s
                                    ELSE IF k <= salloc THEN slots[k] ELSE NULL]
  /\ id' = [id EXCEPT ![s] = maxid]
  /\ scard' = scard + 1
  /\ maxid' = maxid + 1
AddSourceSlotId(s) ==
  /\ maxid < MaxId
  /\ salloc' = IF scard + 1 > salloc THEN 2 * salloc ELSE salloc
  /\ slots' = [k \in 1..salloc' |-> IF k = scard + 1 THEN s
                                    ELSE IF k <= salloc THEN slots[k] ELSE NULL]
  /\ id' = [id EXCEPT ![s] = scard + 1]
  /\ scard' = scard + 1
  /\ maxid' = maxid + 1

(* rpcDispAddSource: append, doubling a full array and clearing the new    *)
(* half; the source gets the next id.                                      *)
DispAddSource(s) ==
  /\ maxid < MaxId
  /\ salloc' = IF scard + 1 > salloc THEN 2 * salloc ELSE salloc
  /\ slots' = [k \in 1..salloc' |-> IF k = scard + 1 THEN s
                                    ELSE IF k <= salloc THEN slots[k] ELSE NULL]
  /\ id' = [id EXCEPT ![s] = maxid]
  /\ scard' = scard + 1
  /\ maxid' = maxid + 1

(* rpcDispDelSource: remove the first entry with the id of s, shift the    *)
(* others down and clear the last; the source itself is left as it is.     *)
Entries(s) == {k \in 1..scard : id[slots[k]] = id[s]}

(* Mutants: the entries are not shifted; the search starts at the second   *)
(* slot; the count is not adjusted.                                        *)
DelSourceNoShift(s) ==
  IF Entries(s) = {}
  THEN UNCHANGED disp
  ELSE /\ slots' = [slots EXCEPT ![scard] = NULL]
       /\ scard' = scard - 1
       /\ UNCHANGED <<salloc, maxid>>
DelSourceSkipsFirst(s) ==
  IF Entries(s) \ {1} = {}
  THEN UNCHANGED disp
  ELSE /\ slots' = [k \in 1..salloc |->
                      IF k < First(Entries(s)) \/ k > scard THEN slots[k]
                      ELSE IF k < scard THEN slots[k + 1] ELSE NULL]
       /\ scard' = scard - 1
       /\ UNCHANGED <<salloc, maxid>>
DelSourceKeepsCount(s) ==
  IF Entries(s) = {}
  THEN UNCHANGED disp
  ELSE /\ slots' = [k \in 1..salloc |->
                      IF k < First(Entries(s)) \/ k > scard THEN slots[k]
                      ELSE IF k < scard THEN slots[k + 1] ELSE NULL]
       /\ UNCHANGED <<scard, salloc, maxid>>

DispDelSource(s) ==
  IF Entries(s) = {}
  THEN UNCHANGED disp
  ELSE /\ slots' = [k \in 1..salloc |->
                      IF k < First(Entries(s)) \/ k > scard THEN slots[k]
                      ELSE IF k < scard THEN slots[k + 1] ELSE NULL]
       /\ scard' = scard - 1
       /\ UNCHANGED <<salloc, maxid>>

(* rpcDispClear: the array is emptied, its slots keep their pointers.      *)
DispClear ==
  /\ scard' = 0
  /\ UNCHANGED <<slots, salloc, maxid>>

-----------------------------------------------------------------------------
(* Python code runs between calls of work(), in callbacks, and in other    *)
(* threads while select() has released the interpreter lock.               *)
PythonRuns == pc \in {"idle", "callback"} \/ (Threads /\ pc = "select")

(* source.setCallback *)
SetCallback(s, acts) ==
  /\ PythonRuns
  /\ actImp' = [actImp EXCEPT ![s] = acts]
  /\ UNCHANGED <<disp, id, actOcc, fd, etime, kernel, polling, frames, pc, exc>>

(* server.addSource: refused without a callback to call or acts to observe.*)
AddSource(s) ==
  /\ PythonRuns
  /\ actImp[s] # {}
  /\ Careful("double", s \notin Reg)
  /\ Careful("dead", fd[s] # BadFd)
  /\ DispAddSource(s)
  /\ UNCHANGED <<actImp, actOcc, fd, etime, kernel, polling, frames, pc, exc>>

(* server.delSource *)
DelSource(s) ==
  /\ PythonRuns
  /\ Entries(s) # {}
  /\ Careful("delete", s \notin Pending)
  /\ DispDelSource(s)
  /\ UNCHANGED <<sources, etime, kernel, polling, frames, pc, exc>>

(* server.close *)
Close ==
  /\ PythonRuns
  /\ scard # 0
  /\ Careful("delete", Pending = {})
  /\ DispClear
  /\ UNCHANGED <<sources, etime, kernel, polling, frames, pc, exc>>

(* server.exit: the stop time becomes 0.0, long ago.                       *)
Exit ==
  /\ PythonRuns
  /\ etime' = "exit"
  /\ UNCHANGED <<disp, sources, kernel, polling, frames, pc, exc>>

(* Mutant: work() without a timeout keeps the old stop time.               *)
WorkKeepsStopTime(limited) ==
  /\ pc \in {"idle", "callback"}
  /\ Len(frames) < MaxDepth
  /\ etime' = IF limited THEN "later" ELSE etime
  /\ frames' = Append(frames, NewFrame(limited))
  /\ pc' = "loop"
  /\ UNCHANGED <<disp, sources, kernel, polling, exc>>

(* server.work, client.work: from outside or from a callback.              *)
Work(limited) ==
  /\ pc \in {"idle", "callback"}
  /\ Len(frames) < MaxDepth
  /\ etime' = IF limited THEN "later" ELSE "never"
  /\ frames' = Append(frames, NewFrame(limited))
  /\ pc' = "loop"
  /\ UNCHANGED <<disp, sources, kernel, polling, exc>>

(* A callback reads or writes its descriptor until it would block.  The id *)
(* of a source whose callback starts is -1 until it is registered again.   *)
Consume ==
  /\ pc = "callback"
  /\ fd[Top.call.src] # BadFd
  /\ Careful("reread", id[Top.call.src] = -1)
  /\ ready' = [ready EXCEPT ![fd[Top.call.src]] = @ \ Top.call.actOcc]
  /\ UNCHANGED <<disp, sources, etime, open, polling, frames, pc, exc>>

Application ==
  \/ \E s \in Sources : AddSource(s) \/ DelSource(s)
  \/ \E s \in Sources, acts \in Interests : SetCallback(s, acts)
  \/ Close
  \/ Exit
  \/ \E limited \in BOOLEAN : Work(limited)
  \/ Consume

-----------------------------------------------------------------------------
(* The environment: descriptors become ready for what somebody may wait    *)
(* for, and the time passes.                                               *)
BecomeReady(f, act) ==
  /\ f \in open
  /\ act \notin ready[f]
  /\ ready' = [ready EXCEPT ![f] = @ \union {act}]
  /\ UNCHANGED <<disp, sources, etime, open, polling, frames, pc, exc>>

Tick ==
  /\ etime = "later"
  /\ etime' = "now"
  /\ UNCHANGED <<disp, sources, kernel, polling, frames, pc, exc>>

Environment ==
  \/ \E f \in Fds, act \in UNION Interests \ {"immediate"} : BecomeReady(f, act)
  \/ Tick

-----------------------------------------------------------------------------
(* The loop of rpcDispWork.                                                *)

(* work() returns to its caller: to Python code, outside or in a callback. *)
Return ==
  /\ frames' = Front(frames)
  /\ pc' = IF Len(frames) = 1 THEN "idle" ELSE "callback"
  /\ exc' = FALSE

(* Nothing is registered: there is nothing to wait for.                    *)
ReturnEmpty ==
  /\ pc = "loop"
  /\ scard = 0
  /\ Return
  /\ UNCHANGED <<disp, sources, etime, kernel, polling>>

(* dispNextEv up to select(): forget old events, gather the descriptors.   *)
(* An immediate source needs none; one without a descriptor is passed over.*)
Watched(s) ==
  IF "immediate" \in actImp[s] \/ fd[s] = BadFd THEN {} ELSE {fd[s]} \X actImp[s]
Poll ==
  /\ pc = "loop"
  /\ scard # 0
  /\ actOcc' = [s \in Sources |-> IF s \in Reg THEN actImp[s] \intersect {"immediate"}
                                  ELSE actOcc[s]]
  /\ watch' = UNION {Watched(s) : s \in Reg}
  /\ wait' = IF \E s \in Reg : "immediate" \in actImp[s] THEN "poll"
             ELSE IF etime \in {"later", "now"} THEN "timed" ELSE "block"
  /\ pc' = "select"
  /\ UNCHANGED <<disp, id, actImp, fd, etime, kernel, frames, exc>>

(* select() fails on a descriptor that has been closed, and so does work().*)
SelectFails ==
  /\ pc = "select"
  /\ \E w \in watch : w[1] \notin open
  /\ Return
  /\ watch' = {}
  /\ UNCHANGED <<disp, sources, etime, kernel, wait>>

(* dispNextEv from select() on, and the snapshot.  select() is not called  *)
(* at all when there is no descriptor to watch.  FD_ISSET of a source      *)
(* without a descriptor reads a bit outside the set: any bit, or an abort  *)
(* in builds that check it.                                                *)
Events == {w \in watch : w[2] \in ready[w[1]]}

(* Mutant: the snapshot misses the last source.                            *)
SnapshotMissesLast ==
  /\ pc = "select"
  /\ \A w \in watch : w[1] \in open
  /\ \/ Events # {} \/ watch = {} \/ wait = "poll"
     \/ wait = "timed" /\ etime # "later"
  /\ actOcc' = [s \in Sources |->
       IF s \notin Reg \/ "immediate" \in actImp[s] THEN actOcc[s]
       ELSE actOcc[s] \union {act \in Acts : <<fd[s], act>> \in Events}]
  /\ frames' = [frames EXCEPT ![Len(frames)].rest = [k \in 1..(scard - 1) |-> slots[k]]]
  /\ watch' = {}
  /\ pc' = "batch"
  /\ UNCHANGED <<disp, id, actImp, fd, etime, kernel, wait, exc>>

(* Mutant: the sets that were passed to select() are tested, not those it  *)
(* returned.                                                               *)
SelectReportsWatched ==
  /\ pc = "select"
  /\ \A w \in watch : w[1] \in open
  /\ \/ Events # {} \/ watch = {} \/ wait = "poll"
     \/ wait = "timed" /\ etime # "later"
  /\ actOcc' = [s \in Sources |->
       IF s \notin Reg \/ "immediate" \in actImp[s] THEN actOcc[s]
       ELSE actOcc[s] \union {act \in Acts : <<fd[s], act>> \in watch}]
  /\ frames' = [frames EXCEPT ![Len(frames)].rest = [k \in 1..scard |-> slots[k]]]
  /\ watch' = {}
  /\ pc' = "batch"
  /\ UNCHANGED <<disp, id, actImp, fd, etime, kernel, wait, exc>>

SelectReturns ==
  /\ pc = "select"
  /\ \A w \in watch : w[1] \in open
  /\ \/ Events # {} \/ watch = {} \/ wait = "poll"
     \/ wait = "timed" /\ etime # "later"
  /\ \E stray \in SUBSET {w[2] : w \in Events} :
       actOcc' = [s \in Sources |->
         IF s \notin Reg \/ "immediate" \in actImp[s] THEN actOcc[s]
         ELSE actOcc[s] \union IF fd[s] = BadFd THEN stray
                               ELSE {act \in Acts : <<fd[s], act>> \in Events}]
  /\ frames' = [frames EXCEPT ![Len(frames)].rest = [k \in 1..scard |-> slots[k]]]
  /\ watch' = {}
  /\ pc' = "batch"
  /\ UNCHANGED <<disp, id, actImp, fd, etime, kernel, wait, exc>>
BadFdAborts ==
  /\ pc = "select"
  /\ \A w \in watch : w[1] \in open
  /\ \E s \in Reg : fd[s] = BadFd /\ "immediate" \notin actImp[s]
  /\ pc' = "crashed"
  /\ UNCHANGED <<disp, sources, etime, kernel, polling, frames, exc>>

-----------------------------------------------------------------------------
(* The batch: one step per source of the snapshot.                         *)

InBatch(s) == pc = "batch" /\ Top.rest # <<>> /\ s = Head(Top.rest)
NextInBatch == frames' = [frames EXCEPT ![Len(frames)].rest = Tail(@)]

(* The search for the id of s has no bound but "the array is not empty":   *)
(* it ends at a slot with that id, in use or not, and faults at an empty   *)
(* slot or past the end of the array.                                      *)
Found(s) ==
  /\ scard # 0
  /\ \E k \in 1..salloc :
       /\ \A j \in 1..k : slots[j] # NULL
       /\ id[slots[k]] = id[s]

SkipSource(s) ==
  /\ InBatch(s)
  /\ \/ actOcc[s] = {}
     \/ scard = 0
     \/ Found(s) /\ actImp[s] \intersect actOcc[s] = {}
  /\ NextInBatch
  /\ UNCHANGED <<disp, sources, etime, kernel, polling, pc, exc>>

SearchFaults(s) ==
  /\ InBatch(s)
  /\ actOcc[s] # {}
  /\ scard # 0
  /\ ~Found(s)
  /\ pc' = "crashed"
  /\ UNCHANGED <<disp, sources, etime, kernel, polling, frames, exc>>

(* Mutant: the acts that have occurred are not reset.                      *)
DispatchKeepsOcc(s) ==
  /\ InBatch(s)
  /\ Found(s)
  /\ actImp[s] \intersect actOcc[s] # {}
  /\ DispDelSource(s)
  /\ frames' = [frames EXCEPT ![Len(frames)] =
       [Top EXCEPT !.rest = Tail(@),
                   !.call = [src |-> s, actImp |-> actImp[s], actOcc |-> actOcc[s]]]]
  /\ id' = [id EXCEPT ![s] = -1]
  /\ actImp' = [actImp EXCEPT ![s] = {}]
  /\ pc' = "callback"
  /\ UNCHANGED <<actOcc, fd, etime, kernel, polling, exc>>

(* The source is unregistered and reset; its callback runs on a copy.      *)
Dispatch(s) ==
  /\ InBatch(s)
  /\ Found(s)
  /\ actImp[s] \intersect actOcc[s] # {}
  /\ DispDelSource(s)
  /\ frames' = [frames EXCEPT ![Len(frames)] =
       [Top EXCEPT !.rest = Tail(@),
                   !.call = [src |-> s, actImp |-> actImp[s], actOcc |-> actOcc[s]]]]
  /\ id' = [id EXCEPT ![s] = -1]
  /\ actImp' = [actImp EXCEPT ![s] = {}]
  /\ actOcc' = [actOcc EXCEPT ![s] = {}]
  /\ pc' = "callback"
  /\ UNCHANGED <<fd, etime, kernel, polling, exc>>

(* Mutants: only exit() ends the loop; exit() does not end it.             *)
EndBatchOnExit ==
  /\ pc = "batch"
  /\ Top.rest = <<>>
  /\ IF etime = "exit"
     THEN Return
     ELSE pc' = "loop" /\ UNCHANGED <<frames, exc>>
  /\ UNCHANGED <<disp, sources, etime, kernel, polling>>
EndBatchOnTime ==
  /\ pc = "batch"
  /\ Top.rest = <<>>
  /\ IF etime = "now"
     THEN Return
     ELSE pc' = "loop" /\ UNCHANGED <<frames, exc>>
  /\ UNCHANGED <<disp, sources, etime, kernel, polling>>

(* After the batch the clock is read: the loop goes on or work() returns.  *)
EndBatch ==
  /\ pc = "batch"
  /\ Top.rest = <<>>
  /\ IF etime \in {"now", "exit"}
     THEN Return
     ELSE pc' = "loop" /\ UNCHANGED <<frames, exc>>
  /\ UNCHANGED <<disp, sources, etime, kernel, polling>>

-----------------------------------------------------------------------------
(* The end of a callback (pyMarshaller) and of its error handling.         *)

CallEnds ==
  /\ frames' = [frames EXCEPT ![Len(frames)].call = NoCall]
  /\ pc' = "batch"

(* The callback returns 0.                                                 *)
ReturnZero ==
  /\ pc = "callback"
  /\ CallEnds
  /\ UNCHANGED <<disp, sources, etime, kernel, polling, exc>>

(* It returns 1: registered again, for the acts that have occurred.        *)
ReturnOne ==
  /\ pc = "callback"
  /\ LET s == Top.call.src IN
     /\ Careful("double", s \notin Reg)
     /\ Careful("dead", fd[s] # BadFd)
     /\ actImp' = [actImp EXCEPT ![s] = Top.call.actOcc]
     /\ DispAddSource(s)
  /\ CallEnds
  /\ UNCHANGED <<actOcc, fd, etime, kernel, polling, exc>>

(* It raises: dispHandleError asks the error handler what to keep.         *)
Raise(keep) ==
  /\ pc = "callback"
  /\ LET s == Top.call.src
         drop == "KEEP_DEF" \in keep /\ s \in DoClose /\ fd[s] # BadFd
     IN
     /\ Careful("raise", s \notin Reg)
     /\ fd' = IF drop THEN [fd EXCEPT ![s] = BadFd] ELSE fd
     /\ open' = IF drop THEN open \ {fd[s]} ELSE open
     /\ IF "KEEP_WORK" \in keep
        THEN CallEnds /\ exc' = ("KEEP_DEF" \in keep)
        ELSE Return
  /\ UNCHANGED <<disp, id, actImp, actOcc, etime, ready, polling>>

CallbackEnds == ReturnZero \/ ReturnOne \/ (\E keep \in OnErr : Raise(keep))

Dispatcher ==
  \/ ReturnEmpty \/ Poll \/ SelectFails \/ SelectReturns \/ BadFdAborts
  \/ \E s \in Sources : SkipSource(s) \/ SearchFaults(s) \/ Dispatch(s)
  \/ EndBatch

Next == Application \/ Environment \/ Dispatcher \/ CallbackEnds

Spec == Init /\ [][Next]_vars

(* The thread in work() keeps running and time passes.  A callback ends,   *)
(* returning 0 if nothing else, unless it waits forever in a call of work()*)
(* of its own: the strong fairness is for the callbacks that run work()    *)
(* again and again.  Nothing obliges an application to make a call, nor a  *)
(* descriptor to become ready.                                             *)
Fairness == WF_vars(Dispatcher) /\ SF_vars(CallbackEnds) /\ WF_vars(Tick)
FairSpec == Spec /\ Fairness

-----------------------------------------------------------------------------
(* Types.                                                                  *)

Points == {"idle", "loop", "select", "batch", "callback", "crashed"}
Frame == [rest : Seq(Sources),
          call : [src : Sources \union {NULL},
                  actImp : SUBSET Acts, actOcc : SUBSET Acts],
          limited : BOOLEAN]

(* Every variable has its type, the slots in use lie within the array and  *)
(* hold a source, and a call of work() is active unless the thread is      *)
(* outside of it (rpcDispAddSource, rpcDispDelSource, rpcDispWork).        *)
TypeOK ==
  /\ salloc \in Nat \ {0} /\ scard \in 0..salloc /\ maxid \in Nat \ {0}
  /\ slots \in [1..salloc -> Sources \union {NULL}]
  /\ etime \in {"never", "later", "now", "exit"}
  /\ id \in [Sources -> Int]
  /\ actImp \in [Sources -> SUBSET Acts]
  /\ actOcc \in [Sources -> SUBSET Acts]
  /\ fd \in [Sources -> Fds \union {BadFd}]
  /\ ready \in [Fds -> SUBSET Acts] /\ open \subseteq Fds
  /\ watch \subseteq Fds \X Acts /\ wait \in {"poll", "timed", "block"}
  /\ frames \in Seq(Frame) /\ pc \in Points /\ exc \in BOOLEAN

-----------------------------------------------------------------------------
(* Safety.                                                                 *)

(* The slots in use hold sources: growing, shifting and clearing the array *)
(* never leave a hole below scard, whatever the application does.          *)
ArraySound == \A k \in 1..scard : slots[k] \in Sources

(* An id stands for one registration: two slots in use never share an id,  *)
(* and a source that is not registered never keeps the id of one that is.  *)
(* The searches of rpcDispDelSource and rpcDispWork compare nothing else.  *)
IdsSound ==
  /\ \A k \in 1..scard : id[slots[k]] \in 1..(maxid - 1)
  /\ \A j, k \in 1..scard : id[slots[j]] = id[slots[k]] => j = k
  /\ \A s \in Sources \ Reg, k \in 1..scard : id[s] # id[slots[k]]

(* A source that a batch has yet to call is still registered, so that the  *)
(* search for it ends at its slot.                                         *)
PendingRegistered == Pending \subseteq Reg

(* The unbounded search of rpcDispWork never leaves the array, and select()*)
(* is never asked about a source without a descriptor.                     *)
NeverCrashes == pc # "crashed"

(* A callback never starts for a source that is not registered, or with    *)
(* none of the acts it waits for; and starting it leaves no registration   *)
(* of the source behind.                                                   *)
OneCallPerRegistration ==
  [][\A s \in Sources : Dispatch(s) => s \in Reg /\ s \notin Reg']_vars

(* A callback that is told its descriptor is ready finds it ready: no      *)
(* other callback of the batch, of a nested batch or of an earlier batch   *)
(* has consumed the event since select() reported it.  A source keeps an   *)
(* event of a batch that an error has ended, and through a deletion and a  *)
(* new registration: with the mistake "reread" such an event may be one    *)
(* that its callback, still running in an outer call of work(), has used.  *)
EventsFresh ==
  [][pc # "callback" /\ pc' = "callback" /\ Len(frames') = Len(frames) =>
       LET call == frames'[Len(frames')].call
       IN  call.actOcc \ {"immediate"} \subseteq ready[fd[call.src]]]_vars

(* work() without a timeout ends only when nothing is registered, when an  *)
(* error is raised, or after exit(): a stop time that an earlier call has  *)
(* left behind does not end it.                                            *)
UnlimitedWorkRunsOn ==
  [][frames # <<>> /\ ~Top.limited /\ EndBatch /\ pc' # "loop" =>
       etime = "exit"]_vars

-----------------------------------------------------------------------------
(* Liveness, under FairSpec.                                               *)

(* The program outside of work(), or at the end of one that has crashed.    *)
Ended == pc \in {"idle", "crashed"}
Waiting(s) ==
  /\ ~Ended
  /\ s \in Reg
  /\ fd[s] # BadFd
  /\ actImp[s] \intersect (ready[fd[s]] \union {"immediate"}) # {}

(* While work() runs, a registered source with an event it waits for does  *)
(* not wait forever, whatever mistakes the application makes: it is called *)
(* or unregistered, or work() ends.                                        *)
ReadyServed == \A s \in Sources : Waiting(s) ~> ~Waiting(s)

(* Once its stop time has come, work() returns to its caller.              *)
DeadlineEndsWork == (etime = "now" /\ ~Ended) ~> (Ended \/ etime # "now")

(* After exit(), work() returns to its caller.                             *)
ExitEndsWork == (etime = "exit" /\ ~Ended) ~> Ended

-----------------------------------------------------------------------------
(* The dispatcher implements the promise of EventLoop: its registrations   *)
(* are the slots in use, its running callbacks those of the active calls   *)
(* of work().                                                              *)
Running ==
  [n \in 1..(IF pc = "callback" THEN Len(frames) ELSE Len(frames) - 1) |->
     frames[n].call.src]
Promise == INSTANCE EventLoop WITH armed <- Reg, want <- actImp, running <- Running

(* Registrations are one-shot and callbacks nest, as EventLoop promises.   *)
ImplementsEventLoop == Promise!Spec
=============================================================================
