-------------------------- MODULE DispatcherProofs --------------------------
(***************************************************************************)
(* Proofs about Dispatcher, for every set of sources, every application    *)
(* and every depth of nested calls.                                        *)
(***************************************************************************)
EXTENDS Dispatcher, SequenceTheorems, TLAPS

(* A call of work() is active exactly when the thread is not outside, and  *)
(* every active call but the innermost is in a callback of some source; so *)
(* is the innermost when it is in a callback.  Returning to the caller of  *)
(* a nested call therefore returns into a callback.                        *)
FramesSound ==
  /\ pc = "idle" <=> frames = <<>>
  /\ \A n \in 1..Len(frames) :
       n < Len(frames) \/ pc = "callback" =>
         frames[n].call.src \in Sources /\ frames[n].call.actOcc # {}

TypeInv == TypeOK /\ ArraySound /\ FramesSound

-----------------------------------------------------------------------------
(* The library's Front drops the last element.                             *)
LEMMA FrontArithmetic ==
  \A n \in Nat \ {0} :
    /\ n - 1 \in Int
    /\ (IF 1 <= n - 1 THEN n - 1 - 1 + 1 ELSE 0) = n - 1
    /\ \A k \in 1..(n - 1) : k \in 1..(n - 1 - 1 + 1) /\ 1 + k - 1 = k
OBVIOUS

LEMMA FrontIsSeq ==
  ASSUME NEW S, NEW q \in Seq(S), q # <<>>
  PROVE  /\ Front(q) \in Seq(S)
         /\ Len(Front(q)) = Len(q) - 1
         /\ \A n \in 1..(Len(q) - 1) : Front(q)[n] = q[n]
<1> DEFINE n == Len(q)
<1>1. n \in Nat \ {0} /\ \A k \in 1..(n - 1) : q[k] \in S
  BY EmptySeq, LenProperties
<1>2. 1 \in Int /\ n - 1 \in Int
  BY <1>1, FrontArithmetic
<1> HIDE DEF n
<1>3. /\ SubSeq(q, 1, n - 1) \in Seq(S)
      /\ Len(SubSeq(q, 1, n - 1)) = IF 1 <= n - 1 THEN n - 1 - 1 + 1 ELSE 0
      /\ \A k \in 1..(n - 1 - 1 + 1) : SubSeq(q, 1, n - 1)[k] = q[1 + k - 1]
  BY <1>1, <1>2, SubSeqProperties
<1>4. Len(SubSeq(q, 1, n - 1)) = n - 1
  BY <1>1, <1>3, FrontArithmetic, Zenon
<1>5. \A k \in 1..(n - 1) : SubSeq(q, 1, n - 1)[k] = q[k]
  BY <1>1, <1>3, FrontArithmetic, Zenon
<1> QED BY <1>3, <1>4, <1>5, Zenon DEF n, Front

(* Returning from work() keeps the stack of calls sound: the frame below   *)
(* is one that is in a callback.                                           *)
LEMMA ReturnSound ==
  ASSUME TypeInv, frames # <<>>, Return
  PROVE  frames' \in Seq(Frame) /\ pc' \in Points /\ exc' \in BOOLEAN /\ FramesSound'
<1> USE DEF Return
<1>1. frames \in Seq(Frame) BY DEF TypeInv, TypeOK
<1>2. /\ frames' \in Seq(Frame) /\ Len(frames') = Len(frames) - 1
      /\ \A n \in 1..Len(frames') : frames'[n] = frames[n]
  BY <1>1, FrontIsSeq
<1>3. Len(frames) \in Nat /\ Len(frames) # 0
  BY <1>1, LenProperties, EmptySeq
<1>4. pc' = "idle" <=> frames' = <<>>
  BY <1>2, <1>3, LenProperties, EmptySeq
<1>5. \A n \in 1..Len(frames') : frames'[n].call.src \in Sources /\ frames'[n].call.actOcc # {}
  BY <1>2, <1>3 DEF TypeInv, FramesSound
<1> QED BY <1>2, <1>4, <1>5 DEF Points, FramesSound

(* Changing the innermost frame to another frame keeps the types.          *)
LEMMA TopFrame ==
  ASSUME TypeInv, frames # <<>>
  PROVE  /\ Len(frames) \in Nat \ {0}
         /\ Len(frames) \in DOMAIN frames /\ DOMAIN frames = 1..Len(frames)
         /\ Top \in Frame
         /\ \A n \in 1..Len(frames) : frames[n] \in Frame
BY LenProperties, EmptySeq, ElementOfSeq DEF TypeInv, TypeOK, Top

LEMMA NewTop ==
  ASSUME TypeInv, frames # <<>>, NEW f \in Frame,
         frames' = [frames EXCEPT ![Len(frames)] = f]
  PROVE  /\ frames' \in Seq(Frame) /\ Len(frames') = Len(frames) /\ frames' # <<>>
         /\ \A n \in 1..Len(frames) : frames'[n] = IF n = Len(frames) THEN f ELSE frames[n]
<1>1. frames \in Seq(Frame) /\ Len(frames) \in 1..Len(frames) /\ DOMAIN frames = 1..Len(frames)
  BY TopFrame DEF TypeInv, TypeOK
<1>2. frames' \in Seq(Frame) /\ Len(frames') = Len(frames)
  BY <1>1, ExceptSeq
<1> QED BY <1>1, <1>2, TopFrame, EmptySeq

-----------------------------------------------------------------------------
(* The array after a registration, and after a removal.                    *)
ArrayTypes ==
  /\ salloc \in Nat \ {0} /\ scard \in 0..salloc /\ maxid \in Nat \ {0}
  /\ slots \in [1..salloc -> Sources \union {NULL}]

LEMMA AddSourceTypes ==
  ASSUME TypeInv, NEW s \in Sources, DispAddSource(s)
  PROVE  ArrayTypes' /\ ArraySound' /\ id' \in [Sources -> Int]
<1> USE DEF TypeInv, TypeOK, ArraySound, DispAddSource, ArrayTypes
<1>1. salloc' \in Nat \ {0} /\ scard' \in 0..salloc' /\ maxid' \in Nat \ {0}
  OBVIOUS
<1>2. slots' \in [1..salloc' -> Sources \union {NULL}]
  BY <1>1
<1>3. \A k \in 1..scard' : slots'[k] \in Sources
  BY <1>1
<1> QED BY <1>1, <1>2, <1>3

LEMMA DelSourceTypes ==
  ASSUME TypeInv, NEW s \in Sources, DispDelSource(s)
  PROVE  ArrayTypes' /\ ArraySound'
<1> USE DEF TypeInv, TypeOK, ArraySound, ArrayTypes
<1>1. CASE Entries(s) = {}
  BY <1>1 DEF DispDelSource, disp
<1>2. CASE Entries(s) # {}
  <2> DEFINE f == First(Entries(s))
  <2>1. scard > 0
    BY <1>2 DEF Entries
  <2>2. /\ slots' = [k \in 1..salloc |->
                       IF k < f \/ k > scard THEN slots[k]
                       ELSE IF k < scard THEN slots[k + 1] ELSE NULL]
        /\ scard' = scard - 1 /\ salloc' = salloc /\ maxid' = maxid
    BY <1>2 DEF DispDelSource
  <2> HIDE DEF f
  <2> QED BY <2>1, <2>2
<1> QED BY <1>1, <1>2

(* What TypeOK says of the variables that are not part of the array.       *)
SourceTypes ==
  /\ id \in [Sources -> Int]
  /\ actImp \in [Sources -> SUBSET Acts]
  /\ actOcc \in [Sources -> SUBSET Acts]
  /\ fd \in [Sources -> Fds \union {BadFd}]
KernelTypes ==
  /\ ready \in [Fds -> SUBSET Acts] /\ open \subseteq Fds
  /\ watch \subseteq Fds \X Acts /\ wait \in {"poll", "timed", "block"}
  /\ etime \in {"never", "later", "now", "exit"}
LoopTypes == frames \in Seq(Frame) /\ pc \in Points /\ exc \in BOOLEAN

LEMMA TypeParts ==
  TypeInv <=> ArrayTypes /\ SourceTypes /\ KernelTypes /\ LoopTypes /\ ArraySound /\ FramesSound
BY DEF TypeInv, TypeOK, ArrayTypes, SourceTypes, KernelTypes, LoopTypes

LEMMA TypePartsNext ==
  ArrayTypes' /\ SourceTypes' /\ KernelTypes' /\ LoopTypes' /\ ArraySound' /\ FramesSound'
    => TypeInv'
BY DEF TypeInv, TypeOK, ArrayTypes, SourceTypes, KernelTypes, LoopTypes

(* The source that a callback runs for is one of the sources.              *)
LEMMA CalledSource ==
  ASSUME TypeInv, pc = "callback"
  PROVE  /\ frames # <<>> /\ Top.call.src \in Sources
         /\ Top.call.actOcc \in SUBSET Acts /\ Top.call.actOcc # {}
<1>1. frames # <<>> BY DEF TypeInv, FramesSound
<1> QED BY <1>1, TopFrame DEF TypeInv, FramesSound, Top, Frame

LEMMA InitTypes == Init => TypeInv
<1> SUFFICES ASSUME Init PROVE TypeInv OBVIOUS
<1> USE DEF Init
<1>1. ArrayTypes /\ ArraySound
  BY BoundsAssumption DEF ArrayTypes, ArraySound
<1>2. SourceTypes
  BY FdsAssumption DEF SourceTypes
<1>3. KernelTypes
  BY DEF KernelTypes
<1>4. LoopTypes
  BY EmptySeq DEF LoopTypes, Points
<1>5. FramesSound
  <2>1. Len(frames) = 0 BY EmptySeq
  <2> QED BY <2>1 DEF FramesSound
<1> QED BY <1>1, <1>2, <1>3, <1>4, <1>5, TypeParts

LEMMA ApplicationTypes ==
  ASSUME TypeInv, Application
  PROVE  TypeInv'
<1> USE DEF disp, sources, kernel, polling
<1>0. ArrayTypes /\ SourceTypes /\ KernelTypes /\ LoopTypes /\ ArraySound /\ FramesSound
  BY TypeParts
<1>1. ASSUME NEW s \in Sources, AddSource(s) PROVE TypeInv'
  <2>1. DispAddSource(s) BY <1>1 DEF AddSource
  <2>2. ArrayTypes' /\ ArraySound' /\ id' \in [Sources -> Int]
    BY <2>1, AddSourceTypes
  <2>3. SourceTypes' /\ KernelTypes' /\ LoopTypes' /\ FramesSound'
    BY <1>0, <1>1, <2>2 DEF AddSource, SourceTypes, KernelTypes, LoopTypes, FramesSound
  <2> QED BY <2>2, <2>3, TypePartsNext DEF ArrayTypes, ArraySound
<1>2. ASSUME NEW s \in Sources, DelSource(s) PROVE TypeInv'
  <2>1. DispDelSource(s) BY <1>2 DEF DelSource
  <2>2. ArrayTypes' /\ ArraySound'
    BY <2>1, DelSourceTypes
  <2>3. SourceTypes' /\ KernelTypes' /\ LoopTypes' /\ FramesSound'
    BY <1>0, <1>2 DEF DelSource, SourceTypes, KernelTypes, LoopTypes, FramesSound
  <2> QED BY <2>2, <2>3, TypePartsNext
<1>3. ASSUME NEW s \in Sources, NEW acts \in Interests, SetCallback(s, acts) PROVE TypeInv'
  <2>1. acts \in SUBSET Acts BY InterestsAssumption
  <2>2. SourceTypes'
    BY <1>0, <1>3, <2>1 DEF SetCallback, SourceTypes
  <2>3. ArrayTypes' /\ ArraySound' /\ KernelTypes' /\ LoopTypes' /\ FramesSound'
    BY <1>0, <1>3 DEF SetCallback, ArrayTypes, ArraySound, KernelTypes, LoopTypes, FramesSound
  <2> QED BY <2>2, <2>3, TypePartsNext
<1>4. ASSUME Close PROVE TypeInv'
  <2>1. ArrayTypes' /\ ArraySound'
    BY <1>0, <1>4 DEF Close, DispClear, ArrayTypes, ArraySound
  <2>2. SourceTypes' /\ KernelTypes' /\ LoopTypes' /\ FramesSound'
    BY <1>0, <1>4 DEF Close, SourceTypes, KernelTypes, LoopTypes, FramesSound
  <2> QED BY <2>1, <2>2, TypePartsNext
<1>5. ASSUME Exit PROVE TypeInv'
  BY <1>0, <1>5, TypePartsNext
     DEF Exit, ArrayTypes, ArraySound, SourceTypes, KernelTypes, LoopTypes, FramesSound
<1>6. ASSUME NEW limited \in BOOLEAN, Work(limited) PROVE TypeInv'
  <2>1. frames \in Seq(Frame) /\ Len(frames) \in Nat
    BY <1>0, LenProperties DEF LoopTypes
  <2>2. NewFrame(limited) \in Frame
    BY EmptySeq DEF NewFrame, NoCall, Frame
  <2>3. /\ frames' \in Seq(Frame) /\ frames' # <<>> /\ Len(frames') = Len(frames) + 1
        /\ \A n \in 1..Len(frames) : frames'[n] = frames[n]
    BY <1>6, <2>1, <2>2, AppendProperties DEF Work
  <2>4. \A n \in 1..Len(frames) : frames[n].call.src \in Sources /\ frames[n].call.actOcc # {}
    <3>1. CASE pc = "idle"
      BY <1>0, <3>1 DEF FramesSound
    <3>2. CASE pc = "callback"
      BY <1>0, <3>2 DEF FramesSound
    <3> QED BY <1>6, <3>1, <3>2 DEF Work
  <2>5. FramesSound'
    BY <1>6, <2>1, <2>3, <2>4 DEF Work, FramesSound
  <2>6. LoopTypes' /\ KernelTypes'
    BY <1>0, <1>6, <2>3 DEF Work, LoopTypes, KernelTypes, Points
  <2>7. ArrayTypes' /\ ArraySound' /\ SourceTypes'
    BY <1>0, <1>6 DEF Work, ArrayTypes, ArraySound, SourceTypes
  <2> QED BY <2>5, <2>6, <2>7, TypePartsNext
<1>7. ASSUME Consume PROVE TypeInv'
  <2>1. ready' \in [Fds -> SUBSET Acts]
    BY <1>0, <1>7, CalledSource DEF Consume, KernelTypes, SourceTypes
  <2>2. KernelTypes'
    BY <1>0, <1>7, <2>1 DEF Consume, KernelTypes
  <2>3. ArrayTypes' /\ ArraySound' /\ SourceTypes' /\ LoopTypes' /\ FramesSound'
    BY <1>0, <1>7 DEF Consume, ArrayTypes, ArraySound, SourceTypes, LoopTypes, FramesSound
  <2> QED BY <2>2, <2>3, TypePartsNext
<1> QED BY <1>1, <1>2, <1>3, <1>4, <1>5, <1>6, <1>7 DEF Application

LEMMA EnvironmentTypes ==
  ASSUME TypeInv, Environment
  PROVE  TypeInv'
<1> USE DEF disp, sources, kernel, polling
<1>0. ArrayTypes /\ SourceTypes /\ KernelTypes /\ LoopTypes /\ ArraySound /\ FramesSound
  BY TypeParts
<1>1. ASSUME NEW f \in Fds, NEW act \in UNION Interests \ {"immediate"}, BecomeReady(f, act)
      PROVE  TypeInv'
  <2>1. act \in Acts BY InterestsAssumption
  <2>2. KernelTypes'
    BY <1>0, <1>1, <2>1 DEF BecomeReady, KernelTypes
  <2>3. ArrayTypes' /\ ArraySound' /\ SourceTypes' /\ LoopTypes' /\ FramesSound'
    BY <1>0, <1>1 DEF BecomeReady, ArrayTypes, ArraySound, SourceTypes, LoopTypes, FramesSound
  <2> QED BY <2>2, <2>3, TypePartsNext
<1>2. ASSUME Tick PROVE TypeInv'
  BY <1>0, <1>2, TypePartsNext
     DEF Tick, ArrayTypes, ArraySound, SourceTypes, KernelTypes, LoopTypes, FramesSound
<1> QED BY <1>1, <1>2 DEF Environment

LEMMA DispatcherTypes ==
  ASSUME TypeInv, Dispatcher
  PROVE  TypeInv'
<1> USE DEF disp, sources, kernel, polling
<1>0. ArrayTypes /\ SourceTypes /\ KernelTypes /\ LoopTypes /\ ArraySound /\ FramesSound
  BY TypeParts
<1>1. ASSUME ReturnEmpty PROVE TypeInv'
  <2>1. frames # <<>> BY <1>0, <1>1 DEF ReturnEmpty, FramesSound
  <2>2. LoopTypes' /\ FramesSound'
    BY <1>1, <2>1, ReturnSound DEF ReturnEmpty, LoopTypes
  <2>3. ArrayTypes' /\ ArraySound' /\ SourceTypes' /\ KernelTypes'
    BY <1>0, <1>1 DEF ReturnEmpty, ArrayTypes, ArraySound, SourceTypes, KernelTypes
  <2> QED BY <2>2, <2>3, TypePartsNext
<1>2. ASSUME Poll PROVE TypeInv'
  <2>1. actOcc' \in [Sources -> SUBSET Acts]
    BY <1>0, <1>2 DEF Poll, SourceTypes
  <2>2. \A s \in Reg : Watched(s) \subseteq Fds \X Acts
    BY <1>0 DEF Watched, SourceTypes, Reg, ArraySound
  <2>3. watch' \subseteq Fds \X Acts
    BY <1>2, <2>2 DEF Poll
  <2>4. SourceTypes' /\ KernelTypes'
    BY <1>0, <1>2, <2>1, <2>3 DEF Poll, SourceTypes, KernelTypes
  <2>5. ArrayTypes' /\ ArraySound' /\ LoopTypes' /\ FramesSound'
    BY <1>0, <1>2 DEF Poll, ArrayTypes, ArraySound, LoopTypes, FramesSound, Points
  <2> QED BY <2>4, <2>5, TypePartsNext
<1>3. ASSUME SelectFails PROVE TypeInv'
  <2>1. frames # <<>> BY <1>0, <1>3 DEF SelectFails, FramesSound
  <2>2. LoopTypes' /\ FramesSound'
    BY <1>3, <2>1, ReturnSound DEF SelectFails, LoopTypes
  <2>3. ArrayTypes' /\ ArraySound' /\ SourceTypes' /\ KernelTypes'
    BY <1>0, <1>3 DEF SelectFails, ArrayTypes, ArraySound, SourceTypes, KernelTypes
  <2> QED BY <2>2, <2>3, TypePartsNext
<1>4. ASSUME SelectReturns PROVE TypeInv'
  <2> DEFINE batch == [k \in 1..scard |-> slots[k]]
  <2>1. batch \in Seq(Sources)
    <3>1. scard \in Nat BY <1>0 DEF ArrayTypes
    <3>2. \A k \in 1..scard : slots[k] \in Sources BY <1>0 DEF ArraySound
    <3> QED BY <3>1, <3>2, IsASeq
  <2>2. frames # <<>> BY <1>0, <1>4 DEF SelectReturns, FramesSound
  <2>3. frames' = [frames EXCEPT ![Len(frames)] = [Top EXCEPT !.rest = batch]]
    BY <1>4, <2>2, TopFrame DEF SelectReturns, Top
  <2>4. [Top EXCEPT !.rest = batch] \in Frame
    BY <2>1, <2>2, TopFrame DEF Frame
  <2>5. /\ frames' \in Seq(Frame) /\ Len(frames') = Len(frames) /\ frames' # <<>>
        /\ \A n \in 1..Len(frames) :
             frames'[n] = IF n = Len(frames) THEN [Top EXCEPT !.rest = batch] ELSE frames[n]
    BY <2>2, <2>3, <2>4, NewTop, Zenon
  <2>6. FramesSound'
    BY <1>0, <1>4, <2>2, <2>5, TopFrame DEF SelectReturns, FramesSound
  <2>7. actOcc' \in [Sources -> SUBSET Acts]
    <3>1. PICK stray \in SUBSET {w[2] : w \in Events} :
            actOcc' = [s \in Sources |->
              IF s \notin Reg \/ "immediate" \in actImp[s] THEN actOcc[s]
              ELSE actOcc[s] \union IF fd[s] = BadFd THEN stray
                                    ELSE {act \in Acts : <<fd[s], act>> \in Events}]
      BY <1>4 DEF SelectReturns
    <3>2. stray \subseteq Acts
      BY <1>0 DEF Events, KernelTypes
    <3> QED BY <1>0, <3>1, <3>2 DEF SourceTypes
  <2>8. ArrayTypes' /\ ArraySound' /\ SourceTypes' /\ KernelTypes' /\ LoopTypes'
    BY <1>0, <1>4, <2>5, <2>7
       DEF SelectReturns, ArrayTypes, ArraySound, SourceTypes, KernelTypes, LoopTypes, Points
  <2> QED BY <2>6, <2>8, TypePartsNext
<1>5. ASSUME BadFdAborts PROVE TypeInv'
  BY <1>0, <1>5, TypePartsNext
     DEF BadFdAborts, ArrayTypes, ArraySound, SourceTypes, KernelTypes, LoopTypes, FramesSound, Points
<1>6. ASSUME NEW s \in Sources, SearchFaults(s) PROVE TypeInv'
  BY <1>0, <1>6, TypePartsNext DEF SearchFaults, InBatch, ArrayTypes, ArraySound, SourceTypes,
                            KernelTypes, LoopTypes, FramesSound, Points
<1>7. ASSUME NEW s \in Sources, SkipSource(s) PROVE TypeInv'
  <2>1. frames # <<>> /\ Top.rest # <<>>
    BY <1>0, <1>7 DEF SkipSource, InBatch, FramesSound
  <2>2. frames' = [frames EXCEPT ![Len(frames)] = [Top EXCEPT !.rest = Tail(Top.rest)]]
    BY <1>7, <2>1, TopFrame DEF SkipSource, NextInBatch, Top
  <2>3. [Top EXCEPT !.rest = Tail(Top.rest)] \in Frame
    BY <2>1, TopFrame, HeadTailProperties DEF Frame
  <2>4. /\ frames' \in Seq(Frame) /\ Len(frames') = Len(frames) /\ frames' # <<>>
        /\ \A n \in 1..Len(frames) : frames'[n] =
             IF n = Len(frames) THEN [Top EXCEPT !.rest = Tail(Top.rest)] ELSE frames[n]
    BY <2>1, <2>2, <2>3, NewTop, Zenon
  <2>5. FramesSound'
    BY <1>0, <1>7, <2>1, <2>4, TopFrame DEF SkipSource, InBatch, FramesSound
  <2>6. ArrayTypes' /\ ArraySound' /\ SourceTypes' /\ KernelTypes' /\ LoopTypes'
    BY <1>0, <1>7, <2>4
       DEF SkipSource, ArrayTypes, ArraySound, SourceTypes, KernelTypes, LoopTypes
  <2> QED BY <2>5, <2>6, TypePartsNext
<1>8. ASSUME NEW s \in Sources, Dispatch(s) PROVE TypeInv'
  <2> DEFINE top == [Top EXCEPT !.rest = Tail(Top.rest),
                       !.call = [src |-> s, actImp |-> actImp[s], actOcc |-> actOcc[s]]]
  <2>1. frames # <<>> /\ Top.rest # <<>>
    BY <1>0, <1>8 DEF Dispatch, InBatch, FramesSound
  <2>2. frames' = [frames EXCEPT ![Len(frames)] = top]
    BY <1>8, <2>1, TopFrame DEF Dispatch, Top
  <2>3. /\ top \in Frame /\ top.call.src = s /\ top.call.actOcc = actOcc[s]
        /\ actOcc[s] # {}
    BY <1>0, <1>8, <2>1, TopFrame, HeadTailProperties DEF Dispatch, Frame, SourceTypes
  <2> HIDE DEF top
  <2>4. /\ frames' \in Seq(Frame) /\ Len(frames') = Len(frames) /\ frames' # <<>>
        /\ \A n \in 1..Len(frames) : frames'[n] = IF n = Len(frames) THEN top ELSE frames[n]
    BY <2>1, <2>2, <2>3, NewTop, Zenon
  <2>5. FramesSound'
    BY <1>0, <1>8, <2>1, <2>3, <2>4, TopFrame DEF Dispatch, FramesSound
  <2>6. ArrayTypes' /\ ArraySound'
    BY <1>8, DelSourceTypes DEF Dispatch
  <2>7. SourceTypes' /\ KernelTypes' /\ LoopTypes'
    BY <1>0, <1>8, <2>4 DEF Dispatch, SourceTypes, KernelTypes, LoopTypes, Points
  <2> QED BY <2>5, <2>6, <2>7, TypePartsNext
<1>9. ASSUME EndBatch PROVE TypeInv'
  <2>1. frames # <<>> BY <1>0, <1>9 DEF EndBatch, FramesSound
  <2>2. LoopTypes' /\ FramesSound'
    <3>1. CASE etime \in {"now", "exit"}
      BY <1>9, <2>1, <3>1, ReturnSound DEF EndBatch, LoopTypes
    <3>2. CASE etime \notin {"now", "exit"}
      BY <1>0, <1>9, <2>1, <3>2 DEF EndBatch, LoopTypes, FramesSound, Points
    <3> QED BY <3>1, <3>2
  <2>3. ArrayTypes' /\ ArraySound' /\ SourceTypes' /\ KernelTypes'
    BY <1>0, <1>9 DEF EndBatch, ArrayTypes, ArraySound, SourceTypes, KernelTypes
  <2> QED BY <2>2, <2>3, TypePartsNext
<1> QED BY <1>1, <1>2, <1>3, <1>4, <1>5, <1>6, <1>7, <1>8, <1>9 DEF Dispatcher

LEMMA CallEndsSound ==
  ASSUME TypeInv, pc = "callback", CallEnds
  PROVE  frames' \in Seq(Frame) /\ pc' \in Points /\ FramesSound'
<1> DEFINE top == [Top EXCEPT !.call = NoCall]
<1>1. frames # <<>> BY CalledSource
<1>2. frames' = [frames EXCEPT ![Len(frames)] = top]
  BY <1>1, TopFrame DEF CallEnds, Top
<1>3. top \in Frame
  BY <1>1, TopFrame DEF Frame, NoCall
<1> HIDE DEF top
<1>4. /\ frames' \in Seq(Frame) /\ Len(frames') = Len(frames) /\ frames' # <<>>
      /\ \A n \in 1..Len(frames) : frames'[n] = IF n = Len(frames) THEN top ELSE frames[n]
  BY <1>1, <1>2, <1>3, NewTop, Zenon
<1>5. FramesSound'
  BY <1>1, <1>4, TopFrame DEF TypeInv, FramesSound, CallEnds
<1> QED BY <1>4, <1>5 DEF CallEnds, Points

LEMMA CallbackEndsTypes ==
  ASSUME TypeInv, CallbackEnds
  PROVE  TypeInv'
<1> USE DEF disp, sources, kernel, polling
<1>0. ArrayTypes /\ SourceTypes /\ KernelTypes /\ LoopTypes /\ ArraySound /\ FramesSound
  BY TypeParts
<1>1. ASSUME ReturnZero PROVE TypeInv'
  <2>1. LoopTypes' /\ FramesSound'
    BY <1>0, <1>1, CallEndsSound DEF ReturnZero, LoopTypes
  <2>2. ArrayTypes' /\ ArraySound' /\ SourceTypes' /\ KernelTypes'
    BY <1>0, <1>1 DEF ReturnZero, ArrayTypes, ArraySound, SourceTypes, KernelTypes
  <2> QED BY <2>1, <2>2, TypePartsNext
<1>2. ASSUME ReturnOne PROVE TypeInv'
  <2> DEFINE s == Top.call.src
  <2>1. s \in Sources /\ Top.call.actOcc \in SUBSET Acts /\ DispAddSource(s)
    BY <1>2, CalledSource DEF ReturnOne
  <2>2. actImp' = [actImp EXCEPT ![s] = Top.call.actOcc]
    BY <1>2 DEF ReturnOne
  <2> HIDE DEF s
  <2>3. ArrayTypes' /\ ArraySound' /\ id' \in [Sources -> Int]
    BY <2>1, AddSourceTypes
  <2>4. SourceTypes' /\ KernelTypes'
    BY <1>0, <1>2, <2>1, <2>2, <2>3 DEF ReturnOne, SourceTypes, KernelTypes
  <2>5. LoopTypes' /\ FramesSound'
    BY <1>0, <1>2, CallEndsSound DEF ReturnOne, LoopTypes
  <2> QED BY <2>3, <2>4, <2>5, TypePartsNext
<1>3. ASSUME NEW keep \in OnErr, Raise(keep) PROVE TypeInv'
  <2>1. LoopTypes' /\ FramesSound'
    <3>1. CASE "KEEP_WORK" \in keep
      <4>1. CallEnds /\ exc' = ("KEEP_DEF" \in keep) /\ pc = "callback"
        BY <1>3, <3>1 DEF Raise
      <4>2. ("KEEP_DEF" \in keep) \in BOOLEAN OBVIOUS
      <4> QED BY <4>1, <4>2, CallEndsSound DEF LoopTypes
    <3>2. CASE "KEEP_WORK" \notin keep
      <4>1. Return /\ pc = "callback" BY <1>3, <3>2 DEF Raise
      <4> QED BY <4>1, CalledSource, ReturnSound DEF LoopTypes
    <3> QED BY <3>1, <3>2
  <2>2. ArrayTypes' /\ ArraySound'
    BY <1>0, <1>3 DEF Raise, ArrayTypes, ArraySound
  <2>3. SourceTypes' /\ KernelTypes'
    BY <1>0, <1>3 DEF Raise, SourceTypes, KernelTypes
  <2> QED BY <2>1, <2>2, <2>3, TypePartsNext
<1> QED BY <1>1, <1>2, <1>3 DEF CallbackEnds

LEMMA StutteringTypes ==
  ASSUME TypeInv, UNCHANGED vars
  PROVE  TypeInv'
BY TypeParts, TypePartsNext
   DEF vars, disp, sources, kernel, polling, ArrayTypes, ArraySound, SourceTypes,
       KernelTypes, LoopTypes, FramesSound

(* Whatever the application does, mistakes included, the variables keep    *)
(* their types, no slot in use is empty, and every nested call of work()   *)
(* returns into the callback that made it.                                 *)
THEOREM TypesInvariant == Spec => []TypeInv
<1>1. Init => TypeInv BY InitTypes
<1>2. TypeInv /\ [Next]_vars => TypeInv'
  BY ApplicationTypes, EnvironmentTypes, DispatcherTypes, CallbackEndsTypes, StutteringTypes
     DEF Next
<1> QED BY <1>1, <1>2, PTL DEF Spec

(* The type invariant of Dispatcher (rpcDispAddSource, rpcDispDelSource,   *)
(* rpcDispWork): a consequence of the stronger TypeInv.                    *)
THEOREM TypeCorrect == Spec => []TypeOK
BY TypesInvariant, PTL DEF TypeInv

(* The slots in use hold sources, whatever the application does.           *)
THEOREM ArrayCorrect == Spec => []ArraySound
BY TypesInvariant, PTL DEF TypeInv

-----------------------------------------------------------------------------
(***************************************************************************)
(* What a careful application may rely on, proved for every set of sources,*)
(* every size of the array and every depth of nested calls: which mistakes *)
(* of the application each safety property of Dispatcher excludes, and that*)
(* the dispatcher implements EventLoop.                                    *)
(***************************************************************************)
(* No id is given twice, an id that is not in use is below the next one,   *)
(* and a source fills at most one slot.                                    *)
IdInv ==
  /\ \A s \in Sources : id[s] < maxid
  /\ \A s, t \in Sources : id[s] = id[t] => s = t \/ id[s] = -1
  /\ \A k \in 1..scard : id[slots[k]] > 0
  /\ \A j, k \in 1..scard : slots[j] = slots[k] => j = k

(* The invariant of an application that registers no source twice.         *)
OnceInv == TypeInv /\ IdInv

-----------------------------------------------------------------------------
LEMMA IdInvIds ==
  ASSUME OnceInv
  PROVE  IdsSound
BY DEF OnceInv, IdInv, TypeInv, TypeOK, ArraySound, IdsSound, Reg

(* A registration adds its source to the registered ones, a removal takes  *)
(* it away and touches no other.                                           *)
LEMMA AddSourceReg ==
  ASSUME OnceInv, NEW s \in Sources, s \notin Reg, DispAddSource(s)
  PROVE  Reg' = Reg \union {s} /\ IdInv'
<1> USE DEF OnceInv, TypeInv, TypeOK, ArraySound, DispAddSource, Reg
<1>1. /\ scard' = scard + 1 /\ scard \in Nat /\ salloc' \in Nat /\ scard + 1 <= salloc'
      /\ scard <= salloc
  OBVIOUS
<1>2. \A k \in 1..scard : slots'[k] = slots[k]
  BY <1>1
<1>3. slots'[scard + 1] = s
  BY <1>1
<1>4. id' = [id EXCEPT ![s] = maxid] /\ maxid' = maxid + 1 /\ id \in [Sources -> Int]
  OBVIOUS
<1>5. Reg' = Reg \union {s}
  <2>1. \A k \in 1..scard' : k = scard + 1 \/ k \in 1..scard BY <1>1
  <2>2. Reg' \subseteq Reg \union {s} BY <1>2, <1>3, <2>1
  <2>3. Reg \subseteq Reg' /\ s \in Reg' BY <1>1, <1>2, <1>3
  <2> QED BY <2>2, <2>3
<1>6. (\A t \in Sources : id[t] < maxid)' 
  BY <1>4 DEF IdInv
<1>7. \A t, u \in Sources : id'[t] = id'[u] => t = u \/ id'[t] = -1
  BY <1>4 DEF IdInv
<1>8. \A k \in 1..scard' : id'[slots'[k]] > 0
  BY <1>1, <1>2, <1>3, <1>4 DEF IdInv
<1>9. \A j, k \in 1..scard' : slots'[j] = slots'[k] => j = k
  BY <1>1, <1>2, <1>3 DEF IdInv
<1> QED BY <1>5, <1>6, <1>7, <1>8, <1>9 DEF IdInv

LEMMA DelSourceReg ==
  ASSUME OnceInv, NEW s \in Sources, DispDelSource(s)
  PROVE  /\ Reg' = Reg \ {s} /\ maxid' = maxid
         /\ \A j, k \in (1..scard)' : slots'[j] = slots'[k] => j = k
<1> USE DEF OnceInv, TypeInv, TypeOK, ArraySound, Reg
<1>1. CASE s \notin Reg
  <2>1. Entries(s) = {} BY <1>1 DEF Entries, IdInv
  <2> QED BY <1>1, <2>1 DEF DispDelSource, disp, IdInv
<1>2. CASE s \in Reg
  <2>1. PICK p \in 1..scard : slots[p] = s BY <1>2
  <2>2. Entries(s) = {p} BY <2>1 DEF Entries, IdInv
  <2>3. First(Entries(s)) = p BY <2>1, <2>2 DEF First
  <2>4. /\ slots' = [k \in 1..salloc |->
                       IF k < p \/ k > scard THEN slots[k]
                       ELSE IF k < scard THEN slots[k + 1] ELSE NULL]
        /\ scard' = scard - 1 /\ maxid' = maxid
    BY <2>2, <2>3 DEF DispDelSource
  <2>5. \A k \in 1..(scard - 1) : slots'[k] = IF k < p THEN slots[k] ELSE slots[k + 1]
    BY <2>1, <2>4
  <2>6. \A j, k \in 1..(scard - 1) : slots'[j] = slots'[k] => j = k
    BY <2>1, <2>5 DEF IdInv
  <2>7. Reg' \subseteq Reg \ {s}
    <3>1. \A k \in 1..(scard - 1) : slots'[k] \in Reg /\ slots'[k] # s
      <4> SUFFICES ASSUME NEW k \in 1..(scard - 1)
                   PROVE  slots'[k] \in Reg /\ slots'[k] # s
        OBVIOUS
      <4>1. k \in 1..scard /\ k + 1 \in 1..scard BY <2>1
      <4>2. CASE k < p BY <2>1, <2>5, <4>1, <4>2 DEF IdInv
      <4>3. CASE ~(k < p)
        <5>1. slots'[k] = slots[k + 1] BY <2>5, <4>3
        <5>2. k + 1 # p BY <2>1, <4>3
        <5> QED BY <2>1, <4>1, <5>1, <5>2 DEF IdInv
      <4> QED BY <4>2, <4>3
    <3> QED BY <2>4, <3>1
  <2>8. ASSUME NEW k \in 1..scard, k # p PROVE slots[k] \in Reg'
    <3>1. CASE k < p BY <2>1, <2>4, <2>5, <3>1
    <3>2. CASE k > p
      <4>1. k - 1 \in 1..(scard - 1) /\ ~(k - 1 < p) /\ (k - 1) + 1 = k BY <2>1, <3>2
      <4>2. slots'[k - 1] = slots[k] BY <2>5, <4>1
      <4> QED BY <2>4, <4>1, <4>2
    <3> QED BY <2>8, <3>1, <3>2
  <2>9. Reg \ {s} \subseteq Reg' BY <2>1, <2>8
  <2> QED BY <2>4, <2>6, <2>7, <2>9
<1> QED BY <1>1, <1>2

(* A step that leaves the array and the ids alone keeps the invariant.     *)
LEMMA IdInvUnchanged ==
  ASSUME IdInv, UNCHANGED <<slots, scard, maxid, id>>
  PROVE  IdInv'
BY DEF IdInv

LEMMA IdInvStep ==
  ASSUME "double" \notin Careless, OnceInv, [Next]_vars
  PROVE  IdInv'
<1> USE DEF disp, sources, kernel, polling
<1>0. IdInv BY DEF OnceInv
<1>1. ASSUME NEW s \in Sources, AddSource(s) PROVE IdInv'
  <2>1. s \notin Reg /\ DispAddSource(s) BY <1>1 DEF AddSource, Careful
  <2> QED BY <2>1, AddSourceReg
<1>2. ASSUME NEW s \in Sources, DelSource(s) PROVE IdInv'
  <2>1. DispDelSource(s) /\ id' = id BY <1>2 DEF DelSource
  <2>2. /\ maxid' = maxid
        /\ \A k \in (1..scard)' : slots'[k] \in Reg
        /\ \A j, k \in (1..scard)' : slots'[j] = slots'[k] => j = k
    BY <2>1, DelSourceReg DEF Reg
  <2> QED BY <1>0, <2>1, <2>2 DEF IdInv, Reg
<1>3. ASSUME Close PROVE IdInv'
  BY <1>0, <1>3 DEF Close, DispClear, IdInv
<1>4. ASSUME NEW s \in Sources, Dispatch(s) PROVE IdInv'
  <2>1. /\ DispDelSource(s) /\ id' = [id EXCEPT ![s] = -1] /\ id \in [Sources -> Int]
        /\ maxid \in Nat
    BY <1>4 DEF Dispatch, OnceInv, TypeInv, TypeOK
  <2>2. /\ maxid' = maxid
        /\ \A k \in (1..scard)' : slots'[k] \in Reg /\ slots'[k] # s
        /\ \A j, k \in (1..scard)' : slots'[j] = slots'[k] => j = k
    BY <2>1, DelSourceReg DEF Reg
  <2>3. Reg \subseteq Sources BY DEF OnceInv, TypeInv, ArraySound, Reg
  <2>4. \A t \in Reg : id[t] > 0 BY <1>0 DEF IdInv, Reg
  <2>5. \A k \in (1..scard)' : id'[slots'[k]] > 0 BY <2>1, <2>2, <2>3, <2>4
  <2> QED BY <1>0, <2>1, <2>2, <2>5 DEF IdInv
<1>5. ASSUME ReturnOne PROVE IdInv'
  <2>1. /\ Top.call.src \in Sources /\ Top.call.src \notin Reg
        /\ DispAddSource(Top.call.src)
    BY <1>5, CalledSource DEF ReturnOne, Careful, OnceInv
  <2> QED BY <2>1, AddSourceReg
<1>6. ASSUME \/ \E s \in Sources, acts \in Interests : SetCallback(s, acts)
             \/ Exit \/ Consume \/ \E limited \in BOOLEAN : Work(limited)
             \/ Environment
             \/ ReturnEmpty \/ Poll \/ SelectFails \/ SelectReturns \/ BadFdAborts
             \/ \E s \in Sources : SkipSource(s) \/ SearchFaults(s)
             \/ EndBatch \/ ReturnZero
             \/ \E keep \in OnErr : Raise(keep)
             \/ UNCHANGED vars
      PROVE  IdInv'
  <2>1. UNCHANGED <<slots, scard, maxid, id>>
    BY <1>6 DEF SetCallback, Exit, Consume, Work, Environment, BecomeReady, Tick,
                ReturnEmpty, Poll, SelectFails, SelectReturns, BadFdAborts, SkipSource,
                SearchFaults, EndBatch, ReturnZero, Raise, vars
  <2> QED BY <1>0, <2>1, IdInvUnchanged
<1> QED BY <1>1, <1>2, <1>3, <1>4, <1>5, <1>6
        DEF Next, Application, Dispatcher, CallbackEnds

LEMMA OnceInvariant ==
  ASSUME "double" \notin Careless
  PROVE  Spec => []OnceInv
<1>1. Init => OnceInv
  BY InitTypes, BoundsAssumption DEF Init, OnceInv, IdInv
<1>2. OnceInv /\ [Next]_vars => OnceInv'
  BY IdInvStep, ApplicationTypes, EnvironmentTypes, DispatcherTypes, CallbackEndsTypes,
     StutteringTypes DEF Next, OnceInv
<1> QED BY <1>1, <1>2, PTL DEF Spec

(* The ids the dispatcher searches for stand for one registration each, as *)
(* long as no source is registered twice (rpcDispAddSource).               *)
THEOREM IdsCorrect ==
  ASSUME "double" \notin Careless
  PROVE  Spec => []IdsSound
BY OnceInvariant, IdInvIds, PTL

-----------------------------------------------------------------------------
LEMMA TailRange ==
  ASSUME NEW S, NEW q \in Seq(S), q # <<>>
  PROVE  Range(Tail(q)) \subseteq Range(q) /\ Head(q) \in Range(q)
<1>1. /\ Len(Tail(q)) = Len(q) - 1 /\ \A k \in 1..Len(Tail(q)) : Tail(q)[k] = q[k + 1]
      /\ DOMAIN Tail(q) = 1..Len(Tail(q)) /\ DOMAIN q = 1..Len(q) /\ Len(q) \in Nat
      /\ Len(q) # 0 /\ Head(q) = q[1]
  BY HeadTailProperties, LenProperties, EmptySeq
<1>2. \A k \in 1..Len(Tail(q)) : k + 1 \in 1..Len(q)
  BY <1>1
<1> QED BY <1>1, <1>2 DEF Range

(* Ending a call of work(), ending a callback, starting one and skipping a *)
(* source leave no more to look at than before.                            *)
LEMMA ReturnRest ==
  ASSUME TypeInv, frames # <<>>, Return
  PROVE  \A s : InRest(s)' => InRest(s)
<1>1. frames \in Seq(Frame) /\ Len(frames) \in Nat
  BY LenProperties DEF TypeInv, TypeOK
<1>2. Len(frames') = Len(frames) - 1 /\ \A n \in 1..(Len(frames) - 1) : frames'[n] = frames[n]
  BY <1>1, FrontIsSeq DEF Return
<1>3. \A n \in 1..Len(frames') : n \in 1..Len(frames) /\ frames'[n] = frames[n]
  BY <1>1, <1>2
<1> QED BY <1>3, Zenon DEF InRest

LEMMA NewTopRest ==
  ASSUME TypeInv, frames # <<>>, NEW f \in Frame,
         frames' = [frames EXCEPT ![Len(frames)] = f],
         Range(f.rest) \subseteq Range(Top.rest)
  PROVE  \A s : InRest(s)' => InRest(s)
<1>1. /\ Len(frames') = Len(frames)
      /\ \A n \in 1..Len(frames) : frames'[n] = IF n = Len(frames) THEN f ELSE frames[n]
  BY NewTop
<1>2. \A n \in 1..Len(frames) : Range(frames'[n].rest) \subseteq Range(frames[n].rest)
  BY <1>1, Zenon DEF Top
<1> QED BY <1>1, <1>2, Zenon DEF InRest

LEMMA CallEndsRest ==
  ASSUME TypeInv, pc = "callback", CallEnds
  PROVE  \A s : InRest(s)' => InRest(s)
<1> DEFINE f == [Top EXCEPT !.call = NoCall]
<1>1. frames # <<>> BY CalledSource
<1>2. frames' = [frames EXCEPT ![Len(frames)] = f]
  BY <1>1, TopFrame DEF CallEnds, Top
<1>3. f \in Frame /\ f.rest = Top.rest
  BY <1>1, TopFrame DEF Frame, NoCall
<1> HIDE DEF f
<1> QED BY <1>1, <1>2, <1>3, NewTopRest

LEMMA WorkRest ==
  ASSUME TypeInv, NEW limited \in BOOLEAN, Work(limited)
  PROVE  \A s : InRest(s)' => InRest(s)
<1>1. frames \in Seq(Frame) /\ Len(frames) \in Nat
  BY LenProperties DEF TypeInv, TypeOK
<1>2. NewFrame(limited) \in Frame /\ NewFrame(limited).rest = <<>>
  BY EmptySeq DEF NewFrame, NoCall, Frame
<1>3. /\ Len(frames') = Len(frames) + 1 /\ frames'[Len(frames) + 1] = NewFrame(limited)
      /\ \A n \in 1..Len(frames) : frames'[n] = frames[n]
  BY <1>1, <1>2, AppendProperties DEF Work
<1>4. Range(<<>>) = {} BY DEF Range
<1>5. \A n \in 1..Len(frames') :
        n \in 1..Len(frames) \/ Range(frames'[n].rest) = {}
  <2>1. \A n \in 1..Len(frames') : n \in 1..Len(frames) \/ n = Len(frames) + 1
    BY <1>1, <1>3
  <2> QED BY <1>2, <1>3, <1>4, <2>1
<1> QED BY <1>3, <1>5 DEF InRest

-----------------------------------------------------------------------------
(* One step of the program: what is left to look at comes from the array,  *)
(* events come to registered sources only, and a source that is pending is *)
(* unregistered only by the step that starts its callback.                 *)
LEMMA RestStep ==
  ASSUME TypeInv, [Next]_vars
  PROVE  \A s : InRest(s)' => InRest(s) \/ s \in Reg
<1>1. CASE UNCHANGED frames
  BY <1>1 DEF InRest
<1>2. ASSUME NEW limited \in BOOLEAN, Work(limited) PROVE \A s : InRest(s)' => InRest(s)
  BY <1>2, WorkRest
<1>3. CASE ReturnEmpty \/ SelectFails
  <2>1. Return /\ frames # <<>>
    BY <1>3 DEF ReturnEmpty, SelectFails, TypeInv, FramesSound
  <2> QED BY <2>1, ReturnRest
<1>4. CASE SelectReturns
  <2> DEFINE batch == [k \in 1..scard |-> slots[k]]
  <2>1. batch \in Seq(Sources)
    <3>1. scard \in Nat /\ \A k \in 1..scard : slots[k] \in Sources
      BY DEF TypeInv, TypeOK, ArraySound
    <3> QED BY <3>1, IsASeq
  <2>2. frames # <<>> BY <1>4 DEF SelectReturns, TypeInv, FramesSound
  <2>3. frames' = [frames EXCEPT ![Len(frames)] = [Top EXCEPT !.rest = batch]]
    BY <1>4, <2>2, TopFrame DEF SelectReturns, Top
  <2>4. [Top EXCEPT !.rest = batch] \in Frame /\ [Top EXCEPT !.rest = batch].rest = batch
    BY <2>1, <2>2, TopFrame DEF Frame
  <2>5. /\ Len(frames') = Len(frames)
        /\ \A n \in 1..Len(frames) :
             frames'[n] = IF n = Len(frames) THEN [Top EXCEPT !.rest = batch] ELSE frames[n]
    BY <2>2, <2>3, <2>4, NewTop, Zenon
  <2>6. Range(batch) = Reg BY DEF Range, Reg
  <2> QED BY <2>4, <2>5, <2>6, Zenon DEF InRest
<1>5. ASSUME NEW s \in Sources, SkipSource(s) \/ Dispatch(s)
      PROVE  \A t : InRest(t)' => InRest(t)
  <2> DEFINE call == IF SkipSource(s) THEN Top.call
                     ELSE [src |-> s, actImp |-> actImp[s], actOcc |-> actOcc[s]]
             f == [Top EXCEPT !.rest = Tail(Top.rest), !.call = call]
  <2>1. frames # <<>> /\ Top.rest # <<>>
    BY <1>5 DEF SkipSource, Dispatch, InBatch, TypeInv, FramesSound
  <2>2. frames' = [frames EXCEPT ![Len(frames)] = f]
    BY <1>5, <2>1, TopFrame DEF SkipSource, Dispatch, NextInBatch, Top, Frame
  <2>3. call \in [src : Sources \union {NULL}, actImp : SUBSET Acts, actOcc : SUBSET Acts]
    BY <2>1, TopFrame DEF Frame, TypeInv, TypeOK
  <2> HIDE DEF call
  <2>4. f \in Frame /\ f.rest = Tail(Top.rest)
    BY <2>1, <2>3, TopFrame, HeadTailProperties DEF Frame
  <2>5. Range(f.rest) \subseteq Range(Top.rest)
    <3>1. Top.rest \in Seq(Sources) BY <2>1, TopFrame DEF Frame
    <3> QED BY <2>1, <2>4, <3>1, TailRange
  <2> HIDE DEF f
  <2> QED BY <2>1, <2>2, <2>4, <2>5, NewTopRest
<1>6. CASE EndBatch
  <2>1. frames # <<>> BY <1>6 DEF EndBatch, TypeInv, FramesSound
  <2>2. Return \/ UNCHANGED frames BY <1>6 DEF EndBatch
  <2> QED BY <1>1, <2>1, <2>2, ReturnRest
<1>7. CASE ReturnZero \/ ReturnOne
  BY <1>7, CallEndsRest DEF ReturnZero, ReturnOne
<1>8. ASSUME NEW keep \in OnErr, Raise(keep) PROVE \A s : InRest(s)' => InRest(s)
  BY <1>8, CallEndsRest, ReturnRest, CalledSource DEF Raise
<1>9. CASE \/ \E s \in Sources : AddSource(s) \/ DelSource(s)
           \/ \E s \in Sources, acts \in Interests : SetCallback(s, acts)
           \/ Close \/ Exit \/ Consume \/ Environment
           \/ Poll \/ BadFdAborts \/ \E s \in Sources : SearchFaults(s)
           \/ UNCHANGED vars
  BY <1>1, <1>9 DEF AddSource, DelSource, SetCallback, Close, Exit, Consume, Environment,
     BecomeReady, Tick, Poll, BadFdAborts, SearchFaults, vars
<1> QED BY <1>2, <1>3, <1>4, <1>5, <1>6, <1>7, <1>8, <1>9
        DEF Next, Application, Dispatcher, CallbackEnds

LEMMA OccStep ==
  ASSUME TypeInv, [Next]_vars
  PROVE  \A s \in Sources : actOcc'[s] # {} => actOcc[s] # {} \/ s \in Reg
<1> USE DEF sources
<1>0. actOcc \in [Sources -> SUBSET Acts] BY DEF TypeInv, TypeOK
<1>1. CASE Poll
  BY <1>0, <1>1 DEF Poll
<1>2. CASE SelectReturns
  BY <1>0, <1>2 DEF SelectReturns
<1>3. ASSUME NEW s \in Sources, Dispatch(s)
      PROVE \A t \in Sources : actOcc'[t] # {} => actOcc[t] # {}
  BY <1>0, <1>3 DEF Dispatch
<1>4. CASE \/ Application \/ Environment \/ ReturnEmpty \/ SelectFails \/ BadFdAborts
           \/ \E s \in Sources : SkipSource(s) \/ SearchFaults(s)
           \/ EndBatch \/ CallbackEnds \/ UNCHANGED vars
  <2>1. UNCHANGED actOcc
    BY <1>4 DEF Application, Environment, AddSource, DelSource, SetCallback, Close, Exit,
       Work, Consume, BecomeReady, Tick, ReturnEmpty, SelectFails, BadFdAborts, SkipSource,
       SearchFaults, EndBatch, CallbackEnds, ReturnZero, ReturnOne, Raise, vars
  <2> QED BY <2>1
<1> QED BY <1>1, <1>2, <1>3, <1>4 DEF Next, Dispatcher

LEMMA RegStep ==
  ASSUME "double" \notin Careless, "delete" \notin Careless, OnceInv, [Next]_vars
  PROVE  \A s \in Reg : \/ s \in Reg' \/ actOcc'[s] = {}
                        \/ s \notin Pending /\ UNCHANGED <<frames, actOcc>>
<1> USE DEF disp, sources
<1>0. TypeInv /\ actOcc \in [Sources -> SUBSET Acts] BY DEF OnceInv, TypeInv, TypeOK
<1>1. ASSUME NEW s \in Sources, AddSource(s) PROVE Reg \subseteq Reg'
  <2>1. s \notin Reg /\ DispAddSource(s) BY <1>1 DEF AddSource, Careful
  <2> QED BY <2>1, AddSourceReg
<1>2. CASE ReturnOne
  <2>1. /\ Top.call.src \in Sources /\ Top.call.src \notin Reg
        /\ DispAddSource(Top.call.src)
    BY <1>0, <1>2, CalledSource DEF ReturnOne, Careful
  <2> QED BY <2>1, AddSourceReg
<1>3. ASSUME NEW s \in Sources, DelSource(s)
      PROVE  Reg \ {s} \subseteq Reg' /\ s \notin Pending /\ UNCHANGED <<frames, actOcc>>
  <2>1. DispDelSource(s) /\ s \notin Pending /\ UNCHANGED <<frames, actOcc>>
    BY <1>3 DEF DelSource, Careful
  <2> QED BY <2>1, DelSourceReg
<1>4. CASE Close
  BY <1>4 DEF Close, Careful
<1>5. ASSUME NEW s \in Sources, Dispatch(s) PROVE Reg \ {s} \subseteq Reg' /\ actOcc'[s] = {}
  <2>1. DispDelSource(s) /\ actOcc'[s] = {} BY <1>0, <1>5 DEF Dispatch
  <2> QED BY <2>1, DelSourceReg
<1>6. CASE \/ \E s \in Sources, acts \in Interests : SetCallback(s, acts)
           \/ Exit \/ Consume \/ \E limited \in BOOLEAN : Work(limited)
           \/ Environment
           \/ ReturnEmpty \/ Poll \/ SelectFails \/ SelectReturns \/ BadFdAborts
           \/ \E s \in Sources : SkipSource(s) \/ SearchFaults(s)
           \/ EndBatch \/ ReturnZero
           \/ \E keep \in OnErr : Raise(keep)
           \/ UNCHANGED vars
  <2>1. UNCHANGED <<slots, scard>>
    BY <1>6 DEF SetCallback, Exit, Consume, Work, Environment, BecomeReady, Tick,
                ReturnEmpty, Poll, SelectFails, SelectReturns, BadFdAborts, SkipSource,
                SearchFaults, EndBatch, ReturnZero, Raise, vars
  <2> QED BY <2>1 DEF Reg
<1> QED BY <1>1, <1>2, <1>3, <1>4, <1>5, <1>6
        DEF Next, Application, Dispatcher, CallbackEnds

LEMMA PendingStep ==
  ASSUME "double" \notin Careless, "delete" \notin Careless, OnceInv, PendingRegistered,
         [Next]_vars
  PROVE  PendingRegistered'
<1> SUFFICES ASSUME NEW s \in Sources, InRest(s)', actOcc'[s] # {}
             PROVE  s \in Reg'
  BY DEF PendingRegistered, Pending
<1>1. TypeInv BY DEF OnceInv
<1>2. s \in Reg
  BY <1>1, RestStep, OccStep DEF PendingRegistered, Pending
<1>3. ~(s \notin Pending /\ UNCHANGED <<frames, actOcc>>)
  <2> SUFFICES ASSUME UNCHANGED <<frames, actOcc>> PROVE s \in Pending OBVIOUS
  <2>1. InRest(s) BY DEF InRest
  <2> QED BY <2>1 DEF Pending
<1> QED BY <1>2, <1>3, RegStep

-----------------------------------------------------------------------------
(* What the array may hold after a registration or a removal, even when an *)
(* application registers a source twice.                                   *)
LEMMA AddSourceSubset ==
  ASSUME TypeInv, NEW s \in Sources, DispAddSource(s)
  PROVE  Reg' \subseteq Reg \union {s}
<1> USE DEF TypeInv, TypeOK, ArraySound, DispAddSource
<1>1. /\ \A k \in 1..scard' : k = scard + 1 \/ k \in 1..scard
      /\ \A k \in 1..scard' : k \in 1..salloc'
      /\ \A k \in 1..scard : k <= salloc /\ k # scard + 1
  OBVIOUS
<1>2. \A k \in 1..scard' : slots'[k] = IF k = scard + 1 THEN s ELSE slots[k]
  BY <1>1
<1> QED BY <1>1, <1>2 DEF Reg

LEMMA DelSourceSubset ==
  ASSUME TypeInv, NEW s \in Sources, DispDelSource(s)
  PROVE  Reg' \subseteq Reg
<1> USE DEF TypeInv, TypeOK, ArraySound, Reg
<1>1. CASE Entries(s) = {}
  BY <1>1 DEF DispDelSource, disp
<1>2. CASE Entries(s) # {}
  <2> DEFINE f == First(Entries(s))
  <2>1. /\ slots' = [k \in 1..salloc |->
                       IF k < f \/ k > scard THEN slots[k]
                       ELSE IF k < scard THEN slots[k + 1] ELSE NULL]
        /\ scard' = scard - 1
    BY <1>2 DEF DispDelSource
  <2> HIDE DEF f
  <2>2. \A k \in 1..(scard - 1) : k \in 1..scard /\ k + 1 \in 1..scard
    OBVIOUS
  <2>3. \A k \in 1..(scard - 1) : slots'[k] = slots[k] \/ slots'[k] = slots[k + 1]
    BY <2>1
  <2>4. \A k \in 1..(scard - 1) : slots'[k] \in Reg
    BY <2>2, <2>3, Zenon DEF Reg
  <2> QED BY <2>1, <2>4
<1> QED BY <1>1, <1>2

(* Registered sources have their descriptors.                              *)
HasDescriptor == \A s \in Reg : fd[s] # BadFd

LEMMA DescriptorStep ==
  ASSUME "dead" \notin Careless, "raise" \notin Careless, TypeInv, HasDescriptor, [Next]_vars
  PROVE  HasDescriptor'
<1> USE DEF disp, sources, HasDescriptor
<1>0. Reg \subseteq Sources /\ fd \in [Sources -> Fds \union {BadFd}]
  BY DEF TypeInv, TypeOK, ArraySound, Reg
<1>1. ASSUME NEW s \in Sources, AddSource(s) PROVE HasDescriptor'
  <2>1. fd[s] # BadFd /\ DispAddSource(s) /\ fd' = fd BY <1>1 DEF AddSource, Careful
  <2> QED BY <2>1, AddSourceSubset
<1>2. CASE ReturnOne
  <2>1. /\ Top.call.src \in Sources /\ fd[Top.call.src] # BadFd
        /\ DispAddSource(Top.call.src) /\ fd' = fd
    BY <1>2, CalledSource DEF ReturnOne, Careful
  <2> QED BY <2>1, AddSourceSubset
<1>3. ASSUME NEW s \in Sources, DelSource(s) \/ Dispatch(s) PROVE HasDescriptor'
  <2>1. DispDelSource(s) /\ fd' = fd BY <1>3 DEF DelSource, Dispatch
  <2> QED BY <2>1, DelSourceSubset
<1>4. CASE Close
  BY <1>4 DEF Close, DispClear, Reg
<1>5. ASSUME NEW keep \in OnErr, Raise(keep) PROVE HasDescriptor'
  <2>1. Top.call.src \notin Reg /\ UNCHANGED <<slots, scard>>
    BY <1>5 DEF Raise, Careful
  <2>2. \A s \in Sources : s = Top.call.src \/ fd'[s] = fd[s]
    BY <1>0, <1>5 DEF Raise
  <2> QED BY <1>0, <2>1, <2>2 DEF Reg
<1>6. CASE \/ \E s \in Sources, acts \in Interests : SetCallback(s, acts)
           \/ Exit \/ Consume \/ \E limited \in BOOLEAN : Work(limited)
           \/ Environment
           \/ ReturnEmpty \/ Poll \/ SelectFails \/ SelectReturns \/ BadFdAborts
           \/ \E s \in Sources : SkipSource(s) \/ SearchFaults(s)
           \/ EndBatch \/ ReturnZero \/ UNCHANGED vars
  <2>1. UNCHANGED <<slots, scard, fd>>
    BY <1>6 DEF SetCallback, Exit, Consume, Work, Environment, BecomeReady, Tick,
                ReturnEmpty, Poll, SelectFails, SelectReturns, BadFdAborts, SkipSource,
                SearchFaults, EndBatch, ReturnZero, vars
  <2> QED BY <2>1 DEF Reg
<1> QED BY <1>1, <1>2, <1>3, <1>4, <1>5, <1>6
        DEF Next, Application, Dispatcher, CallbackEnds

-----------------------------------------------------------------------------
LEMMA StepTypes ==
  ASSUME TypeInv, [Next]_vars
  PROVE  TypeInv'
BY ApplicationTypes, EnvironmentTypes, DispatcherTypes, CallbackEndsTypes, StutteringTypes
   DEF Next

LEMMA InitPending == Init => PendingRegistered /\ HasDescriptor /\ NeverCrashes
<1> SUFFICES ASSUME Init PROVE PendingRegistered /\ HasDescriptor /\ NeverCrashes OBVIOUS
<1>1. Pending = {} BY DEF Init, Pending
<1>2. Reg = {} BY DEF Init, Reg
<1> QED BY <1>1, <1>2 DEF PendingRegistered, HasDescriptor, NeverCrashes, Init

LEMMA PendingInvariant ==
  ASSUME "double" \notin Careless, "delete" \notin Careless
  PROVE  Spec => [](OnceInv /\ PendingRegistered)
<1>1. OnceInv /\ PendingRegistered /\ [Next]_vars => PendingRegistered'
  BY PendingStep
<1> QED BY <1>1, OnceInvariant, InitPending, PTL DEF Spec

(* A source that a batch has yet to call stays registered until its        *)
(* callback starts, through every other callback of the batch, nested calls*)
(* of work() and other threads' calls (rpcDispWork), unless the application*)
(* registers sources twice or deletes pending ones.                        *)
THEOREM PendingCorrect ==
  ASSUME "double" \notin Careless, "delete" \notin Careless
  PROVE  Spec => []PendingRegistered
BY PendingInvariant, PTL

(* So select() is never asked about a source without a descriptor: the     *)
(* application registers none, nor one that then fails.                    *)
LEMMA RegisteredHaveDescriptors ==
  ASSUME "dead" \notin Careless, "raise" \notin Careless
  PROVE  Spec => []HasDescriptor
<1>1. TypeInv /\ HasDescriptor /\ [Next]_vars => HasDescriptor'
  BY DescriptorStep
<1> QED BY <1>1, InitPending, TypesInvariant, PTL DEF Spec

(* A source in a batch is one of the sources.                              *)
LEMMA BatchSource ==
  ASSUME TypeInv, NEW s \in Sources, InBatch(s), actOcc[s] # {}
  PROVE  s \in Pending
<1>1. frames # <<>> /\ Top.rest # <<>> /\ s = Head(Top.rest)
  BY DEF InBatch, TypeInv, FramesSound
<1>2. Top.rest \in Seq(Sources) /\ Len(frames) \in 1..Len(frames)
  BY <1>1, TopFrame DEF Frame
<1>3. s \in Range(frames[Len(frames)].rest)
  BY <1>1, <1>2, TailRange DEF Top
<1> QED BY <1>2, <1>3 DEF Pending, InRest

(* The unbounded search of rpcDispWork ends at a slot in use, and FD_ISSET *)
(* is never given a descriptor that has been closed: a careful application *)
(* cannot crash the dispatcher.                                            *)
THEOREM CrashFree ==
  ASSUME Careless \subseteq {"reread"}
  PROVE  Spec => []NeverCrashes
<1>1. OnceInv /\ PendingRegistered /\ HasDescriptor /\ NeverCrashes /\ [Next]_vars => NeverCrashes'
  <2> SUFFICES ASSUME OnceInv, PendingRegistered, HasDescriptor, NeverCrashes, [Next]_vars
               PROVE  NeverCrashes'
    OBVIOUS
  <2>1. ASSUME NEW s \in Sources, SearchFaults(s) PROVE FALSE
    <3>1. s \in Reg
      BY <2>1, BatchSource DEF SearchFaults, PendingRegistered, OnceInv
    <3>2. PICK k \in 1..scard : slots[k] = s BY <3>1 DEF Reg
    <3>3. \A j \in 1..k : slots[j] # NULL
      BY <3>2, SourcesAssumption DEF OnceInv, TypeInv, TypeOK, ArraySound
    <3>4. k \in 1..salloc /\ scard # 0 BY <3>2 DEF OnceInv, TypeInv, TypeOK
    <3>5. Found(s) BY <3>2, <3>3, <3>4 DEF Found
    <3> QED BY <2>1, <3>5 DEF SearchFaults
  <2>2. CASE BadFdAborts
    BY <2>2 DEF BadFdAborts, HasDescriptor
  <2>3. CASE Application \/ Environment \/ ReturnEmpty \/ Poll \/ SelectFails \/ SelectReturns
             \/ (\E s \in Sources : SkipSource(s) \/ Dispatch(s))
             \/ EndBatch \/ CallbackEnds \/ UNCHANGED vars
    BY <2>3 DEF NeverCrashes, Application, Environment, AddSource, DelSource, SetCallback, Close,
       Exit, Work, Consume, BecomeReady, Tick, ReturnEmpty, Poll, SelectFails, SelectReturns,
       SkipSource, Dispatch, EndBatch, CallbackEnds, ReturnZero, ReturnOne, Raise, CallEnds,
       Return, vars
  <2> QED BY <2>1, <2>2, <2>3 DEF Next, Dispatcher
<1>2. "double" \notin Careless /\ "delete" \notin Careless
  OBVIOUS
<1>3. "dead" \notin Careless /\ "raise" \notin Careless
  OBVIOUS
<1>4. Spec => [](OnceInv /\ PendingRegistered)
  BY <1>2, PendingInvariant
<1>5. Spec => []HasDescriptor
  BY <1>3, RegisteredHaveDescriptors
<1> QED BY <1>1, <1>4, <1>5, InitPending, PTL DEF Spec

(* A callback starts for a registered source only, and its start is the end*)
(* of that registration (rpcDispWork, rpcDispDelSource).                   *)
THEOREM OneCallCorrect ==
  ASSUME "double" \notin Careless, "delete" \notin Careless
  PROVE  Spec => OneCallPerRegistration
<1>1. ASSUME OnceInv, PendingRegistered, NEW s \in Sources, Dispatch(s)
      PROVE  s \in Reg /\ s \notin Reg'
  <2>1. InBatch(s) /\ actOcc[s] # {} /\ DispDelSource(s)
    BY <1>1 DEF Dispatch
  <2>2. s \in Pending
    BY <1>1, <2>1, BatchSource DEF OnceInv
  <2> QED BY <1>1, <2>1, <2>2, DelSourceReg DEF PendingRegistered
<1>2. OnceInv /\ PendingRegistered /\ [Next]_vars =>
        [\A s \in Sources : Dispatch(s) => s \in Reg /\ s \notin Reg']_vars
  BY <1>1
<1> QED BY <1>2, PendingInvariant, PTL DEF Spec, OneCallPerRegistration

-----------------------------------------------------------------------------
(* The sources whose callbacks run when the calls of work() are q and the  *)
(* innermost is at p.                                                      *)
Depth(p, q) == IF p = "callback" \/ q = <<>> THEN Len(q) ELSE Len(q) - 1
Called(p, q) == [n \in 1..Depth(p, q) |-> q[n].call.src]
CallsSound(p, q) ==
  /\ q \in Seq(Frame)
  /\ \A n \in 1..Len(q) : n < Len(q) \/ p = "callback" => q[n].call.src \in Sources

LEMMA CalledList ==
  ASSUME NEW p, NEW q, CallsSound(p, q)
  PROVE  /\ Called(p, q) \in Seq(Sources)
         /\ Depth(p, q) \in Nat
         /\ Len(Called(p, q)) = Depth(p, q)
         /\ \A n \in 1..Depth(p, q) : Called(p, q)[n] = q[n].call.src
<1>1. Len(q) \in Nat /\ (q = <<>> <=> Len(q) = 0)
  BY LenProperties, EmptySeq DEF CallsSound
<1>2. Depth(p, q) \in Nat /\ \A n \in 1..Depth(p, q) : q[n].call.src \in Sources
  BY <1>1 DEF Depth, CallsSound
<1> QED BY <1>2, IsASeq DEF Called

LEMMA RunningIs ==
  ASSUME TypeInv
  PROVE  Running = Called(pc, frames) /\ CallsSound(pc, frames)
<1>1. /\ frames \in Seq(Frame) /\ Len(frames) \in Nat
      /\ frames = <<>> <=> Len(frames) = 0
      /\ pc = "callback" => frames # <<>>
  BY LenProperties, EmptySeq DEF TypeInv, TypeOK, FramesSound
<1>2. CallsSound(pc, frames)
  BY <1>1 DEF TypeInv, FramesSound, CallsSound
<1>3. (1..(IF pc = "callback" THEN Len(frames) ELSE Len(frames) - 1)) = 1..Depth(pc, frames)
  BY <1>1 DEF Depth
<1> QED BY <1>2, <1>3 DEF Running, Called

LEMMA RunningNext ==
  ASSUME TypeInv'
  PROVE  Running' = Called(pc', frames') /\ CallsSound(pc', frames')
<1>1. /\ frames' \in Seq(Frame) /\ Len(frames') \in Nat
      /\ frames' = <<>> <=> Len(frames') = 0
      /\ pc' = "callback" => frames' # <<>>
  BY LenProperties, EmptySeq DEF TypeInv, TypeOK, FramesSound
<1>2. CallsSound(pc', frames')
  BY <1>1 DEF TypeInv, FramesSound, CallsSound
<1>3. (1..(IF pc' = "callback" THEN Len(frames') ELSE Len(frames') - 1)) = 1..Depth(pc', frames')
  BY <1>1 DEF Depth
<1> QED BY <1>2, <1>3 DEF Running, Called

(* Two lists of calls agree if they are equally long and call the same.    *)
LEMMA SameCalled ==
  ASSUME NEW p, NEW q, NEW r, NEW t, CallsSound(p, q), CallsSound(r, t),
         Depth(r, t) = Depth(p, q),
         \A n \in 1..Depth(p, q) : t[n].call.src = q[n].call.src
  PROVE  Called(r, t) = Called(p, q)
BY DEF Called

LEMMA FrontCalled ==
  ASSUME NEW p, NEW q, NEW r, NEW t, CallsSound(p, q), CallsSound(r, t),
         Depth(p, q) = Depth(r, t) + 1,
         \A n \in 1..Depth(r, t) : t[n].call.src = q[n].call.src
  PROVE  /\ Called(p, q) # <<>>
         /\ Called(r, t) = Front(Called(p, q))
         /\ Last(Called(p, q)) = q[Depth(p, q)].call.src
<1> DEFINE m == Depth(r, t)  C == Called(p, q)  D == Called(r, t)
<1>1. /\ m \in Nat /\ C \in Seq(Sources) /\ Len(C) = m + 1
      /\ \A n \in 1..(m + 1) : C[n] = q[n].call.src
      /\ D \in Seq(Sources) /\ Len(D) = m
      /\ \A n \in 1..m : D[n] = t[n].call.src
  BY CalledList
<1> HIDE DEF m, C, D
<1>2. C # <<>> BY <1>1, EmptySeq
<1>3. Front(C) \in Seq(Sources) /\ Len(Front(C)) = m /\ \A n \in 1..m : Front(C)[n] = C[n]
  BY <1>1, <1>2, FrontIsSeq
<1>4. \A n \in 1..m : D[n] = C[n]
  BY <1>1 DEF m
<1>5. D = Front(C)
  BY <1>1, <1>3, <1>4, SeqEqual
<1>6. Last(C) = C[m + 1] BY <1>1 DEF Last
<1> QED BY <1>1, <1>2, <1>5, <1>6 DEF m, C, D

LEMMA AppendCalled ==
  ASSUME NEW p, NEW q, NEW r, NEW t, CallsSound(p, q), CallsSound(r, t),
         Depth(r, t) = Depth(p, q) + 1,
         \A n \in 1..Depth(p, q) : t[n].call.src = q[n].call.src
  PROVE  Called(r, t) = Append(Called(p, q), t[Depth(r, t)].call.src)
<1> DEFINE m == Depth(p, q)  C == Called(p, q)  D == Called(r, t)  e == t[m + 1].call.src
<1>1. /\ m \in Nat /\ C \in Seq(Sources) /\ Len(C) = m
      /\ \A n \in 1..m : C[n] = q[n].call.src
      /\ D \in Seq(Sources) /\ Len(D) = m + 1
      /\ \A n \in 1..(m + 1) : D[n] = t[n].call.src
  BY CalledList
<1>2. m + 1 \in 1..(m + 1) /\ D[m + 1] = e BY <1>1
<1>3. e \in Sources BY <1>1, <1>2, ElementOfSeq
<1>4. \A n \in 1..m : D[n] = C[n] BY <1>1
<1> HIDE DEF m, C, D, e
<1>5. /\ Append(C, e) \in Seq(Sources) /\ Len(Append(C, e)) = m + 1
      /\ \A n \in 1..m : Append(C, e)[n] = C[n]
      /\ Append(C, e)[m + 1] = e
  BY <1>1, <1>3, AppendProperties
<1>6. \A n \in 1..(m + 1) : n \in 1..m \/ n = m + 1 BY <1>1
<1>7. \A n \in 1..(m + 1) : D[n] = Append(C, e)[n]
  BY <1>2, <1>4, <1>5, <1>6
<1>8. D = Append(C, e)
  BY <1>1, <1>5, <1>7, SeqEqual
<1> QED BY <1>8 DEF m, C, D, e

(* What a step does to the running callbacks: nothing if the calls stay as *)
(* they are or work() starts, or returns while none of its callbacks runs; *)
(* a callback that ends leaves the others.                                 *)
LEMMA KeepsRunning ==
  ASSUME TypeInv, TypeInv', pc' = pc \/ "callback" \notin {pc, pc'},
         Len(frames') = Len(frames),
         \A n \in 1..Len(frames) : n < Len(frames) \/ pc = "callback" =>
           frames'[n].call.src = frames[n].call.src
  PROVE  Running' = Running
<1>1. /\ frames \in Seq(Frame) /\ Len(frames) \in Nat /\ (frames = <<>> <=> Len(frames) = 0)
      /\ frames' \in Seq(Frame) /\ (frames' = <<>> <=> Len(frames') = 0)
  BY LenProperties, EmptySeq DEF TypeInv, TypeOK
<1>2. Depth(pc', frames') = Depth(pc, frames)
  BY <1>1 DEF Depth
<1>3. \A n \in 1..Depth(pc, frames) : n \in 1..Len(frames) /\ (n < Len(frames) \/ pc = "callback")
  BY <1>1 DEF Depth
<1>4. \A n \in 1..Depth(pc, frames) : frames'[n].call.src = frames[n].call.src
  BY <1>3
<1> QED BY <1>2, <1>4, RunningIs, RunningNext, SameCalled

LEMMA ReturnRunning ==
  ASSUME TypeInv, TypeInv', frames # <<>>, Return
  PROVE  IF pc = "callback"
         THEN Running # <<>> /\ Running' = Front(Running)
         ELSE Running' = Running
<1>1. /\ frames \in Seq(Frame) /\ Len(frames) \in Nat \ {0}
      /\ frames' \in Seq(Frame) /\ Len(frames') = Len(frames) - 1
      /\ \A n \in 1..(Len(frames) - 1) : frames'[n] = frames[n]
  BY FrontIsSeq, LenProperties, EmptySeq DEF TypeInv, TypeOK, Return
<1>2. Depth(pc', frames') = Len(frames) - 1
  <2>1. frames' = <<>> <=> Len(frames') = 0 BY <1>1, EmptySeq
  <2> QED BY <1>1, <2>1 DEF Depth, Return
<1>3. CASE pc = "callback"
  <2>1. Depth(pc, frames) = Depth(pc', frames') + 1 BY <1>1, <1>2, <1>3 DEF Depth
  <2>2. \A n \in 1..Depth(pc', frames') : frames'[n].call.src = frames[n].call.src
    BY <1>1, <1>2
  <2> QED BY <1>3, <2>1, <2>2, RunningIs, RunningNext, FrontCalled
<1>4. CASE pc # "callback"
  <2>1. Depth(pc, frames) = Depth(pc', frames') BY <1>1, <1>2, <1>4 DEF Depth
  <2>2. \A n \in 1..Depth(pc, frames) : frames'[n].call.src = frames[n].call.src
    BY <1>1, <1>2, <2>1
  <2> QED BY <1>4, <2>1, <2>2, RunningIs, RunningNext, SameCalled
<1> QED BY <1>3, <1>4

LEMMA CallEndsRunning ==
  ASSUME TypeInv, TypeInv', pc = "callback", CallEnds
  PROVE  Running # <<>> /\ Running' = Front(Running) /\ Last(Running) = Top.call.src
<1> DEFINE f == [Top EXCEPT !.call = NoCall]
<1>1. frames # <<>> /\ Len(frames) \in Nat \ {0}
  BY CalledSource, TopFrame
<1>2. frames' = [frames EXCEPT ![Len(frames)] = f]
  BY <1>1, TopFrame DEF CallEnds, Top
<1>3. f \in Frame
  BY <1>1, TopFrame DEF Frame, NoCall
<1> HIDE DEF f
<1>4. /\ Len(frames') = Len(frames) /\ frames' # <<>>
      /\ \A n \in 1..Len(frames) : frames'[n] = IF n = Len(frames) THEN f ELSE frames[n]
  BY <1>1, <1>2, <1>3, NewTop
<1>5. Depth(pc, frames) = Len(frames) /\ Depth(pc', frames') = Len(frames) - 1
  BY <1>1, <1>4 DEF Depth, CallEnds
<1>6. \A n \in 1..Depth(pc', frames') : frames'[n].call.src = frames[n].call.src
  BY <1>1, <1>4, <1>5
<1>7. Depth(pc, frames) = Depth(pc', frames') + 1
  BY <1>1, <1>5
<1> QED BY <1>5, <1>6, <1>7, RunningIs, RunningNext, FrontCalled DEF Top

LEMMA WorkRunning ==
  ASSUME TypeInv, TypeInv', NEW limited \in BOOLEAN, Work(limited)
  PROVE  Running' = Running
<1>1. frames \in Seq(Frame) /\ Len(frames) \in Nat /\ (frames = <<>> <=> Len(frames) = 0)
  BY LenProperties, EmptySeq DEF TypeInv, TypeOK
<1>2. NewFrame(limited) \in Frame
  BY EmptySeq DEF NewFrame, NoCall, Frame
<1>3. /\ Len(frames') = Len(frames) + 1 /\ frames' # <<>>
      /\ \A n \in 1..Len(frames) : frames'[n] = frames[n]
  BY <1>1, <1>2, AppendProperties DEF Work
<1>4. Depth(pc, frames) = Len(frames) /\ Depth(pc', frames') = Len(frames)
  BY <1>1, <1>3 DEF Depth, Work, TypeInv, FramesSound
<1> QED BY <1>3, <1>4, RunningIs, RunningNext, SameCalled

LEMMA DispatchRunning ==
  ASSUME TypeInv, TypeInv', NEW s \in Sources, Dispatch(s)
  PROVE  Running' = Append(Running, s)
<1> DEFINE call == [src |-> s, actImp |-> actImp[s], actOcc |-> actOcc[s]]
           f == [Top EXCEPT !.rest = Tail(Top.rest), !.call = call]
<1>1. frames # <<>> /\ Top.rest # <<>> /\ Len(frames) \in Nat \ {0} /\ pc = "batch"
  BY TopFrame DEF Dispatch, InBatch, TypeInv, FramesSound
<1>2. frames' = [frames EXCEPT ![Len(frames)] = f]
  BY <1>1, TopFrame DEF Dispatch, Top, Frame
<1>3. call \in [src : Sources \union {NULL}, actImp : SUBSET Acts, actOcc : SUBSET Acts]
  BY DEF TypeInv, TypeOK
<1>4. call.src = s OBVIOUS
<1> HIDE DEF call
<1>5. f \in Frame /\ f.call = call
  BY <1>1, <1>3, TopFrame, HeadTailProperties DEF Frame
<1> HIDE DEF f
<1>6. /\ Len(frames') = Len(frames) /\ frames' # <<>>
      /\ \A n \in 1..Len(frames) : frames'[n] = IF n = Len(frames) THEN f ELSE frames[n]
  BY <1>1, <1>2, <1>5, NewTop
<1>7. Depth(pc, frames) = Len(frames) - 1 /\ Depth(pc', frames') = Len(frames)
  BY <1>1, <1>6 DEF Depth, Dispatch
<1>8. \A n \in 1..Depth(pc, frames) : frames'[n].call.src = frames[n].call.src
  BY <1>1, <1>6, <1>7
<1>9. frames'[Depth(pc', frames')].call.src = s /\ Depth(pc', frames') = Depth(pc, frames) + 1
  BY <1>1, <1>4, <1>5, <1>6, <1>7
<1> QED BY <1>8, <1>9, RunningIs, RunningNext, AppendCalled
-----------------------------------------------------------------------------
(* Each step of the dispatcher is a step of the promise, or none.          *)
LEMMA PromiseFinish ==
  ASSUME Running # <<>>, Running' = Front(Running), UNCHANGED <<slots, scard, actImp>>
  PROVE  Promise!Next
BY DEF Promise!Next, Promise!Finish, Promise!Front, Front, Reg

LEMMA PromiseSame ==
  ASSUME Running' = Running, UNCHANGED <<slots, scard, actImp>>
  PROVE  UNCHANGED Promise!vars
BY DEF Promise!vars, Reg

LEMMA ApplicationPromise ==
  ASSUME OnceInv, TypeInv', Application, "double" \notin Careless
  PROVE  [Promise!Next]_(Promise!vars)
<1> USE DEF disp, sources, kernel, polling
<1>0. TypeInv /\ Reg \subseteq Sources /\ Reg' \subseteq Sources
  BY DEF OnceInv, TypeInv, ArraySound, Reg
<1>1. ASSUME UNCHANGED <<frames, pc>> PROVE Running' = Running
  BY <1>1 DEF Running
<1>2. ASSUME NEW s \in Sources, AddSource(s) PROVE Promise!Next
  <2>1. /\ actImp[s] # {} /\ Running' = Running /\ actImp' = actImp
        /\ s \notin Reg /\ DispAddSource(s)
    BY <1>1, <1>2 DEF AddSource, Careful
  <2>2. Reg' = Reg \union {s} BY <2>1, AddSourceReg
  <2>3. Promise!Arm(s) BY <2>1, <2>2 DEF Promise!Arm
  <2> QED BY <2>3 DEF Promise!Next
<1>3. ASSUME NEW s \in Sources, DelSource(s) PROVE Promise!Next
  <2>1. Running' = Running /\ actImp' = actImp /\ DispDelSource(s)
    BY <1>1, <1>3 DEF DelSource
  <2>2. Reg' = Reg \ {s} BY <2>1, DelSourceReg
  <2>3. Promise!Disarm({s}) BY <2>1, <2>2 DEF Promise!Disarm
  <2> QED BY <2>3 DEF Promise!Next
<1>4. ASSUME NEW s \in Sources, NEW acts \in Interests, SetCallback(s, acts) PROVE Promise!Next
  <2>1. Running' = Running /\ Reg' = Reg /\ actImp' = [actImp EXCEPT ![s] = acts]
    BY <1>1, <1>4 DEF SetCallback, Reg
  <2>2. Promise!Want(s, acts) BY <2>1 DEF Promise!Want
  <2>3. acts \in SUBSET Acts BY InterestsAssumption
  <2> QED BY <2>2, <2>3 DEF Promise!Next
<1>5. ASSUME Close PROVE Promise!Next
  <2>1. Running' = Running /\ actImp' = actImp /\ Reg' = {}
    BY <1>1, <1>5 DEF Close, DispClear, Reg
  <2>2. Promise!Disarm(Reg) BY <2>1 DEF Promise!Disarm
  <2> QED BY <1>0, <2>2 DEF Promise!Next
<1>6. ASSUME NEW limited \in BOOLEAN, Work(limited) PROVE UNCHANGED Promise!vars
  <2>1. UNCHANGED <<slots, scard, actImp>> BY <1>6 DEF Work
  <2> QED BY <1>0, <1>6, <2>1, WorkRunning, PromiseSame
<1>7. CASE Exit \/ Consume
  <2>1. UNCHANGED <<slots, scard, actImp, frames, pc>> BY <1>7 DEF Exit, Consume
  <2> QED BY <1>1, <2>1, PromiseSame
<1> QED BY <1>2, <1>3, <1>4, <1>5, <1>6, <1>7 DEF Application

LEMMA DispatcherPromise ==
  ASSUME OnceInv, PendingRegistered, TypeInv', Dispatcher
  PROVE  [Promise!Next]_(Promise!vars)
<1> USE DEF disp, sources, kernel, polling
<1>0. TypeInv BY DEF OnceInv
<1>1. CASE ReturnEmpty \/ SelectFails
  <2>1. /\ Return /\ frames # <<>> /\ pc # "callback" /\ UNCHANGED <<slots, scard, actImp>>
    BY <1>1 DEF ReturnEmpty, SelectFails, OnceInv, TypeInv, FramesSound
  <2> QED BY <1>0, <2>1, ReturnRunning, PromiseSame
<1>2. CASE Poll \/ BadFdAborts \/ \E s \in Sources : SearchFaults(s)
  <2>1. /\ UNCHANGED <<slots, scard, actImp, frames>> /\ "callback" \notin {pc, pc'}
    BY <1>2 DEF Poll, BadFdAborts, SearchFaults, InBatch
  <2>2. Running' = Running BY <1>0, <2>1, KeepsRunning
  <2> QED BY <2>1, <2>2, PromiseSame
<1>3. CASE SelectReturns
  <2> DEFINE batch == [k \in 1..scard |-> slots[k]]
             f == [Top EXCEPT !.rest = batch]
  <2>1. batch \in Seq(Sources)
    <3>1. scard \in Nat /\ \A k \in 1..scard : slots[k] \in Sources
      BY <1>0 DEF TypeInv, TypeOK, ArraySound
    <3> QED BY <3>1, IsASeq
  <2>2. frames # <<>> BY <1>3, <1>0 DEF SelectReturns, TypeInv, FramesSound
  <2>3. frames' = [frames EXCEPT ![Len(frames)] = f]
    BY <1>0, <1>3, <2>2, TopFrame DEF SelectReturns, Top
  <2>4. f \in Frame /\ f.call = Top.call
    BY <1>0, <2>1, <2>2, TopFrame DEF Frame
  <2> HIDE DEF f
  <2>5. /\ Len(frames') = Len(frames)
        /\ \A n \in 1..Len(frames) : frames'[n] = IF n = Len(frames) THEN f ELSE frames[n]
    BY <1>0, <2>2, <2>3, <2>4, NewTop
  <2>6. \A n \in 1..Len(frames) : frames'[n].call.src = frames[n].call.src
    BY <2>4, <2>5 DEF Top
  <2>7. "callback" \notin {pc, pc'} /\ UNCHANGED <<slots, scard, actImp>>
    BY <1>3 DEF SelectReturns
  <2>8. Running' = Running BY <1>0, <2>5, <2>6, <2>7, KeepsRunning
  <2> QED BY <2>7, <2>8, PromiseSame
<1>4. ASSUME NEW s \in Sources, SkipSource(s) PROVE UNCHANGED Promise!vars
  <2> DEFINE f == [Top EXCEPT !.rest = Tail(Top.rest)]
  <2>1. frames # <<>> /\ Top.rest # <<>>
    BY <1>0, <1>4 DEF SkipSource, InBatch, TypeInv, FramesSound
  <2>2. frames' = [frames EXCEPT ![Len(frames)] = f]
    BY <1>0, <1>4, <2>1, TopFrame DEF SkipSource, NextInBatch, Top
  <2>3. f \in Frame /\ f.call = Top.call
    BY <1>0, <2>1, TopFrame, HeadTailProperties DEF Frame
  <2> HIDE DEF f
  <2>4. /\ Len(frames') = Len(frames)
        /\ \A n \in 1..Len(frames) : frames'[n] = IF n = Len(frames) THEN f ELSE frames[n]
    BY <1>0, <2>1, <2>2, <2>3, NewTop
  <2>5. \A n \in 1..Len(frames) : frames'[n].call.src = frames[n].call.src
    BY <2>3, <2>4 DEF Top
  <2>6. pc' = pc /\ UNCHANGED <<slots, scard, actImp>>
    BY <1>4 DEF SkipSource
  <2>7. Running' = Running BY <1>0, <2>4, <2>5, <2>6, KeepsRunning
  <2> QED BY <2>6, <2>7, PromiseSame
<1>5. ASSUME NEW s \in Sources, Dispatch(s) PROVE Promise!Next
  <2>1. /\ InBatch(s) /\ actOcc[s] # {} /\ actImp[s] # {} /\ DispDelSource(s)
        /\ actImp' = [actImp EXCEPT ![s] = {}]
    BY <1>5 DEF Dispatch
  <2>2. s \in Reg BY <1>0, <2>1, BatchSource DEF PendingRegistered
  <2>3. Reg' = Reg \ {s} BY <2>1, DelSourceReg
  <2>4. Running' = Append(Running, s) BY <1>0, <1>5, DispatchRunning
  <2>5. Promise!Fire(s) BY <2>1, <2>2, <2>3, <2>4 DEF Promise!Fire
  <2> QED BY <2>5 DEF Promise!Next
<1>6. CASE EndBatch
  <2>1. UNCHANGED <<slots, scard, actImp>> /\ frames # <<>> /\ pc = "batch"
    BY <1>0, <1>6 DEF EndBatch, TypeInv, FramesSound
  <2>2. CASE Return
    BY <1>0, <2>1, <2>2, ReturnRunning, PromiseSame
  <2>3. CASE pc' = "loop" /\ UNCHANGED frames
    <3>1. Running' = Running BY <1>0, <2>1, <2>3, KeepsRunning
    <3> QED BY <2>1, <3>1, PromiseSame
  <2> QED BY <1>6, <2>2, <2>3 DEF EndBatch
<1> QED BY <1>1, <1>2, <1>3, <1>4, <1>5, <1>6 DEF Dispatcher

LEMMA CallbackPromise ==
  ASSUME OnceInv, TypeInv', CallbackEnds, "double" \notin Careless
  PROVE  [Promise!Next]_(Promise!vars)
<1> USE DEF disp, sources, kernel, polling
<1>0. TypeInv BY DEF OnceInv
<1>1. CASE ReturnZero
  <2>1. pc = "callback" /\ CallEnds /\ UNCHANGED <<slots, scard, actImp>>
    BY <1>1 DEF ReturnZero
  <2> QED BY <1>0, <2>1, CallEndsRunning, PromiseFinish
<1>2. CASE ReturnOne
  <2> DEFINE s == Top.call.src
  <2>1. /\ pc = "callback" /\ CallEnds /\ s \notin Reg /\ DispAddSource(s)
        /\ actImp' = [actImp EXCEPT ![s] = Top.call.actOcc]
    BY <1>2 DEF ReturnOne, Careful
  <2>2. s \in Sources /\ Top.call.actOcc \in SUBSET Acts /\ Top.call.actOcc # {}
    BY <1>0, <2>1, CalledSource
  <2>3. Running # <<>> /\ Running' = Front(Running) /\ Last(Running) = s
    BY <1>0, <2>1, CallEndsRunning
  <2> HIDE DEF s
  <2>4. Reg' = Reg \union {s} BY <2>1, <2>2, AddSourceReg
  <2>5. Promise!Reinstall(Top.call.actOcc)
    BY <2>1, <2>2, <2>3, <2>4 DEF Promise!Reinstall, Promise!Front, Promise!Last, Front, Last
  <2> QED BY <2>2, <2>5 DEF Promise!Next
<1>3. ASSUME NEW keep \in OnErr, Raise(keep) PROVE Promise!Next
  <2>1. pc = "callback" /\ UNCHANGED <<slots, scard, actImp>> /\ (CallEnds \/ Return)
    BY <1>3 DEF Raise
  <2>2. frames # <<>> BY <1>0, <2>1, CalledSource
  <2>3. Running # <<>> /\ Running' = Front(Running)
    BY <1>0, <2>1, <2>2, CallEndsRunning, ReturnRunning
  <2> QED BY <2>1, <2>3, PromiseFinish
<1> QED BY <1>1, <1>2, <1>3 DEF CallbackEnds

LEMMA StepPromise ==
  ASSUME "double" \notin Careless, OnceInv, PendingRegistered, [Next]_vars
  PROVE  [Promise!Next]_(Promise!vars)
<1>0. TypeInv /\ TypeInv' BY StepTypes DEF OnceInv
<1>1. CASE Environment \/ UNCHANGED vars
  <2>1. UNCHANGED <<slots, scard, actImp, frames, pc>>
    BY <1>1 DEF Environment, BecomeReady, Tick, vars, disp, sources
  <2>2. Running' = Running BY <2>1 DEF Running
  <2> QED BY <2>1, <2>2, PromiseSame
<1> QED BY <1>0, <1>1, ApplicationPromise, DispatcherPromise, CallbackPromise DEF Next

LEMMA InitPromise == Init => Promise!Init
<1> SUFFICES ASSUME Init PROVE Promise!Init OBVIOUS
<1>1. Reg = {} /\ actImp = [s \in Sources |-> {}] BY DEF Init, Reg
<1>2. Running = <<>>
  <2>1. TypeInv /\ pc = "idle" /\ frames = <<>> BY InitTypes DEF Init
  <2>2. Len(frames) = 0 BY <2>1, EmptySeq
  <2>3. Running = Called(pc, frames) /\ CallsSound(pc, frames) BY <2>1, RunningIs
  <2>4. Depth(pc, frames) = 0 BY <2>1, <2>2 DEF Depth
  <2>5. Running \in Seq(Sources) /\ Len(Running) = 0 BY <2>3, <2>4, CalledList
  <2> QED BY <2>5, EmptySeq
<1> QED BY <1>1, <1>2 DEF Promise!Init

(* The dispatcher keeps the promise of EventLoop: registrations are        *)
(* one-shot, callbacks start for registered sources only and nest as a     *)
(* stack, whatever the depth of nested calls of work() and whatever other  *)
(* threads do (rpcDispWork, rpcDispAddSource, rpcDispDelSource,            *)
(* pyMarshaller), unless the application registers sources twice or deletes*)
(* pending ones.                                                           *)
THEOREM EventLoopKept ==
  ASSUME "double" \notin Careless, "delete" \notin Careless
  PROVE  Spec => ImplementsEventLoop
<1>1. OnceInv /\ PendingRegistered /\ [Next]_vars => [Promise!Next]_(Promise!vars)
  BY StepPromise
<1> QED BY <1>1, InitPromise, PendingInvariant, PTL DEF Spec, ImplementsEventLoop, Promise!Spec
-----------------------------------------------------------------------------
(* Every source has a descriptor of its own, until an error closes it; a   *)
(* source that was never registered, or whose callback runs and has not    *)
(* registered it again, has no event; and every event that a source keeps, *)
(* of the last batch or of an earlier one, can still be had.               *)
OwnFd == \A s \in Sources : fd[s] \in {FdOf[s], BadFd}
FreshInv ==
  /\ \A s \in Sources : id[s] = -1 => actOcc[s] = {}
  /\ \A s \in Sources : fd[s] # BadFd => actOcc[s] \ {"immediate"} \subseteq ready[fd[s]]

LEMMA OwnFdStep ==
  ASSUME TypeInv, OwnFd, [Next]_vars
  PROVE  OwnFd'
<1>1. ASSUME NEW keep \in OnErr, Raise(keep) PROVE OwnFd'
  <2>1. fd' = fd \/ fd' = [fd EXCEPT ![Top.call.src] = BadFd] BY <1>1 DEF Raise
  <2> QED BY <2>1 DEF OwnFd, TypeInv, TypeOK
<1>2. CASE \/ Application \/ Environment \/ Dispatcher \/ ReturnZero \/ ReturnOne
           \/ UNCHANGED vars
  <2>1. fd' = fd
    BY <1>2 DEF Application, Environment, Dispatcher, AddSource, DelSource, SetCallback, Close,
       Exit, Work, Consume, BecomeReady, Tick, ReturnEmpty, Poll, SelectFails, SelectReturns,
       BadFdAborts, SkipSource, SearchFaults, Dispatch, EndBatch, ReturnZero, ReturnOne,
       vars, sources
  <2> QED BY <2>1 DEF OwnFd
<1> QED BY <1>1, <1>2 DEF Next, CallbackEnds

LEMMA FreshUnchanged ==
  ASSUME FreshInv, UNCHANGED <<id, actOcc, fd, ready>>
  PROVE  FreshInv'
BY DEF FreshInv

(* A registration gives the source an id that is none of the others'.      *)
LEMMA FreshAdd ==
  ASSUME TypeInv, FreshInv, NEW s \in Sources, DispAddSource(s), UNCHANGED <<actOcc, fd, ready>>
  PROVE  FreshInv'
<1>1. id' = [id EXCEPT ![s] = maxid] /\ maxid \in Nat /\ id \in [Sources -> Int]
  BY DEF DispAddSource, TypeInv, TypeOK
<1>2. \A t \in Sources : id'[t] = -1 => id[t] = -1
  BY <1>1
<1> QED BY <1>2 DEF FreshInv

LEMMA FreshStep ==
  ASSUME \A s, t \in Sources : FdOf[s] = FdOf[t] => s = t,
         "reread" \notin Careless,
         OnceInv, OwnFd, HasDescriptor, FreshInv, [Next]_vars
  PROVE  FreshInv'
<1> USE DEF disp, sources, kernel, polling
<1>0. /\ TypeInv /\ Reg \subseteq Sources /\ \A s \in Reg : id[s] # -1
      /\ id \in [Sources -> Int] /\ actOcc \in [Sources -> SUBSET Acts]
      /\ fd \in [Sources -> Fds \union {BadFd}] /\ ready \in [Fds -> SUBSET Acts]
  BY DEF OnceInv, TypeInv, TypeOK, IdInv, ArraySound, Reg
<1>1. ASSUME NEW s \in Sources, AddSource(s) PROVE FreshInv'
  BY <1>0, <1>1, FreshAdd DEF AddSource
<1>2. CASE ReturnOne
  <2>1. Top.call.src \in Sources /\ DispAddSource(Top.call.src) /\ UNCHANGED <<actOcc, fd, ready>>
    BY <1>0, <1>2, CalledSource DEF ReturnOne
  <2> QED BY <1>0, <2>1, FreshAdd
<1>3. CASE Consume
  <2> DEFINE s == Top.call.src
  <2>1. s \in Sources /\ id[s] = -1 /\ fd[s] # BadFd
    BY <1>0, <1>3, CalledSource DEF Consume, Careful
  <2>2. UNCHANGED <<id, actOcc, fd>> /\ ready' = [ready EXCEPT ![fd[s]] = @ \ Top.call.actOcc]
    BY <1>3 DEF Consume
  <2> HIDE DEF s
  <2>3. \A t \in Sources : t = s \/ fd[t] = BadFd \/ fd[t] # fd[s]
    BY <2>1 DEF OwnFd
  <2>4. \A t \in Sources : t # s /\ fd[t] # BadFd => ready'[fd[t]] = ready[fd[t]]
    BY <1>0, <2>1, <2>2, <2>3
  <2>5. actOcc[s] = {} BY <2>1 DEF FreshInv
  <2> QED BY <2>2, <2>4, <2>5 DEF FreshInv
<1>4. ASSUME NEW f \in Fds, NEW act \in UNION Interests \ {"immediate"}, BecomeReady(f, act)
      PROVE  FreshInv'
  <2>1. UNCHANGED <<id, actOcc, fd>> /\ \A g \in Fds : ready[g] \subseteq ready'[g]
    BY <1>0, <1>4 DEF BecomeReady
  <2>2. \A t \in Sources : fd[t] # BadFd => fd[t] \in Fds BY <1>0
  <2> QED BY <2>1, <2>2 DEF FreshInv
<1>5. CASE Poll
  <2>1. /\ UNCHANGED <<id, fd, ready>>
        /\ \A t \in Sources : actOcc'[t] = IF t \in Reg THEN actImp[t] \intersect {"immediate"}
                                           ELSE actOcc[t]
    BY <1>5 DEF Poll
  <2>2. \A t \in Sources : id'[t] = -1 => actOcc'[t] = {}
    BY <1>0, <2>1 DEF FreshInv
  <2>3. ASSUME NEW t \in Sources, fd'[t] # BadFd
        PROVE  actOcc'[t] \ {"immediate"} \subseteq ready'[fd'[t]]
    <3>1. actOcc[t] \ {"immediate"} \subseteq ready[fd[t]] BY <2>1, <2>3 DEF FreshInv
    <3>2. actOcc'[t] \subseteq actOcc[t] \union {"immediate"} BY <2>1
    <3> QED BY <2>1, <3>1, <3>2
  <2> QED BY <2>2, <2>3 DEF FreshInv
<1>6. CASE SelectReturns
  <2>1. UNCHANGED <<id, fd, ready>> BY <1>6 DEF SelectReturns
  <2>2. \A t \in Sources :
          \/ actOcc'[t] = actOcc[t]
          \/ t \in Reg /\ actOcc'[t] \subseteq actOcc[t] \union ready[fd[t]]
    BY <1>6 DEF SelectReturns, HasDescriptor, Events
  <2>3. \A t \in Sources : id'[t] = -1 => actOcc'[t] = {}
    BY <1>0, <2>1, <2>2 DEF FreshInv
  <2>4. ASSUME NEW t \in Sources, fd'[t] # BadFd
        PROVE  actOcc'[t] \ {"immediate"} \subseteq ready'[fd'[t]]
    <3>1. actOcc[t] \ {"immediate"} \subseteq ready[fd[t]] BY <2>1, <2>4 DEF FreshInv
    <3>2. actOcc'[t] \subseteq actOcc[t] \union ready[fd[t]] BY <2>2
    <3> QED BY <2>1, <3>1, <3>2
  <2> QED BY <2>3, <2>4 DEF FreshInv
<1>7. ASSUME NEW s \in Sources, Dispatch(s) PROVE FreshInv'
  <2>1. /\ UNCHANGED <<fd, ready>> /\ id' = [id EXCEPT ![s] = -1]
        /\ actOcc' = [actOcc EXCEPT ![s] = {}]
    BY <1>7 DEF Dispatch
  <2> QED BY <1>0, <2>1 DEF FreshInv
<1>8. ASSUME NEW keep \in OnErr, Raise(keep) PROVE FreshInv'
  <2>1. /\ UNCHANGED <<id, actOcc, ready>>
        /\ fd' = fd \/ fd' = [fd EXCEPT ![Top.call.src] = BadFd]
    BY <1>8 DEF Raise
  <2>2. \A t \in Sources : fd'[t] # BadFd => fd'[t] = fd[t] BY <1>0, <2>1
  <2> QED BY <2>1, <2>2 DEF FreshInv
<1>9. CASE \/ \E s \in Sources : DelSource(s) \/ SkipSource(s) \/ SearchFaults(s)
           \/ \E s \in Sources, acts \in Interests : SetCallback(s, acts)
           \/ Close \/ Exit \/ \E limited \in BOOLEAN : Work(limited)
           \/ Tick \/ ReturnEmpty \/ SelectFails \/ BadFdAborts \/ EndBatch \/ ReturnZero
           \/ UNCHANGED vars
  <2>1. UNCHANGED <<id, actOcc, fd, ready>>
    BY <1>9 DEF DelSource, SkipSource, SearchFaults, SetCallback, Close, Exit, Work, Tick,
       ReturnEmpty, SelectFails, BadFdAborts, EndBatch, ReturnZero, vars
  <2> QED BY <2>1, FreshUnchanged
<1> QED BY <1>1, <1>2, <1>3, <1>4, <1>5, <1>6, <1>7, <1>8, <1>9
        DEF Next, Application, Environment, Dispatcher, CallbackEnds

(* A callback starts, in the same call of work(), only by Dispatch.        *)
LEMMA OnlyDispatchCalls ==
  ASSUME TypeInv, [Next]_vars, pc # "callback", pc' = "callback", Len(frames') = Len(frames)
  PROVE  \E s \in Sources : Dispatch(s)
<1>1. ASSUME frames # <<>>, Return PROVE FALSE
  <2>1. Len(frames) \in Nat /\ Len(frames') = Len(frames) - 1
    BY <1>1, FrontIsSeq, LenProperties DEF TypeInv, TypeOK, Return
  <2> QED BY <2>1
<1>2. pc # "idle" => frames # <<>> BY DEF TypeInv, FramesSound
<1>3. ~ReturnEmpty /\ ~SelectFails BY <1>1, <1>2 DEF ReturnEmpty, SelectFails
<1>4. ~EndBatch BY <1>1, <1>2 DEF EndBatch
<1>5. ~CallbackEnds BY DEF CallbackEnds, ReturnZero, ReturnOne, Raise
<1>6. ~Application /\ ~Environment /\ ~UNCHANGED vars
  BY DEF Application, Environment, AddSource, DelSource, SetCallback, Close, Exit, Work,
         Consume, BecomeReady, Tick, vars
<1>7. ~Poll /\ ~SelectReturns /\ ~BadFdAborts
  BY DEF Poll, SelectReturns, BadFdAborts
<1>8. ~\E s \in Sources : SkipSource(s) \/ SearchFaults(s)
  BY DEF SkipSource, SearchFaults
<1> QED BY <1>3, <1>4, <1>5, <1>6, <1>7, <1>8 DEF Next, Dispatcher

(* A callback that is told its descriptor is ready finds it ready          *)
(* (rpcDispWork, dispNextEv), if no two sources share a descriptor and the *)
(* application is careful: in particular, a callback that has registered   *)
(* its source again leaves the descriptor alone.                           *)
THEOREM EventsAreFresh ==
  ASSUME Careless = {}, \A s, t \in Sources : FdOf[s] = FdOf[t] => s = t
  PROVE  Spec => EventsFresh
<1>1. Init => OwnFd /\ FreshInv
  BY DEF Init, OwnFd, FreshInv
<1>2. OnceInv /\ OwnFd /\ HasDescriptor /\ FreshInv /\ [Next]_vars => OwnFd' /\ FreshInv'
  BY OwnFdStep, FreshStep DEF OnceInv
<1>3. OnceInv /\ PendingRegistered /\ HasDescriptor /\ FreshInv /\ [Next]_vars =>
        [pc # "callback" /\ pc' = "callback" /\ Len(frames') = Len(frames) =>
           LET call == frames'[Len(frames')].call
           IN  call.actOcc \ {"immediate"} \subseteq ready[fd[call.src]]]_vars
  <2> SUFFICES ASSUME OnceInv, PendingRegistered, HasDescriptor, FreshInv, [Next]_vars,
                      pc # "callback", pc' = "callback", Len(frames') = Len(frames)
               PROVE  LET call == frames'[Len(frames')].call
                      IN  call.actOcc \ {"immediate"} \subseteq ready[fd[call.src]]
    OBVIOUS
  <2>0. TypeInv BY DEF OnceInv
  <2>1. PICK s \in Sources : Dispatch(s) BY <2>0, OnlyDispatchCalls
  <2>2. InBatch(s) /\ actOcc[s] # {} BY <2>1 DEF Dispatch
  <2>3. fd[s] # BadFd BY <2>0, <2>2, BatchSource DEF PendingRegistered, HasDescriptor
  <2>4. actOcc[s] \ {"immediate"} \subseteq ready[fd[s]] BY <2>3 DEF FreshInv
  <2>5. frames # <<>> BY <2>0, <2>1 DEF Dispatch, InBatch, TypeInv, FramesSound
  <2>6. /\ frames'[Len(frames)].call.src = s
        /\ frames'[Len(frames)].call.actOcc = actOcc[s]
    BY <2>0, <2>1, <2>5, TopFrame DEF Dispatch, Frame
  <2> QED BY <2>4, <2>6
<1>4. "double" \notin Careless /\ "delete" \notin Careless OBVIOUS
<1>5. "dead" \notin Careless /\ "raise" \notin Careless OBVIOUS
<1>6. Spec => [](OnceInv /\ PendingRegistered) BY <1>4, PendingInvariant
<1>7. Spec => []HasDescriptor BY <1>5, RegisteredHaveDescriptors
<1> QED BY <1>1, <1>2, <1>3, <1>6, <1>7, PTL DEF Spec, EventsFresh

(* The stop time is shared by all calls of work(); if they do not nest, it *)
(* is that of the only one.                                                *)
StopInv ==
  /\ Len(frames) <= 1
  /\ frames # <<>> /\ ~Top.limited => etime \in {"never", "exit"}

LEMMA StopStep ==
  ASSUME MaxDepth = 1, TypeInv, TypeInv', StopInv, [Next]_vars
  PROVE  StopInv'
<1>0. /\ frames \in Seq(Frame) /\ Len(frames) \in Nat /\ (frames = <<>> <=> Len(frames) = 0)
      /\ frames' \in Seq(Frame) /\ Len(frames') \in Nat /\ (frames' = <<>> <=> Len(frames') = 0)
  BY LenProperties, EmptySeq DEF TypeInv, TypeOK
<1>1. ASSUME NEW limited \in BOOLEAN, Work(limited) PROVE StopInv'
  <2>1. frames = <<>> BY <1>0, <1>1 DEF Work
  <2>2. NewFrame(limited) \in Frame
    BY EmptySeq DEF NewFrame, NoCall, Frame
  <2>3. /\ Len(frames') = 1 /\ frames'[Len(frames')] = NewFrame(limited)
        /\ etime' = IF limited THEN "later" ELSE "never"
    BY <1>0, <1>1, <2>1, <2>2, AppendProperties DEF Work
  <2> QED BY <2>3 DEF StopInv, Top, NewFrame
<1>2. CASE Exit BY <1>2 DEF Exit, StopInv, Top
<1>3. CASE Tick BY <1>3 DEF Tick, StopInv, Top
<1>4. ASSUME frames # <<>>, Return PROVE StopInv'
  <2>1. Len(frames') = Len(frames) - 1
    BY <1>0, <1>4, FrontIsSeq DEF Return
  <2>2. frames' = <<>> BY <1>0, <1>4, <2>1 DEF StopInv
  <2> QED BY <1>0, <2>2 DEF StopInv
<1>5. ASSUME frames # <<>>, NEW f \in Frame, frames' = [frames EXCEPT ![Len(frames)] = f],
             f.limited = Top.limited, etime' = etime
      PROVE  StopInv'
  <2>1. Len(frames) \in 1..Len(frames) BY <1>5, TopFrame
  <2>2. /\ Len(frames') = Len(frames)
        /\ \A n \in 1..Len(frames) : frames'[n] = IF n = Len(frames) THEN f ELSE frames[n]
    BY <1>5, NewTop
  <2>3. frames'[Len(frames')] = f BY <2>1, <2>2
  <2> QED BY <1>5, <2>2, <2>3 DEF StopInv, Top
<1>6. ASSUME NEW rest \in Seq(Sources), frames # <<>>,
             frames' = [frames EXCEPT ![Len(frames)].rest = rest], etime' = etime
      PROVE  StopInv'
  <2> DEFINE f == [Top EXCEPT !.rest = rest]
  <2>1. frames' = [frames EXCEPT ![Len(frames)] = f] BY <1>6, TopFrame DEF Top
  <2>2. f \in Frame /\ f.limited = Top.limited BY <1>6, TopFrame DEF Frame
  <2> QED BY <1>5, <1>6, <2>1, <2>2
<1>7. CASE SelectReturns
  <2>1. [k \in 1..scard |-> slots[k]] \in Seq(Sources)
    <3>1. scard \in Nat /\ \A k \in 1..scard : slots[k] \in Sources
      BY DEF TypeInv, TypeOK, ArraySound
    <3> QED BY <3>1, IsASeq
  <2>2. frames # <<>> BY <1>7 DEF SelectReturns, TypeInv, FramesSound
  <2> QED BY <1>6, <1>7, <2>1, <2>2 DEF SelectReturns
<1>8. ASSUME NEW s \in Sources, SkipSource(s) PROVE StopInv'
  <2>1. frames # <<>> /\ Top.rest # <<>>
    BY <1>8 DEF SkipSource, InBatch, TypeInv, FramesSound
  <2>2. Tail(Top.rest) \in Seq(Sources)
    BY <2>1, TopFrame, HeadTailProperties DEF Frame
  <2>3. frames' = [frames EXCEPT ![Len(frames)].rest = Tail(Top.rest)]
    BY <1>8, <2>1, TopFrame DEF SkipSource, NextInBatch, Top
  <2> QED BY <1>6, <1>8, <2>1, <2>2, <2>3 DEF SkipSource
<1>9. ASSUME NEW s \in Sources, Dispatch(s) PROVE StopInv'
  <2> DEFINE call == [src |-> s, actImp |-> actImp[s], actOcc |-> actOcc[s]]
             f == [Top EXCEPT !.rest = Tail(Top.rest), !.call = call]
  <2>1. frames # <<>> /\ Top.rest # <<>>
    BY <1>9 DEF Dispatch, InBatch, TypeInv, FramesSound
  <2>2. frames' = [frames EXCEPT ![Len(frames)] = f]
    BY <1>9, <2>1, TopFrame DEF Dispatch, Top, Frame
  <2>3. call \in [src : Sources \union {NULL}, actImp : SUBSET Acts, actOcc : SUBSET Acts]
    BY DEF TypeInv, TypeOK
  <2> HIDE DEF call
  <2>4. f \in Frame /\ f.limited = Top.limited
    BY <2>1, <2>3, TopFrame, HeadTailProperties DEF Frame
  <2>5. etime' = etime BY <1>9 DEF Dispatch
  <2> QED BY <1>5, <2>1, <2>2, <2>4, <2>5
<1>10. ASSUME pc = "callback", CallEnds, etime' = etime PROVE StopInv'
  <2> DEFINE f == [Top EXCEPT !.call = NoCall]
  <2>1. frames # <<>> BY <1>10, CalledSource
  <2>2. frames' = [frames EXCEPT ![Len(frames)] = f] BY <1>10, <2>1, TopFrame DEF CallEnds, Top
  <2>3. f \in Frame /\ f.limited = Top.limited BY <2>1, TopFrame DEF Frame, NoCall
  <2> QED BY <1>5, <1>10, <2>1, <2>2, <2>3
<1>11. CASE ReturnEmpty \/ SelectFails \/ EndBatch
  <2>1. frames # <<>> /\ (Return \/ UNCHANGED <<frames, etime>>)
    BY <1>11 DEF ReturnEmpty, SelectFails, EndBatch, TypeInv, FramesSound
  <2> QED BY <1>4, <2>1 DEF StopInv, Top
<1>12. CASE CallbackEnds
  <2>1. pc = "callback" /\ etime' = etime /\ (CallEnds \/ Return)
    BY <1>12 DEF CallbackEnds, ReturnZero, ReturnOne, Raise
  <2> QED BY <1>4, <1>10, <2>1, CalledSource
<1>13. CASE \/ \E s \in Sources : AddSource(s) \/ DelSource(s) \/ SearchFaults(s)
            \/ \E s \in Sources, acts \in Interests : SetCallback(s, acts)
            \/ Close \/ Consume \/ Poll \/ BadFdAborts \/ UNCHANGED vars
            \/ \E f \in Fds, act \in UNION Interests \ {"immediate"} : BecomeReady(f, act)
  <2>1. UNCHANGED <<frames, etime>>
    BY <1>13 DEF AddSource, DelSource, SearchFaults, SetCallback, Close, Consume, Poll,
       BadFdAborts, BecomeReady, vars
  <2> QED BY <2>1 DEF StopInv, Top
<1> QED BY <1>1, <1>2, <1>3, <1>7, <1>8, <1>9, <1>11, <1>12, <1>13
        DEF Next, Application, Environment, Dispatcher

(* A call of work() without a timeout, made outside of any other, ends only*)
(* when nothing is registered, by an error or by exit() (rpcDispWork): the *)
(* stop time of an earlier call does not end it.  A nested call may.       *)
THEOREM UnlimitedRunsOn ==
  ASSUME MaxDepth = 1
  PROVE  Spec => UnlimitedWorkRunsOn
<1>1. Init => StopInv
  BY EmptySeq DEF Init, StopInv
<1>2. TypeInv /\ TypeInv' /\ StopInv /\ [Next]_vars => StopInv'
  BY StopStep
<1>3. TypeInv /\ StopInv =>
        [frames # <<>> /\ ~Top.limited /\ EndBatch /\ pc' # "loop" => etime = "exit"]_vars
  BY DEF StopInv, EndBatch
<1> QED BY <1>1, <1>2, <1>3, TypesInvariant, PTL DEF Spec, UnlimitedWorkRunsOn
=============================================================================
