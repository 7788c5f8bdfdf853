---------------------------- MODULE ClientProofs ----------------------------
(***************************************************************************)
(* The invariants of Client that tell what the application's thread and    *)
(* the client's source are doing, layer by layer, each with the lemma that *)
(* every step keeps it.                                                    *)
(*                                                                         *)
(* Types and Thread hold whatever mistakes the application makes; Duties   *)
(* is what holds of an application that makes those mistakes not that      *)
(* spoil the connection.                                                   *)
(***************************************************************************)
EXTENDS Client, SequenceTheorems, TLAPS

(* What is registered, what waits and where the application's thread is.   *)
Flags ==
  /\ execing \in BOOLEAN /\ now \in BOOLEAN /\ stale \in BOOLEAN
  /\ disp \in {"none", "own", "temp"} /\ left \in Nat
  /\ stage \in {"none", "connect", "connecting", "write", "read"}
  /\ pc \in {"out", "work", "exec", "callback", "crashed"}
  /\ back \in {"out", "work", "callback"}

(* The client's end of the connection: it has a descriptor exactly while   *)
(* there is a connection.                                                  *)
Line ==
  /\ fd \in BOOLEAN /\ broken \in BOOLEAN
  /\ conn \in {"none", "syn", "up", "eof", "reset"}
  /\ fd <=> conn # "none"
  /\ kind \in [Calls -> ReplyKinds \cup {"none"}]

(* The call in progress is one of the application's, and its source is     *)
(* registered.                                                             *)
Ledger ==
  /\ cur \in 0..MaxCalls /\ out \in 0..ReqUnits
  /\ outcome \in [Calls -> Outcomes]
  /\ execing => cur \in Calls /\ disp # "none"

(* A callback that runs, or that a running execute returns to, is active.  *)
Stack ==
  /\ cbs \in Seq(BOOLEAN)
  /\ pc = "callback" => cbs # <<>>
  /\ pc = "exec" /\ back = "callback" => cbs # <<>>

(* What is sent, received and returned.                                    *)
Texts ==
  /\ buf \in Seq(Units) /\ stash \in Seq(Units)
  /\ heard \in Seq(Calls) /\ reply \in Seq(Units) /\ inbox \in Seq(Units)
  /\ answer \in [Calls -> Seq(Units)]

(* The invariant that types the model, by the parts that the steps change  *)
(* separately.                                                             *)
Types == Flags /\ Line /\ Ledger /\ Stack /\ Texts

(* A response consists of units.                                           *)
LEMMA ReplyType ==
  ASSUME NEW k \in Calls
  PROVE  Wire!Reply(k) \in Seq(Units)
<1>1. ASSUME NEW i \in 1..RespUnits PROVE (k - 1) * RespUnits + i \in Units
  <2>1. k - 1 \in Nat /\ (k - 1) + 1 = k /\ MaxCalls - k \in Nat /\ k + (MaxCalls - k) = MaxCalls
    BY CallsAssumption DEF Calls
  <2>2. (k - 1) * RespUnits \in Nat /\ (k - 1) * RespUnits + RespUnits = k * RespUnits
    BY <2>1, ClientUnitsAssumption
  <2>3. k * RespUnits + (MaxCalls - k) * RespUnits = MaxCalls * RespUnits
        /\ (MaxCalls - k) * RespUnits \in Nat
    BY <2>1, ClientUnitsAssumption, CallsAssumption
  <2> QED BY <2>2, <2>3, ClientUnitsAssumption DEF Units
<1> QED BY <1>1, ClientUnitsAssumption DEF Wire!Reply

(* What ends a callback: all but the innermost are left.                   *)
LEMMA FrontIs ==
  ASSUME NEW S, NEW s \in Seq(S), s # <<>>
  PROVE  /\ Front(s) \in Seq(S) /\ Len(s) \in Nat \ {0}
         /\ Len(Front(s)) = Len(s) - 1
         /\ \A i \in 1..(Len(s) - 1) : Front(s)[i] = s[i]
<1> DEFINE n == Len(s) - 1
<1>1. Len(s) \in Nat \ {0} /\ n \in 0..Len(s) /\ n \in Nat
  BY LenProperties, EmptySeq
<1>2. \A i \in 1..n : s[i] \in S
  BY <1>1, ElementOfSeq
<1>3. Front(s) = SubSeq(s, 1, n)
  BY DEF Front
<1> HIDE DEF n
<1>4. SubSeq(s, 1, n) \in Seq(S) /\ Len(SubSeq(s, 1, n)) = n /\ \A i \in 1..n : SubSeq(s, 1, n)[i] = s[i]
  BY <1>1, <1>2, SubSeqProperties
<1> QED BY <1>1, <1>3, <1>4 DEF n

(* Every step keeps the types, whatever mistakes the application makes.    *)
LEMMA StepTypes == Types /\ [Next]_vars => Types'
<1> SUFFICES ASSUME Types, [Next]_vars PROVE Types' OBVIOUS
<1> USE CallsAssumption, ClientUnitsAssumption, ClientFlagsAssumption DEF Types, call, thread, net
<1>0. <<>> \in Seq(Calls) /\ <<>> \in Seq(Units)
  OBVIOUS
<1> USE <1>0
<1>1. CASE Server
  <2>1. Flags'
    BY <1>1
       DEF Flags, Server, Wire!Serve, Wire!Establish, Wire!Answer, Wire!RefuseTorn,
         Wire!SendSome
  <2>2. Line'
    BY <1>1
       DEF Line, Server, Wire!Serve, Wire!Establish, Wire!Answer, Wire!RefuseTorn,
         Wire!SendSome
  <2>3. Ledger'
    BY <1>1
       DEF Flags, Ledger, Outcomes, Calls, Server, Wire!Serve, Wire!Establish,
         Wire!Answer, Wire!RefuseTorn, Wire!SendSome
  <2>4. Stack'
    BY <1>1
       DEF Flags, Stack, Server, Wire!Serve, Wire!Establish, Wire!Answer,
         Wire!RefuseTorn, Wire!SendSome
  <2>5. Texts'
    <3>1. CASE Wire!Establish \/ Wire!RefuseTorn
      BY <1>1, <3>1 DEF Texts, Server, Wire!Establish, Wire!RefuseTorn
    <3>2. ASSUME NEW k \in Calls, Wire!Answer(k) PROVE Texts'
      BY <1>1, <3>2, ReplyType DEF Texts, Server, Wire!Answer
    <3>3. CASE Wire!SendSome
      <4>1. PICK n \in 1..Len(reply) :
              /\ inbox' = inbox \o SubSeq(reply, 1, n)
              /\ reply' = SubSeq(reply, n + 1, Len(reply))
              /\ heard' = heard \/ heard' = <<>>
        BY <3>3 DEF Wire!SendSome
      <4>2. reply' \in Seq(Units) /\ inbox' \in Seq(Units)
        BY <4>1 DEF Texts
      <4>3. buf' = buf /\ stash' = stash /\ answer' = answer
        BY <1>1 DEF Server
      <4>4. heard' \in Seq(Calls) BY <4>1 DEF Texts
      <4> QED BY <4>2, <4>3, <4>4 DEF Texts
    <3> QED BY <1>1, <3>1, <3>2, <3>3 DEF Server, Wire!Serve
  <2> QED BY <2>1, <2>2, <2>3, <2>4, <2>5 DEF Types
<1>2. CASE Drop
  <2>1. Flags' BY <1>2 DEF Flags, Drop, Wire!Drop, Wire!net
  <2>2. Line' BY <1>2 DEF Line, Drop, Wire!Drop, Wire!net
  <2>3. Ledger' BY <1>2 DEF Flags, Ledger, Outcomes, Calls, Drop, Wire!Drop, Wire!net
  <2>4. Stack' BY <1>2 DEF Flags, Stack, Drop, Wire!Drop, Wire!net
  <2>5. Texts'
    <3>1. (heard' = heard \/ heard' = <<>>) /\ (reply' = reply \/ reply' = <<>>)
          /\ (inbox' = inbox \/ inbox' = <<>>)
      BY <1>2 DEF Drop, Wire!Drop, Wire!net
    <3>2. (buf' = buf \/ buf' = <<>>) /\ stash' = stash /\ answer' = answer
      BY <1>2 DEF Drop, Wire!Drop, Wire!net
    <3>7. heard' \in Seq(Calls) BY <3>1, <3>2 DEF Texts
    <3>8. reply' \in Seq(Units) BY <3>1, <3>2 DEF Texts
    <3>9. inbox' \in Seq(Units) BY <3>1, <3>2 DEF Texts
    <3> QED BY <3>1, <3>2, <3>7, <3>8, <3>9 DEF Texts
  <2> QED BY <2>1, <2>2, <2>3, <2>4, <2>5 DEF Types
<1>3. ASSUME NEW k \in Calls, NbExecute(k) PROVE Types'
  <2>1. Flags' BY <1>3 DEF Flags, NbExecute, Queue, Becomes
  <2>2. Line' BY <1>3 DEF Line, NbExecute, Queue, Becomes
  <2>3. Ledger' BY <1>3 DEF Flags, Ledger, Outcomes, Calls, NbExecute, Queue, Becomes
  <2>4. Stack' BY <1>3 DEF Flags, Stack, NbExecute, Queue, Becomes
  <2>5. Texts' BY <1>3 DEF Texts, Ledger, NbExecute, Queue, Becomes
  <2> QED BY <2>1, <2>2, <2>3, <2>4, <2>5 DEF Types
<1>4. ASSUME NEW k \in Calls, NbExecuteRefused(k) PROVE Types'
  <2>1. Flags' BY <1>4 DEF Flags, NbExecuteRefused, Becomes
  <2>2. Line' BY <1>4 DEF Line, NbExecuteRefused, Becomes
  <2>3. Ledger' BY <1>4 DEF Flags, Ledger, Outcomes, Calls, NbExecuteRefused, Becomes
  <2>4. Stack' BY <1>4 DEF Flags, Stack, NbExecuteRefused, Becomes
  <2>5. Texts' BY <1>4 DEF Texts, Ledger, NbExecuteRefused, Becomes
  <2> QED BY <2>1, <2>2, <2>3, <2>4, <2>5 DEF Types
<1>5. ASSUME NEW k \in Calls, Execute(k) PROVE Types'
  <2>1. Flags' BY <1>5 DEF Flags, Execute, Queue, Becomes, MayCall, PythonRuns
  <2>2. Line' BY <1>5 DEF Line, Execute, Queue, Becomes, MayCall, PythonRuns
  <2>3. Ledger'
    BY <1>5 DEF Flags, Ledger, Outcomes, Calls, Execute, Queue, Becomes, MayCall,
         PythonRuns
  <2>4. Stack' BY <1>5 DEF Flags, Stack, Execute, Queue, Becomes, MayCall, PythonRuns
  <2>5. Texts' BY <1>5 DEF Texts, Ledger, Execute, Queue, Becomes, MayCall, PythonRuns
  <2> QED BY <2>1, <2>2, <2>3, <2>4, <2>5 DEF Types
<1>6. ASSUME NEW k \in Calls, ExecuteRefused(k) PROVE Types'
  <2>1. Flags' BY <1>6 DEF Flags, ExecuteRefused, Becomes
  <2>2. Line' BY <1>6 DEF Line, ExecuteRefused, Becomes
  <2>3. Ledger' BY <1>6 DEF Flags, Ledger, Outcomes, Calls, ExecuteRefused, Becomes
  <2>4. Stack' BY <1>6 DEF Flags, Stack, ExecuteRefused, Becomes
  <2>5. Texts' BY <1>6 DEF Texts, Ledger, ExecuteRefused, Becomes
  <2> QED BY <2>1, <2>2, <2>3, <2>4, <2>5 DEF Types
<1>7. CASE Close
  <2>1. Flags' BY <1>7 DEF Flags, Close, Hangup
  <2>2. Line' BY <1>7 DEF Line, Close, Hangup
  <2>3. Ledger' BY <1>7 DEF Flags, Ledger, Outcomes, Calls, Close, Hangup
  <2>4. Stack' BY <1>7 DEF Flags, Stack, Close, Hangup
  <2>5. Texts' BY <1>7 DEF Texts, Ledger, Close, Hangup
  <2> QED BY <2>1, <2>2, <2>3, <2>4, <2>5 DEF Types
<1>8. CASE Work
  <2>1. Flags' BY <1>8 DEF Flags, Work
  <2>2. Line' BY <1>8 DEF Line, Work
  <2>3. Ledger' BY <1>8 DEF Flags, Ledger, Outcomes, Calls, Work
  <2>4. Stack' BY <1>8 DEF Flags, Stack, Work
  <2>5. Texts' BY <1>8 DEF Texts, Ledger, Work
  <2> QED BY <2>1, <2>2, <2>3, <2>4, <2>5 DEF Types
<1>9. CASE EndWork
  <2>1. Flags' BY <1>9 DEF Flags, EndWork, Outside
  <2>2. Line' BY <1>9 DEF Line, EndWork, Outside
  <2>3. Ledger' BY <1>9 DEF Flags, Ledger, Outcomes, Calls, EndWork, Outside
  <2>4. Stack' BY <1>9 DEF Flags, Stack, EndWork, Outside
  <2>5. Texts' BY <1>9 DEF Texts, Ledger, EndWork, Outside
  <2> QED BY <2>1, <2>2, <2>3, <2>4, <2>5 DEF Types
<1>10. CASE Connect
  <2>1. Flags' BY <1>10 DEF Flags, Connect
  <2>2. Line' BY <1>10 DEF Line, Connect
  <2>3. Ledger' BY <1>10 DEF Flags, Ledger, Outcomes, Calls, Connect
  <2>4. Stack' BY <1>10 DEF Flags, Stack, Connect
  <2>5. Texts' BY <1>10 DEF Texts, Ledger, Connect
  <2> QED BY <2>1, <2>2, <2>3, <2>4, <2>5 DEF Types
<1>11. CASE Connected
  <2>1. Flags' BY <1>11 DEF Flags, Connected
  <2>2. Line' BY <1>11 DEF Line, Connected
  <2>3. Ledger' BY <1>11 DEF Flags, Ledger, Outcomes, Calls, Connected
  <2>4. Stack' BY <1>11 DEF Flags, Stack, Connected
  <2>5. Texts' BY <1>11 DEF Texts, Ledger, Connected
  <2> QED BY <2>1, <2>2, <2>3, <2>4, <2>5 DEF Types
<1>12. CASE WriteSome
  <2>1. Flags' BY <1>12 DEF Flags, WriteSome, Called
  <2>2. Line' BY <1>12 DEF Line, WriteSome, Called
  <2>3. Ledger' BY <1>12 DEF Flags, Ledger, Outcomes, Calls, WriteSome, Called
  <2>4. Stack' BY <1>12 DEF Flags, Stack, WriteSome, Called
  <2>5. Texts' BY <1>12 DEF Texts, Ledger, WriteSome, Called
  <2> QED BY <2>1, <2>2, <2>3, <2>4, <2>5 DEF Types
<1>13. CASE ReadMore
  <2>1. Flags' BY <1>13 DEF Flags, ReadMore, Reads, Called, Heard, Data
  <2>2. Line' BY <1>13 DEF Line, ReadMore, Reads, Called, Heard, Data
  <2>3. Ledger'
    BY <1>13 DEF Flags, Ledger, Outcomes, Calls, ReadMore, Reads, Called, Heard, Data
  <2>4. Stack' BY <1>13 DEF Flags, Stack, ReadMore, Reads, Called, Heard, Data
  <2>5. Texts' BY <1>13 DEF Texts, Ledger, ReadMore, Reads, Called, Heard, Data
  <2> QED BY <2>1, <2>2, <2>3, <2>4, <2>5 DEF Types
<1>14. CASE CallBack
  <2>1. Flags'
    BY <1>14
       DEF Flags, CallBack, Reads, Called, Heard, NoCall, NoSource, Becomes, Data,
         KeepAlive
  <2>2. Line'
    BY <1>14
       DEF Line, CallBack, Reads, Called, Heard, NoCall, NoSource, Becomes, Data,
         KeepAlive
  <2>3. Ledger'
    BY <1>14
       DEF Flags, Ledger, Outcomes, Calls, CallBack, Reads, Called, Heard, NoCall,
         NoSource, Becomes, Data, KeepAlive
  <2>4. Stack'
    BY <1>14
       DEF Flags, Stack, CallBack, Reads, Called, Heard, NoCall, NoSource, Becomes,
         Data, KeepAlive
  <2>5. Texts'
    BY <1>14
       DEF Texts, Ledger, CallBack, Reads, Called, Heard, NoCall, NoSource, Becomes,
         Data, KeepAlive
  <2> QED BY <2>1, <2>2, <2>3, <2>4, <2>5 DEF Types
<1>15. CASE Executed
  <2>1. Flags'
    BY <1>15 DEF Flags, Executed, Reads, Called, Heard, NoSource, Hangup, Data
  <2>2. Line' BY <1>15 DEF Line, Executed, Reads, Called, Heard, NoSource, Hangup, Data
  <2>3. Ledger'
    BY <1>15
       DEF Flags, Ledger, Outcomes, Calls, Executed, Reads, Called, Heard, NoSource,
         Hangup, Data
  <2>4. Stack'
    BY <1>15 DEF Flags, Stack, Executed, Reads, Called, Heard, NoSource, Hangup, Data
  <2>5. Texts'
    <3>0. Heard \in Seq(Calls) /\ Data \in Seq(Units)
      BY <1>15 DEF Heard, Data, Texts, Ledger, Reads, Called, Executed
    <3>1. (heard' = Heard \/ heard' = <<>>) /\ (reply' = reply \/ reply' = <<>>) /\ inbox' = <<>>
      BY <1>15 DEF Executed, Hangup
    <3>2. buf' = <<>> /\ stash' = Data /\ answer' = answer
      BY <1>15 DEF Executed, NoSource
    <3>7. heard' \in Seq(Calls) BY <3>0, <3>1, <3>2 DEF Texts
    <3>8. reply' \in Seq(Units) BY <3>0, <3>1, <3>2 DEF Texts
    <3>9. inbox' \in Seq(Units) BY <3>0, <3>1, <3>2 DEF Texts
    <3> QED BY <3>0, <3>1, <3>2, <3>7, <3>8, <3>9 DEF Texts
  <2> QED BY <2>1, <2>2, <2>3, <2>4, <2>5 DEF Types
<1>16. ASSUME NEW flags \in OnErr, ConnectFails(flags) PROVE Types'
  <2>1. Flags'
    BY <1>16 DEF Flags, ConnectFails, Fail, NoSource, Becomes, Outside, Called, Keeps
  <2>2. Line'
    BY <1>16 DEF Line, ConnectFails, Fail, NoSource, Becomes, Outside, Called, Keeps
  <2>3. Ledger'
    BY <1>16
       DEF Flags, Ledger, Outcomes, Calls, ConnectFails, Fail, NoSource, Becomes,
         Outside, Called, Keeps
  <2>4. Stack'
    BY <1>16 DEF Flags, Stack, ConnectFails, Fail, NoSource, Becomes, Outside, Called,
         Keeps
  <2>5. Texts'
    BY <1>16
       DEF Texts, Ledger, ConnectFails, Fail, NoSource, Becomes, Outside, Called, Keeps
  <2> QED BY <2>1, <2>2, <2>3, <2>4, <2>5 DEF Types
<1>17. ASSUME NEW flags \in OnErr, ConnectingFails(flags) PROVE Types'
  <2>1. Flags'
    BY <1>17 DEF Flags, ConnectingFails, Fail, NoSource, Becomes, Outside, Called,
         Hangup
  <2>2. Line'
    BY <1>17 DEF Line, ConnectingFails, Fail, NoSource, Becomes, Outside, Called, Hangup
  <2>3. Ledger'
    BY <1>17
       DEF Flags, Ledger, Outcomes, Calls, ConnectingFails, Fail, NoSource, Becomes,
         Outside, Called, Hangup
  <2>4. Stack'
    BY <1>17
       DEF Flags, Stack, ConnectingFails, Fail, NoSource, Becomes, Outside, Called,
         Hangup
  <2>5. Texts'
    <3>1. (heard' = heard \/ heard' = <<>>) /\ (reply' = reply \/ reply' = <<>>)
          /\ (inbox' = inbox \/ inbox' = <<>>)
      BY <1>17 DEF ConnectingFails, Fail, NoSource, Becomes, Outside, Called, Hangup
    <3>2. (buf' = buf \/ buf' = <<>>) /\ stash' = stash /\ answer' = answer
      BY <1>17 DEF ConnectingFails, Fail, NoSource, Becomes, Outside, Called, Hangup
    <3>7. heard' \in Seq(Calls) BY <3>1, <3>2 DEF Texts
    <3>8. reply' \in Seq(Units) BY <3>1, <3>2 DEF Texts
    <3>9. inbox' \in Seq(Units) BY <3>1, <3>2 DEF Texts
    <3> QED BY <3>1, <3>2, <3>7, <3>8, <3>9 DEF Texts
  <2> QED BY <2>1, <2>2, <2>3, <2>4, <2>5 DEF Types
<1>18. ASSUME NEW flags \in OnErr, WriteFails(flags) PROVE Types'
  <2>1. Flags'
    BY <1>18 DEF Flags, WriteFails, Fail, NoSource, Becomes, Outside, Called, Hangup
  <2>2. Line'
    BY <1>18 DEF Line, WriteFails, Fail, NoSource, Becomes, Outside, Called, Hangup
  <2>3. Ledger'
    BY <1>18
       DEF Flags, Ledger, Outcomes, Calls, WriteFails, Fail, NoSource, Becomes, Outside,
         Called, Hangup
  <2>4. Stack'
    BY <1>18 DEF Flags, Stack, WriteFails, Fail, NoSource, Becomes, Outside, Called,
         Hangup
  <2>5. Texts'
    <3>1. (heard' = heard \/ heard' = <<>>) /\ (reply' = reply \/ reply' = <<>>)
          /\ (inbox' = inbox \/ inbox' = <<>>)
      BY <1>18 DEF WriteFails, Fail, NoSource, Becomes, Outside, Called, Hangup
    <3>2. (buf' = buf \/ buf' = <<>>) /\ stash' = stash /\ answer' = answer
      BY <1>18 DEF WriteFails, Fail, NoSource, Becomes, Outside, Called, Hangup
    <3>7. heard' \in Seq(Calls) BY <3>1, <3>2 DEF Texts
    <3>8. reply' \in Seq(Units) BY <3>1, <3>2 DEF Texts
    <3>9. inbox' \in Seq(Units) BY <3>1, <3>2 DEF Texts
    <3> QED BY <3>1, <3>2, <3>7, <3>8, <3>9 DEF Texts
  <2> QED BY <2>1, <2>2, <2>3, <2>4, <2>5 DEF Types
<1>19. ASSUME NEW flags \in OnErr, ReadFails(flags) PROVE Types'
  <2>1. Flags'
    BY <1>19
       DEF Flags, ReadFails, Reads, Heard, Fail, NoSource, Becomes, Outside, Called,
         Hangup
  <2>2. Line'
    BY <1>19
       DEF Line, ReadFails, Reads, Heard, Fail, NoSource, Becomes, Outside, Called,
         Hangup
  <2>3. Ledger'
    BY <1>19
       DEF Flags, Ledger, Outcomes, Calls, ReadFails, Reads, Heard, Fail, NoSource,
         Becomes, Outside, Called, Hangup
  <2>4. Stack'
    BY <1>19
       DEF Flags, Stack, ReadFails, Reads, Heard, Fail, NoSource, Becomes, Outside,
         Called, Hangup
  <2>5. Texts'
    <3>0. Heard \in Seq(Calls) /\ Data \in Seq(Units)
      BY <1>19 DEF Heard, Data, Texts, Ledger, Reads, Called, ReadFails
    <3>1. (heard' = Heard \/ heard' = <<>>) /\ (reply' = reply \/ reply' = <<>>)
          /\ (inbox' = inbox \/ inbox' = <<>>)
      BY <1>19 DEF ReadFails, Fail, Hangup
    <3>2. buf' = <<>> /\ stash' = stash /\ answer' = answer
      BY <1>19 DEF ReadFails, Fail, NoSource
    <3>7. heard' \in Seq(Calls) BY <3>0, <3>1, <3>2 DEF Texts
    <3>8. reply' \in Seq(Units) BY <3>0, <3>1, <3>2 DEF Texts
    <3>9. inbox' \in Seq(Units) BY <3>0, <3>1, <3>2 DEF Texts
    <3> QED BY <3>0, <3>1, <3>2, <3>7, <3>8, <3>9 DEF Texts
  <2> QED BY <2>1, <2>2, <2>3, <2>4, <2>5 DEF Types
<1>20. CASE AssertionFails
  <2>1. Flags' BY <1>20 DEF Flags, AssertionFails
  <2>2. Line' BY <1>20 DEF Line, AssertionFails
  <2>3. Ledger' BY <1>20 DEF Flags, Ledger, Outcomes, Calls, AssertionFails
  <2>4. Stack' BY <1>20 DEF Flags, Stack, AssertionFails
  <2>5. Texts' BY <1>20 DEF Texts, Ledger, AssertionFails
  <2> QED BY <2>1, <2>2, <2>3, <2>4, <2>5 DEF Types
<1>21. CASE CallbackReturns
  <2>1. Flags' BY <1>21 DEF Flags, CallbackReturns, Hangup, Front
  <2>2. Line' BY <1>21 DEF Line, CallbackReturns, Hangup, Front
  <2>3. Ledger'
    BY <1>21 DEF Flags, Ledger, Outcomes, Calls, CallbackReturns, Hangup, Front
  <2>4. Stack' BY <1>21 DEF Flags, Stack, CallbackReturns, Hangup, Front
  <2>5. Texts'
    <3>1. (heard' = heard \/ heard' = <<>>) /\ (reply' = reply \/ reply' = <<>>)
          /\ (inbox' = inbox \/ inbox' = <<>>)
      BY <1>21 DEF CallbackReturns, Hangup, Front
    <3>2. (buf' = buf \/ buf' = <<>>) /\ stash' = stash /\ answer' = answer
      BY <1>21 DEF CallbackReturns, Hangup, Front
    <3>7. heard' \in Seq(Calls) BY <3>1, <3>2 DEF Texts
    <3>8. reply' \in Seq(Units) BY <3>1, <3>2 DEF Texts
    <3>9. inbox' \in Seq(Units) BY <3>1, <3>2 DEF Texts
    <3> QED BY <3>1, <3>2, <3>7, <3>8, <3>9 DEF Texts
  <2> QED BY <2>1, <2>2, <2>3, <2>4, <2>5 DEF Types
<1>22. ASSUME NEW flags \in OnErr, CallbackRaises(flags) PROVE Types'
  <2>1. Flags' BY <1>22 DEF Flags, CallbackRaises, Hangup, Front
  <2>2. Line' BY <1>22 DEF Line, CallbackRaises, Hangup, Front
  <2>3. Ledger'
    BY <1>22 DEF Flags, Ledger, Outcomes, Calls, CallbackRaises, Hangup, Front
  <2>4. Stack'
    <3>1. cbs # <<>> /\ cbs \in Seq(BOOLEAN)
      BY <1>22 DEF CallbackRaises, Stack
    <3>2. cbs' \in Seq(BOOLEAN) /\ Len(cbs) \in Nat \ {0} /\ Len(cbs') = Len(cbs) - 1
      BY <1>22, <3>1, FrontIs DEF CallbackRaises
    <3>3. pc' = "callback" => Len(cbs') # 0
      BY <1>22, <3>2 DEF CallbackRaises
    <3>4. pc' # "exec"
      BY <1>22 DEF CallbackRaises
    <3>6. cbs' # <<>> \/ Len(cbs') = 0
      OBVIOUS
    <3> QED BY <3>2, <3>3, <3>4, <3>6 DEF Stack
  <2>5. Texts'
    <3>1. (heard' = heard \/ heard' = <<>>) /\ (reply' = reply \/ reply' = <<>>)
          /\ (inbox' = inbox \/ inbox' = <<>>)
      BY <1>22 DEF CallbackRaises, Hangup, Front
    <3>2. (buf' = buf \/ buf' = <<>>) /\ stash' = stash /\ answer' = answer
      BY <1>22 DEF CallbackRaises, Hangup, Front
    <3>7. heard' \in Seq(Calls) BY <3>1, <3>2 DEF Texts
    <3>8. reply' \in Seq(Units) BY <3>1, <3>2 DEF Texts
    <3>9. inbox' \in Seq(Units) BY <3>1, <3>2 DEF Texts
    <3> QED BY <3>1, <3>2, <3>7, <3>8, <3>9 DEF Texts
  <2> QED BY <2>1, <2>2, <2>3, <2>4, <2>5 DEF Types
<1>23. CASE ExecuteReturns
  <2>1. Flags' BY <1>23 DEF Flags, ExecuteReturns, Becomes
  <2>2. Line' BY <1>23 DEF Line, ExecuteReturns, Becomes
  <2>3. Ledger'
    <3>1. outcome' = [outcome EXCEPT ![cur] = "answered"] \/ outcome' = [outcome EXCEPT ![cur] = "failed"]
      BY <1>23 DEF ExecuteReturns, Becomes
    <3>2. outcome' \in [Calls -> Outcomes]
      BY <3>1 DEF Ledger, Outcomes
    <3>3. cur' = 0 /\ UNCHANGED <<execing, out>> /\ execing = FALSE
      BY <1>23 DEF ExecuteReturns, Ledger, Flags
    <3> QED BY <3>2, <3>3 DEF Ledger
  <2>4. Stack' BY <1>23 DEF Flags, Stack, ExecuteReturns, Becomes
  <2>5. Texts'
    <3>1. (answer' = answer \/ answer' = [answer EXCEPT ![cur] = stash]) /\ stash' = <<>>
      BY <1>23 DEF ExecuteReturns
    <3>2. answer' \in [Calls -> Seq(Units)]
      BY <3>1 DEF Texts
    <3>3. UNCHANGED <<buf, heard, reply, inbox>>
      BY <1>23 DEF ExecuteReturns
    <3> QED BY <3>1, <3>2, <3>3 DEF Texts
  <2> QED BY <2>1, <2>2, <2>3, <2>4, <2>5 DEF Types
<1>24. CASE ExecuteReturnsNull
  <2>1. Flags' BY <1>24 DEF Flags, ExecuteReturnsNull
  <2>2. Line' BY <1>24 DEF Line, ExecuteReturnsNull
  <2>3. Ledger' BY <1>24 DEF Flags, Ledger, Outcomes, Calls, ExecuteReturnsNull
  <2>4. Stack' BY <1>24 DEF Flags, Stack, ExecuteReturnsNull
  <2>5. Texts' BY <1>24 DEF Texts, Ledger, ExecuteReturnsNull
  <2> QED BY <2>1, <2>2, <2>3, <2>4, <2>5 DEF Types
<1>25. CASE TimeOut
  <2>1. Flags'
    <3>1. CASE left = 0
      BY <1>25, <3>1 DEF Flags, TimeOut, Unregister, NoCall, NoSource
    <3>2. CASE left # 0
      <4>1. left' \in Nat BY <1>25, <3>2 DEF Flags, TimeOut, Unregister
      <4> QED BY <1>25, <3>2, <4>1 DEF Flags, TimeOut, Unregister
    <3> QED BY <3>1, <3>2
  <2>2. Line' BY <1>25 DEF Line, TimeOut, Unregister, NoCall, NoSource, Becomes
  <2>3. Ledger'
    <3>1. outcome' = [outcome EXCEPT ![cur] = "timedout"]
      BY <1>25 DEF TimeOut, Becomes
    <3>2. outcome' \in [Calls -> Outcomes]
      BY <3>1 DEF Ledger, Outcomes
    <3>3. /\ cur' \in {0, cur} /\ out' \in {0, out} /\ execing' = FALSE
      BY <1>25 DEF TimeOut, Unregister, NoCall, NoSource
    <3> QED BY <3>2, <3>3 DEF Ledger
  <2>4. Stack' BY <1>25 DEF Flags, Stack, TimeOut, Unregister, NoCall, NoSource, Becomes
  <2>5. Texts' BY <1>25 DEF Texts, Ledger, TimeOut, Unregister, NoCall, NoSource, Becomes
  <2> QED BY <2>1, <2>2, <2>3, <2>4, <2>5 DEF Types
<1>26. CASE UNCHANGED vars
  <2>1. Flags' BY <1>26 DEF Flags, vars
  <2>2. Line' BY <1>26 DEF Line, vars
  <2>3. Ledger' BY <1>26 DEF Flags, Ledger, Outcomes, Calls, vars
  <2>4. Stack' BY <1>26 DEF Flags, Stack, vars
  <2>5. Texts' BY <1>26 DEF Texts, Ledger, vars
  <2> QED BY <2>1, <2>2, <2>3, <2>4, <2>5 DEF Types
<1> QED
  BY <1>1, <1>2, <1>3, <1>4, <1>5, <1>6, <1>7, <1>8, <1>9, <1>10, <1>11, <1>12, <1>13,
       <1>14, <1>15, <1>16, <1>17, <1>18, <1>19, <1>20, <1>21, <1>22, <1>23, <1>24,
       <1>25, <1>26
     DEF Next, Application, Steps, Returns, Raises

-----------------------------------------------------------------------------
(* The client works on a call, or execute has yet to return from it.       *)
Busy == execing \/ pc = "exec"

(* The application's thread and the calls: execute runs its own dispatcher *)
(* and nothing else does, the call that the client works on is pending, and*)
(* no other one is if execing is not reset during a call.                  *)
Thread ==
  /\ pc = "exec" => disp # "own"
  /\ disp = "temp" => pc \in {"exec", "crashed"}
  /\ pc # "crashed" =>
       /\ Busy => cur \in Calls /\ outcome[cur] = "pending"
       /\ "overlap" \notin Careless => \A k \in Calls : outcome[k] = "pending" => Busy /\ k = cur

(* Every step keeps Thread, whatever mistakes the application makes.       *)
LEMMA StepThread == Types /\ Thread /\ [Next]_vars => Thread'
<1> SUFFICES ASSUME Types, Thread, [Next]_vars PROVE Thread' OBVIOUS
<1> USE DEF Types, Flags, Ledger, Thread, Busy, call, thread, net
<1>1. CASE Server
  BY <1>1
     DEF Server, Wire!Serve, Wire!Establish, Wire!Answer, Wire!RefuseTorn, Wire!SendSome
<1>2. CASE Drop
  BY <1>2 DEF Drop, Wire!Drop, Wire!net
<1>3. ASSUME NEW k \in Calls, NbExecute(k) PROVE Thread'
  BY <1>3 DEF NbExecute, Queue, Becomes, PythonRuns, MayCall, NextCall
<1>4. ASSUME NEW k \in Calls, NbExecuteRefused(k) PROVE Thread'
  BY <1>4 DEF NbExecuteRefused, Becomes, PythonRuns, MayCall, NextCall
<1>5. ASSUME NEW k \in Calls, Execute(k) PROVE Thread'
  BY <1>5 DEF Execute, Queue, Becomes, PythonRuns, MayCall, NextCall
<1>6. ASSUME NEW k \in Calls, ExecuteRefused(k) PROVE Thread'
  BY <1>6 DEF ExecuteRefused, Becomes, PythonRuns, MayCall, NextCall
<1>7. CASE Close
  BY <1>7 DEF Close, Hangup, PythonRuns
<1>8. CASE Work
  BY <1>8 DEF Work
<1>9. CASE EndWork
  BY <1>9 DEF EndWork, Outside
<1>10. CASE Connect
  BY <1>10 DEF Connect
<1>11. CASE Connected
  BY <1>11 DEF Connected
<1>12. CASE WriteSome
  BY <1>12 DEF WriteSome, Called, Running
<1>13. CASE ReadMore
  BY <1>13 DEF ReadMore, Reads, Called, Heard, Data, Running
<1>14. CASE CallBack
  BY <1>14
     DEF CallBack, Reads, Called, Heard, NoCall, NoSource, Becomes, Data, KeepAlive,
       Running
<1>15. CASE Executed
  BY <1>15 DEF Executed, Reads, Called, Heard, NoSource, Hangup, Data, Running
<1>16. ASSUME NEW flags \in OnErr, ConnectFails(flags) PROVE Thread'
  BY <1>16 DEF ConnectFails, Fail, NoSource, Becomes, Outside, Called, Keeps, Running
<1>17. ASSUME NEW flags \in OnErr, ConnectingFails(flags) PROVE Thread'
  BY <1>17 DEF ConnectingFails, Fail, NoSource, Becomes, Outside, Called, Hangup,
       Running
<1>18. ASSUME NEW flags \in OnErr, WriteFails(flags) PROVE Thread'
  BY <1>18 DEF WriteFails, Fail, NoSource, Becomes, Outside, Called, Hangup, Running
<1>19. ASSUME NEW flags \in OnErr, ReadFails(flags) PROVE Thread'
  BY <1>19
     DEF ReadFails, Reads, Heard, Fail, NoSource, Becomes, Outside, Called, Hangup,
       Running
<1>20. CASE AssertionFails
  BY <1>20 DEF AssertionFails, Running
<1>21. CASE CallbackReturns
  BY <1>21 DEF CallbackReturns, Hangup, Front
<1>22. ASSUME NEW flags \in OnErr, CallbackRaises(flags) PROVE Thread'
  BY <1>22 DEF CallbackRaises, Hangup, Front
<1>23. CASE ExecuteReturns
  BY <1>23 DEF ExecuteReturns, Becomes
<1>24. CASE ExecuteReturnsNull
  BY <1>24 DEF ExecuteReturnsNull
<1>25. CASE TimeOut
  BY <1>25 DEF TimeOut, Unregister, NoCall, NoSource, Becomes
<1>26. CASE UNCHANGED vars
  BY <1>26 DEF vars
<1> QED
  BY <1>1, <1>2, <1>3, <1>4, <1>5, <1>6, <1>7, <1>8, <1>9, <1>10, <1>11, <1>12, <1>13,
       <1>14, <1>15, <1>16, <1>17, <1>18, <1>19, <1>20, <1>21, <1>22, <1>23, <1>24,
       <1>25, <1>26
     DEF Next, Application, Steps, Returns, Raises

(* Every step does to the outcomes what RpcCalls lets it do.               *)
LEMMA StepPromise ==
  ASSUME Types, Thread, [Next]_vars
  PROVE  Promise!Next \/ UNCHANGED outcome
<1> USE DEF Types, Flags, Ledger, Thread, Busy, call, thread, net
<1>1. CASE Server
  BY <1>1
     DEF Server, Wire!Serve, Wire!Establish, Wire!Answer, Wire!RefuseTorn, Wire!SendSome
<1>2. CASE Drop
  BY <1>2 DEF Drop, Wire!Drop, Wire!net
<1>3. ASSUME NEW k \in Calls, NbExecute(k) PROVE Promise!Next \/ UNCHANGED outcome
  BY <1>3
     DEF NbExecute, Queue, Becomes, PythonRuns, MayCall, NextCall, Promise!Next,
       Promise!Issue, Promise!InProgress, Promise!Becomes
<1>4. ASSUME NEW k \in Calls, NbExecuteRefused(k) PROVE Promise!Next \/ UNCHANGED outcome
  BY <1>4
     DEF NbExecuteRefused, Becomes, PythonRuns, MayCall, NextCall, Promise!Next,
       Promise!Refuse, Promise!InProgress, Promise!Becomes
<1>5. ASSUME NEW k \in Calls, Execute(k) PROVE Promise!Next \/ UNCHANGED outcome
  BY <1>5
     DEF Execute, Queue, Becomes, PythonRuns, MayCall, NextCall, Promise!Next,
       Promise!Issue, Promise!InProgress, Promise!Becomes
<1>6. ASSUME NEW k \in Calls, ExecuteRefused(k) PROVE Promise!Next \/ UNCHANGED outcome
  BY <1>6
     DEF ExecuteRefused, Becomes, PythonRuns, MayCall, NextCall, Promise!Next,
       Promise!Refuse, Promise!InProgress, Promise!Becomes
<1>7. CASE Close
  BY <1>7 DEF Close, Hangup, PythonRuns
<1>8. CASE Work
  BY <1>8 DEF Work
<1>9. CASE EndWork
  BY <1>9 DEF EndWork, Outside
<1>10. CASE Connect
  BY <1>10 DEF Connect
<1>11. CASE Connected
  BY <1>11 DEF Connected
<1>12. CASE WriteSome
  BY <1>12 DEF WriteSome, Called, Running
<1>13. CASE ReadMore
  BY <1>13 DEF ReadMore, Reads, Called, Heard, Data, Running
<1>14. CASE CallBack
  BY <1>14
     DEF CallBack, Reads, Called, Heard, NoCall, NoSource, Becomes, Data, KeepAlive,
       Running, Promise!Next, Promise!Answer, Promise!InProgress, Promise!Becomes
<1>15. CASE Executed
  BY <1>15 DEF Executed, Reads, Called, Heard, NoSource, Hangup, Data, Running
<1>16. ASSUME NEW flags \in OnErr, ConnectFails(flags) PROVE Promise!Next \/ UNCHANGED outcome
  BY <1>16
     DEF ConnectFails, Fail, NoSource, Becomes, Outside, Called, Keeps, Running,
       Promise!Next, Promise!Fail, Promise!InProgress, Promise!Becomes
<1>17. ASSUME NEW flags \in OnErr, ConnectingFails(flags) PROVE Promise!Next \/ UNCHANGED outcome
  BY <1>17
     DEF ConnectingFails, Fail, NoSource, Becomes, Outside, Called, Hangup, Running,
       Promise!Next, Promise!Fail, Promise!InProgress, Promise!Becomes
<1>18. ASSUME NEW flags \in OnErr, WriteFails(flags) PROVE Promise!Next \/ UNCHANGED outcome
  BY <1>18
     DEF WriteFails, Fail, NoSource, Becomes, Outside, Called, Hangup, Running,
       Promise!Next, Promise!Fail, Promise!InProgress, Promise!Becomes
<1>19. ASSUME NEW flags \in OnErr, ReadFails(flags) PROVE Promise!Next \/ UNCHANGED outcome
  BY <1>19
     DEF ReadFails, Reads, Heard, Fail, NoSource, Becomes, Outside, Called, Hangup,
       Running, Promise!Next, Promise!Fail, Promise!InProgress, Promise!Becomes
<1>20. CASE AssertionFails
  BY <1>20 DEF AssertionFails, Running
<1>21. CASE CallbackReturns
  BY <1>21 DEF CallbackReturns, Hangup, Front
<1>22. ASSUME NEW flags \in OnErr, CallbackRaises(flags) PROVE Promise!Next \/ UNCHANGED outcome
  BY <1>22 DEF CallbackRaises, Hangup, Front
<1>23. CASE ExecuteReturns
  BY <1>23
     DEF ExecuteReturns, Becomes, Promise!Next, Promise!Answer, Promise!Fail,
       Promise!InProgress, Promise!Becomes
<1>24. CASE ExecuteReturnsNull
  BY <1>24 DEF ExecuteReturnsNull
<1>25. CASE TimeOut
  BY <1>25
     DEF TimeOut, Unregister, NoCall, NoSource, Becomes, Promise!Next, Promise!TimeOut,
       Promise!InProgress, Promise!Becomes
<1>26. CASE UNCHANGED vars
  BY <1>26 DEF vars
<1> QED
  BY <1>1, <1>2, <1>3, <1>4, <1>5, <1>6, <1>7, <1>8, <1>9, <1>10, <1>11, <1>12, <1>13,
       <1>14, <1>15, <1>16, <1>17, <1>18, <1>19, <1>20, <1>21, <1>22, <1>23, <1>24,
       <1>25, <1>26
     DEF Next, Application, Steps, Returns, Raises

(* The client's source is registered, once, exactly while execing is set.  *)
Registered == ExecingSound /\ left = 0

(* execing and the registration change together, unless execute is refused *)
(* and resets execing under the call in progress.                          *)
LEMMA StepExecing ==
  ASSUME "overlap" \notin Careless, Types, Thread, Registered, [Next]_vars
  PROVE  Registered'
<1> USE DEF Types, Flags, Ledger, Thread, Busy, Registered, ExecingSound, call, thread, net
<1>1. CASE Server
  BY <1>1
     DEF Server, Wire!Serve, Wire!Establish, Wire!Answer, Wire!RefuseTorn, Wire!SendSome
<1>2. CASE Drop
  BY <1>2 DEF Drop, Wire!Drop, Wire!net
<1>3. ASSUME NEW k \in Calls, NbExecute(k) PROVE Registered'
  BY <1>3 DEF NbExecute, Queue, Becomes, PythonRuns, MayCall, NextCall
<1>4. ASSUME NEW k \in Calls, NbExecuteRefused(k) PROVE Registered'
  BY <1>4 DEF NbExecuteRefused, Becomes, PythonRuns, MayCall, NextCall
<1>5. ASSUME NEW k \in Calls, Execute(k) PROVE Registered'
  BY <1>5 DEF Execute, Queue, Becomes, PythonRuns, MayCall, NextCall
<1>6. ASSUME NEW k \in Calls, ExecuteRefused(k) PROVE Registered'
  BY <1>6 DEF ExecuteRefused, Becomes, PythonRuns, MayCall, NextCall
<1>7. CASE Close
  BY <1>7 DEF Close, Hangup, PythonRuns
<1>8. CASE Work
  BY <1>8 DEF Work
<1>9. CASE EndWork
  BY <1>9 DEF EndWork, Outside
<1>10. CASE Connect
  BY <1>10 DEF Connect
<1>11. CASE Connected
  BY <1>11 DEF Connected
<1>12. CASE WriteSome
  BY <1>12 DEF WriteSome, Called, Running
<1>13. CASE ReadMore
  BY <1>13 DEF ReadMore, Reads, Called, Heard, Data, Running
<1>14. CASE CallBack
  BY <1>14
     DEF CallBack, Reads, Called, Heard, NoCall, NoSource, Becomes, Data, KeepAlive,
       Running
<1>15. CASE Executed
  BY <1>15 DEF Executed, Reads, Called, Heard, NoSource, Hangup, Data, Running
<1>16. ASSUME NEW flags \in OnErr, ConnectFails(flags) PROVE Registered'
  BY <1>16 DEF ConnectFails, Fail, NoSource, Becomes, Outside, Called, Keeps, Running
<1>17. ASSUME NEW flags \in OnErr, ConnectingFails(flags) PROVE Registered'
  BY <1>17 DEF ConnectingFails, Fail, NoSource, Becomes, Outside, Called, Hangup,
       Running
<1>18. ASSUME NEW flags \in OnErr, WriteFails(flags) PROVE Registered'
  BY <1>18 DEF WriteFails, Fail, NoSource, Becomes, Outside, Called, Hangup, Running
<1>19. ASSUME NEW flags \in OnErr, ReadFails(flags) PROVE Registered'
  BY <1>19
     DEF ReadFails, Reads, Heard, Fail, NoSource, Becomes, Outside, Called, Hangup,
       Running
<1>20. CASE AssertionFails
  BY <1>20 DEF AssertionFails, Running
<1>21. CASE CallbackReturns
  BY <1>21 DEF CallbackReturns, Hangup, Front
<1>22. ASSUME NEW flags \in OnErr, CallbackRaises(flags) PROVE Registered'
  BY <1>22 DEF CallbackRaises, Hangup, Front
<1>23. CASE ExecuteReturns
  BY <1>23 DEF ExecuteReturns, Becomes
<1>24. CASE ExecuteReturnsNull
  BY <1>24 DEF ExecuteReturnsNull
<1>25. CASE TimeOut
  BY <1>25 DEF TimeOut, Unregister, NoCall, NoSource, Becomes
<1>26. CASE UNCHANGED vars
  BY <1>26 DEF vars
<1> QED
  BY <1>1, <1>2, <1>3, <1>4, <1>5, <1>6, <1>7, <1>8, <1>9, <1>10, <1>11, <1>12, <1>13,
       <1>14, <1>15, <1>16, <1>17, <1>18, <1>19, <1>20, <1>21, <1>22, <1>23, <1>24,
       <1>25, <1>26
     DEF Next, Application, Steps, Returns, Raises

-----------------------------------------------------------------------------
(* An application that does not call execute during a call of nbExecute,   *)
(* closes a client whose execute has timed out before it uses it again,    *)
(* makes no call in a callback whose connection is about to be closed, and *)
(* has an error handler that lets the descriptor be closed.                *)
CarefulUse ==
  /\ "overlap" \notin Careless /\ "timeout" \notin Careless /\ "chain" \notin Careless
  /\ \A flags \in OnErr : "KEEP_DEF" \in flags

(* Only the innermost callback may have a connection that is to be closed, *)
(* and then no call is in progress.                                        *)
Chained ==
  /\ \A i \in 1..(Len(cbs) - 1) : cbs[i]
  /\ disp # "none" => \A i \in 1..Len(cbs) : cbs[i]

(* A client whose execute has timed out does nothing.                      *)
Stale == stale => disp = "none" /\ pc # "exec"

(* A call has a stage exactly while its source is registered, and nothing  *)
(* is left of it afterwards.                                               *)
Staged ==
  /\ disp = "none" <=> stage = "none"
  /\ disp = "none" => buf = <<>> /\ out = 0
  /\ disp # "none" => cur \in Calls

(* What CarefulUse makes of the application's steps.                       *)
Duties == Registered /\ Chained /\ Stale /\ Staged

(* Every step of a careful application keeps Duties.                       *)
LEMMA StepDuties ==
  ASSUME CarefulUse, Types, Thread, Duties, [Next]_vars
  PROVE  Duties'
<1>r. Registered' BY StepExecing DEF CarefulUse, Duties
<1> USE <1>r DEF Types, Flags, Stack, Ledger, CarefulUse, Careful, Duties, Chained, Stale, Staged, call, thread, net
<1>1. CASE Server
  BY <1>1
     DEF Server, Wire!Serve, Wire!Establish, Wire!Answer, Wire!RefuseTorn, Wire!SendSome
<1>2. CASE Drop
  BY <1>2 DEF Drop, Wire!Drop, Wire!net
<1>3. ASSUME NEW k \in Calls, NbExecute(k) PROVE Duties'
  BY <1>3 DEF Registered, ExecingSound, NbExecute, Queue, Becomes, PythonRuns, MayCall, NextCall
<1>4. ASSUME NEW k \in Calls, NbExecuteRefused(k) PROVE Duties'
  BY <1>4 DEF NbExecuteRefused, Becomes, PythonRuns, MayCall, NextCall
<1>5. ASSUME NEW k \in Calls, Execute(k) PROVE Duties'
  BY <1>5 DEF Registered, ExecingSound, Execute, Queue, Becomes, PythonRuns, MayCall, NextCall
<1>6. ASSUME NEW k \in Calls, ExecuteRefused(k) PROVE Duties'
  BY <1>6 DEF ExecuteRefused, Becomes, PythonRuns, MayCall, NextCall
<1>7. CASE Close
  BY <1>7 DEF Close, Hangup, PythonRuns
<1>8. CASE Work
  BY <1>8 DEF Work
<1>9. CASE EndWork
  BY <1>9 DEF EndWork, Outside
<1>10. CASE Connect
  BY <1>10 DEF Connect
<1>11. CASE Connected
  BY <1>11 DEF Connected
<1>12. CASE WriteSome
  BY <1>12 DEF WriteSome, Called, Running
<1>13. CASE ReadMore
  BY <1>13 DEF ReadMore, Reads, Called, Heard, Data, Running
<1>14. CASE CallBack
  <2>1. cbs \in Seq(BOOLEAN) /\ Len(cbs) \in Nat /\ disp = "own" /\ \A i \in 1..Len(cbs) : cbs[i]
    BY <1>14 DEF CallBack, Reads, Called, Running
  <2>2. cbs' = Append(cbs, KeepAlive)
    BY <1>14 DEF CallBack
  <2>3. Len(cbs') = Len(cbs) + 1 /\ \A i \in 1..Len(cbs) : cbs'[i] = cbs[i]
    BY <2>1, <2>2
  <2>4. Chained' BY <1>14, <2>1, <2>3 DEF CallBack, NoCall, NoSource
  <2> QED BY <1>14, <2>4 DEF CallBack, NoCall, NoSource
<1>15. CASE Executed
  BY <1>15 DEF Executed, Reads, Called, Heard, NoSource, Hangup, Data, Running
<1>16. ASSUME NEW flags \in OnErr, ConnectFails(flags) PROVE Duties'
  BY <1>16 DEF ConnectFails, Fail, NoSource, Becomes, Outside, Called, Keeps, Running
<1>17. ASSUME NEW flags \in OnErr, ConnectingFails(flags) PROVE Duties'
  BY <1>17 DEF ConnectingFails, Fail, NoSource, Becomes, Outside, Called, Hangup,
       Running
<1>18. ASSUME NEW flags \in OnErr, WriteFails(flags) PROVE Duties'
  BY <1>18 DEF WriteFails, Fail, NoSource, Becomes, Outside, Called, Hangup, Running
<1>19. ASSUME NEW flags \in OnErr, ReadFails(flags) PROVE Duties'
  BY <1>19
     DEF ReadFails, Reads, Heard, Fail, NoSource, Becomes, Outside, Called, Hangup,
       Running
<1>20. CASE AssertionFails
  BY <1>20 DEF AssertionFails, Running
<1>21. CASE CallbackReturns
  <2>1. cbs' = Front(cbs) /\ cbs # <<>> /\ cbs \in Seq(BOOLEAN)
    BY <1>21 DEF CallbackReturns
  <2>2. Len(cbs') = Len(cbs) - 1 /\ Len(cbs) \in Nat \ {0} /\ \A i \in 1..(Len(cbs) - 1) : cbs'[i] = cbs[i]
    BY <2>1, FrontIs
  <2>3. \A i \in 1..Len(cbs') : cbs'[i]
    BY <2>2
  <2>4. Chained' BY <2>2, <2>3
  <2>5. pc' # "exec" BY <1>21 DEF CallbackReturns
  <2> QED BY <1>21, <2>4, <2>5 DEF CallbackReturns
<1>22. ASSUME NEW flags \in OnErr, CallbackRaises(flags) PROVE Duties'
  <2>1. cbs' = Front(cbs) /\ cbs # <<>> /\ cbs \in Seq(BOOLEAN)
    BY <1>22 DEF CallbackRaises
  <2>2. Len(cbs') = Len(cbs) - 1 /\ Len(cbs) \in Nat \ {0} /\ \A i \in 1..(Len(cbs) - 1) : cbs'[i] = cbs[i]
    BY <2>1, FrontIs
  <2>3. \A i \in 1..Len(cbs') : cbs'[i]
    BY <2>2
  <2>4. Chained' BY <2>2, <2>3
  <2>5. pc' # "exec" BY <1>22 DEF CallbackRaises
  <2> QED BY <1>22, <2>4, <2>5 DEF CallbackRaises
<1>23. CASE ExecuteReturns
  BY <1>23 DEF ExecuteReturns, Becomes
<1>24. CASE ExecuteReturnsNull
  BY <1>24 DEF ExecuteReturnsNull
<1>25. CASE TimeOut
  BY <1>25 DEF Registered, TimeOut, Unregister, NoCall, NoSource, Becomes
<1>26. CASE UNCHANGED vars
  BY <1>26 DEF vars
<1> QED
  BY <1>1, <1>2, <1>3, <1>4, <1>5, <1>6, <1>7, <1>8, <1>9, <1>10, <1>11, <1>12, <1>13,
       <1>14, <1>15, <1>16, <1>17, <1>18, <1>19, <1>20, <1>21, <1>22, <1>23, <1>24,
       <1>25, <1>26
     DEF Next, Application, Steps, Returns, Raises

-----------------------------------------------------------------------------
(***************************************************************************)
(* The invariant of Client that tells what is on the connection, by the    *)
(* stage of the call in progress: the argument why matching responses with *)
(* calls by their order is enough.                                         *)
(***************************************************************************)
(* A quotient and its remainder are known from the multiple below.         *)
LEMMA QuotientIs ==
  ASSUME NEW d \in Nat \ {0}, NEW q \in Nat, NEW n \in Nat, q * d <= n, n < (q + 1) * d
  PROVE  n \div d = q /\ n % d = n - q * d
<1> DEFINE p == n \div d
<1>1. p \in Int /\ n % d \in 0..(d - 1) /\ n = d * p + (n % d)
  OBVIOUS
<1>2. p * d <= n /\ n < (p + 1) * d
  BY <1>1
<1> HIDE DEF p
<1>3. CASE p < q
  <2>1. p + 1 <= q BY <1>1, <1>3
  <2>2. (p + 1) * d <= q * d BY <2>1, <1>1
  <2> QED BY <1>1, <1>2, <2>2
<1>4. CASE q < p
  <2>1. q + 1 <= p BY <1>1, <1>4
  <2>2. (q + 1) * d <= p * d BY <2>1, <1>1
  <2> QED BY <1>1, <1>2, <2>2
<1>5. CASE p = q
  <2>1. n % d = n - q * d BY <1>1, <1>5
  <2> QED BY <1>5, <2>1 DEF p
<1> QED BY <1>1, <1>3, <1>4, <1>5

(* What comes before the units of a response.                              *)
Base(k) == (k - 1) * RespUnits

(* A unit tells the call it answers and whether it is the header.          *)
LEMMA UnitIs ==
  ASSUME NEW k \in Calls, NEW i \in 1..RespUnits
  PROVE  /\ Base(k) \in Nat /\ Base(k) + i \in Nat
         /\ Wire!CallOf(Base(k) + i) = k
         /\ IsHeader(Base(k) + i) <=> i = 1
<1> DEFINE n == (Base(k) + i) - 1
           q == k - 1
<1>1. q \in Nat /\ q + 1 = k /\ i \in Nat /\ RespUnits \in Nat \ {0} /\ i <= RespUnits /\ i >= 1
  BY CallsAssumption, ClientUnitsAssumption DEF Calls
<1>2. Base(k) = q * RespUnits /\ Base(k) \in Nat /\ (q + 1) * RespUnits = q * RespUnits + RespUnits
  BY <1>1 DEF Base
<1>3. n \in Nat /\ q * RespUnits <= n /\ n < (q + 1) * RespUnits /\ n - q * RespUnits = i - 1
  BY <1>1, <1>2
<1> HIDE DEF q, n
<1>4. n \div RespUnits = q /\ n % RespUnits = i - 1
  BY <1>1, <1>3, QuotientIs
<1>5. Wire!CallOf(Base(k) + i) = q + 1
  BY <1>4 DEF Wire!CallOf, n
<1>6. IsHeader(Base(k) + i) <=> i - 1 = 0
  BY <1>4 DEF IsHeader, n
<1>7. i - 1 = 0 <=> i = 1
  BY <1>1
<1> QED BY <1>1, <1>2, <1>5, <1>6, <1>7

(* The units of a response, one by one.                                    *)
LEMMA ReplyIs ==
  ASSUME NEW k \in Calls
  PROVE  /\ Wire!Reply(k) \in Seq(Units) /\ Len(Wire!Reply(k)) = RespUnits
         /\ \A i \in 1..RespUnits : Wire!Reply(k)[i] = Base(k) + i
<1>1. Len(Wire!Reply(k)) = RespUnits
  BY ClientUnitsAssumption DEF Wire!Reply
<1>2. \A i \in 1..RespUnits : Wire!Reply(k)[i] = Base(k) + i
  BY DEF Wire!Reply, Base
<1> QED BY <1>1, <1>2, ReplyType

-----------------------------------------------------------------------------
(* How much of the response there is, wherever it is.                      *)
Part == Len(buf) + Len(inbox) + Len(reply)

(* What has been read, what can be read and what is yet to be sent follow  *)
(* each other as the units of the response to the call in progress, and    *)
(* what the server has yet to serve is the request of that call.           *)
Numbers ==
  /\ \A i \in 1..Len(buf) : buf[i] = Base(cur) + i
  /\ \A i \in 1..Len(inbox) : inbox[i] = Base(cur) + (Len(buf) + i)
  /\ \A i \in 1..Len(reply) : reply[i] = Base(cur) + (Len(buf) + Len(inbox) + i)
  /\ Part <= RespUnits
  /\ \A i \in 1..Len(heard) : heard[i] = cur

(* How far the exchange is at each stage of the call: nothing has been     *)
(* sent before it writes, a part of the request while it writes, and the   *)
(* whole of it once it reads, when either the request or the response is   *)
(* under way.                                                              *)
Phase ==
  /\ conn # "up" => heard = <<>> /\ reply = <<>>
  /\ conn \in {"none", "syn"} => inbox = <<>>
  /\ conn = "syn" => stage = "connecting"
  /\ stage = "connect" => conn = "none"
  /\ stage # "read" => buf = <<>> /\ inbox = <<>> /\ reply = <<>>
  /\ stage \in {"none", "connect", "connecting"} => heard = <<>>
  /\ stage \in {"connect", "connecting"} => out = ReqUnits
  /\ stage = "write" => out \in 1..ReqUnits /\ (conn = "up" => Len(heard) = ReqUnits - out)
  /\ stage = "read" =>
       /\ out = 0
       /\ conn = "up" => /\ Part = 0 => Len(heard) = ReqUnits
                         /\ Part # 0 => heard = <<>> /\ Part = RespUnits

(* During an exchange the server ends the connection with the response, if *)
(* it or the network does not fail.                                        *)
Ends ==
  conn = "eof" /\ ~broken /\ Part # 0 /\ (\A i \in 1..Len(cbs) : cbs[i]) =>
    stage = "read" /\ Part = RespUnits /\ kind[cur] \in {"close", "eof", "abrupt"}

(* The exchange of the call in progress, which is lost from sight when     *)
(* execute times out.                                                      *)
Exchange == ~stale => Numbers /\ Phase /\ Ends

(* What has arrived is the beginning of the response.                      *)
LEMMA DataIs ==
  ASSUME Types, Numbers
  PROVE  /\ Data \in Seq(Units) /\ Len(Data) \in Nat /\ Len(Data) = Len(buf) + Len(inbox)
         /\ \A i \in 1..Len(Data) : Data[i] = Base(cur) + i
<1>1. buf \in Seq(Units) /\ inbox \in Seq(Units) /\ Len(buf) \in Nat /\ Len(inbox) \in Nat
  BY LenProperties DEF Types, Texts
<1>2. /\ Data \in Seq(Units) /\ Len(Data) = Len(buf) + Len(inbox)
      /\ \A i \in 1..(Len(buf) + Len(inbox)) :
           Data[i] = IF i <= Len(buf) THEN buf[i] ELSE inbox[i - Len(buf)]
  BY <1>1, ConcatProperties DEF Data
<1>3. ASSUME NEW i \in 1..Len(Data) PROVE Data[i] = Base(cur) + i
  <2>1. CASE i <= Len(buf)
    <3>1. i \in 1..Len(buf) BY <1>1, <1>2, <2>1
    <3> QED BY <1>2, <2>1, <3>1 DEF Numbers
  <2>2. CASE ~(i <= Len(buf))
    <3> DEFINE j == i - Len(buf)
    <3>1. j \in 1..Len(inbox) /\ Len(buf) + j = i BY <1>1, <1>2, <2>2
    <3>2. Data[i] = inbox[j] BY <1>2, <2>2
    <3> HIDE DEF j
    <3>3. inbox[j] = Base(cur) + (Len(buf) + j) BY <3>1 DEF Numbers
    <3> QED BY <3>1, <3>2, <3>3
  <2> QED BY <2>1, <2>2
<1>4. Len(Data) \in Nat BY <1>1, <1>2
<1> QED BY <1>2, <1>3, <1>4

(* So the header that is found is that of the response to the call in      *)
(* progress, and all the rest is its body.                                 *)
LEMMA HeaderIs ==
  ASSUME Types, Numbers, cur \in Calls, HeaderEnds # {}
  PROVE  /\ Len(Data) >= 2 /\ Len(Data) <= RespUnits
         /\ Kind = kind[cur] /\ BodyLength = Len(Data) - 1
         /\ KeepAlive <=> kind[cur] \in {"keep", "abrupt"}
<1>1. /\ Len(Data) \in Nat /\ Len(Data) = Len(buf) + Len(inbox)
      /\ \A i \in 1..Len(Data) : Data[i] = Base(cur) + i
  BY DataIs
<1>2. Len(reply) \in Nat /\ Len(buf) \in Nat /\ Len(inbox) \in Nat /\ RespUnits \in Nat \ {0, 1}
  BY LenProperties, ClientUnitsAssumption DEF Types, Texts
<1>3. Len(Data) <= RespUnits
  BY <1>1, <1>2 DEF Numbers, Part
<1>4. ASSUME NEW i \in 1..Len(Data) PROVE Wire!CallOf(Data[i]) = cur /\ (IsHeader(Data[i]) <=> i = 1)
  <2>1. i \in 1..RespUnits BY <1>1, <1>2, <1>3
  <2>2. Data[i] = Base(cur) + i BY <1>1
  <2> QED BY <2>1, <2>2, UnitIs
<1>5. HeaderEnds = {1} /\ Len(Data) >= 2
  <2>1. PICK i \in HeaderEnds : TRUE OBVIOUS
  <2>2. i \in 1..(Len(Data) - 1) /\ IsHeader(Data[i]) BY <2>1 DEF HeaderEnds
  <2>3. Len(Data) - 1 >= 1 /\ \A j \in 1..(Len(Data) - 1) : j \in 1..Len(Data)
    BY <1>1, <2>2
  <2>4. 1 \in 1..(Len(Data) - 1) BY <1>1, <2>3
  <2>5. \A j \in 1..(Len(Data) - 1) : IsHeader(Data[j]) <=> j = 1 BY <1>4, <2>3
  <2> QED BY <1>1, <2>3, <2>4, <2>5 DEF HeaderEnds
<1>6. Min(HeaderEnds) = 1
  BY <1>5 DEF Min
<1>7. 1 \in 1..Len(Data)
  BY <1>1, <1>5
<1>8. Kind = kind[cur] /\ BodyLength = Len(Data) - 1
  BY <1>4, <1>6, <1>7 DEF Kind, BodyLength
<1>9. KeepAlive <=> kind[cur] \in {"keep", "abrupt"}
  BY <1>4, <1>7, <1>8 DEF KeepAlive
<1> QED BY <1>3, <1>5, <1>8, <1>9

(* What RightAnswer allows to be returned for a call.                      *)
Right(text, k) ==
  text = Wire!Reply(k) \/ (kind[k] \in {"eof", "abrupt"} /\ broken /\ IsPrefix(text, Wire!Reply(k)))

(* The units in their order are the beginning of the response, or all of   *)
(* it.                                                                     *)
LEMMA PrefixIs ==
  ASSUME NEW k \in Calls, NEW text \in Seq(Units), Len(text) <= RespUnits,
         \A i \in 1..Len(text) : text[i] = Base(k) + i
  PROVE  /\ IsPrefix(text, Wire!Reply(k))
         /\ Len(text) = RespUnits => text = Wire!Reply(k)
<1> DEFINE r == Wire!Reply(k)
<1>1. r \in Seq(Units) /\ Len(r) = RespUnits /\ \A i \in 1..RespUnits : r[i] = Base(k) + i
  BY ReplyIs
<1> HIDE DEF r
<1>2. Len(text) \in Nat /\ RespUnits \in Nat /\ \A i \in 1..Len(text) : i \in 1..RespUnits
  BY ClientUnitsAssumption, LenProperties
<1>3. \A i \in 1..Len(text) : text[i] = r[i]
  BY <1>1, <1>2
<1>4. Len(text) = RespUnits => text = r
  BY <1>1, <1>3, SeqEqual
<1>5. IsPrefix(text, r)
  <2>1. \A i \in 1..Len(text) : r[i] \in Units
    BY <1>1, <1>2, ElementOfSeq
  <2>2. /\ SubSeq(r, 1, Len(text)) \in Seq(Units)
        /\ Len(SubSeq(r, 1, Len(text))) = Len(text)
        /\ \A i \in 1..Len(text) : SubSeq(r, 1, Len(text))[i] = r[i]
    BY <1>2, <2>1, SubSeqProperties
  <2>3. /\ SubSeq(text, 1, Len(text)) \in Seq(Units)
        /\ Len(SubSeq(text, 1, Len(text))) = Len(text)
        /\ \A i \in 1..Len(text) : SubSeq(text, 1, Len(text))[i] = text[i]
    <3>1. \A i \in 1..Len(text) : text[i] \in Units BY ElementOfSeq
    <3> QED BY <1>2, <3>1, SubSeqProperties
  <2>4. SubSeq(text, 1, Len(text)) = SubSeq(r, 1, Len(text))
    BY <1>3, <2>2, <2>3, SeqEqual
  <2> QED BY <1>1, <1>2, <2>4 DEF IsPrefix
<1> QED BY <1>4, <1>5 DEF r

(* When readResponse finds the end of the response, it has the response to *)
(* the call in progress, and there is nothing more on the connection.      *)
LEMMA CompleteIs ==
  ASSUME CarefulUse, Types, Duties, Exchange, Reads, ReplyEnds
  PROVE  /\ Data \in Seq(Units) /\ Data # <<>> /\ Right(Data, cur) /\ cur \in Calls
         /\ ~stale /\ disp # "none" /\ heard = <<>> /\ Heard = <<>> /\ reply = <<>>
         /\ conn # "syn" /\ (KeepAlive /\ conn = "eof" => broken \/ kind[cur] = "abrupt")
<1>1. cur \in Calls /\ disp # "none" /\ ~stale /\ \A i \in 1..Len(cbs) : cbs[i]
  BY DEF Reads, Called, Running, Types, Ledger, Duties, Stale, Chained
<1>2. Numbers /\ Phase /\ Ends
  BY <1>1 DEF Exchange
<1>3. /\ Data \in Seq(Units) /\ Len(Data) \in Nat /\ Len(Data) = Len(buf) + Len(inbox)
      /\ \A i \in 1..Len(Data) : Data[i] = Base(cur) + i
  BY <1>2, DataIs
<1>4. /\ Len(Data) >= 2 /\ Len(Data) <= RespUnits
      /\ Kind = kind[cur] /\ BodyLength = Len(Data) - 1
      /\ KeepAlive <=> kind[cur] \in {"keep", "abrupt"}
  BY <1>1, <1>2, HeaderIs DEF ReplyEnds
<1>5. Len(buf) \in Nat /\ Len(inbox) \in Nat /\ Len(reply) \in Nat /\ RespUnits \in Nat \ {0, 1}
  BY LenProperties, ClientUnitsAssumption DEF Types, Texts
<1>6. stage = "read"
  <2>1. buf = <<>> /\ inbox = <<>> => Len(buf) = 0 /\ Len(inbox) = 0 OBVIOUS
  <2> QED BY <1>2, <1>3, <1>4, <2>1 DEF Phase
<1>7. \/ kind[cur] \in {"eof", "abrupt"} /\ conn = "eof"
      \/ kind[cur] \in {"keep", "close"} /\ Len(Data) = RespUnits
  BY <1>3, <1>4, <1>5 DEF ReplyEnds
<1>8. Part # 0 /\ Part = Len(Data) + Len(reply)
  BY <1>3, <1>4, <1>5 DEF Part
<1>9. heard = <<>>
  BY <1>2, <1>6, <1>8 DEF Phase
<1>10. reply = <<>>
  <2>1. CASE conn # "up" BY <1>2, <2>1 DEF Phase
  <2>2. CASE conn = "up"
    <3>1. Len(reply) = 0 BY <1>2, <1>3, <1>5, <1>7, <1>8, <2>2 DEF Numbers
    <3>2. reply \in Seq(Units) BY DEF Types, Texts
    <3> QED BY <3>1, <3>2, EmptySeq
  <2> QED BY <2>1, <2>2
<1>11. Right(Data, cur)
  <2>1. IsPrefix(Data, Wire!Reply(cur)) /\ (Len(Data) = RespUnits => Data = Wire!Reply(cur))
    BY <1>1, <1>3, <1>4, PrefixIs
  <2>2. conn = "eof" /\ ~broken => Len(Data) = RespUnits
    <3>1. Len(reply) = 0 BY <1>10
    <3> QED BY <1>1, <1>2, <1>3, <1>5, <1>8, <3>1 DEF Ends
  <2>3. broken \in BOOLEAN BY DEF Types, Line
  <2> QED BY <1>7, <2>1, <2>2, <2>3 DEF Right
<1>12. conn # "syn"
  BY <1>2, <1>6 DEF Phase
<1>13. KeepAlive /\ conn = "eof" => broken \/ kind[cur] = "abrupt"
  BY <1>1, <1>2, <1>4, <1>8 DEF Ends
<1>14. Data # <<>>
  BY <1>3, <1>4
<1>15. Heard = <<>>
  BY <1>6, <1>9 DEF Heard, AllWritten
<1> QED BY <1>1, <1>3, <1>9, <1>10, <1>11, <1>12, <1>13, <1>14, <1>15

-----------------------------------------------------------------------------
(* Appending the same to a sequence of it.                                 *)
LEMMA Lengthened ==
  ASSUME NEW S, NEW s \in Seq(S), NEW x \in S, NEW n \in Nat, \A i \in 1..Len(s) : s[i] = x
  PROVE  /\ Len(s \o [i \in 1..n |-> x]) = Len(s) + n
         /\ \A j \in 1..Len(s \o [i \in 1..n |-> x]) : (s \o [i \in 1..n |-> x])[j] = x
<1> DEFINE t == [i \in 1..n |-> x]
<1>1. t \in Seq(S) /\ Len(t) = n /\ \A i \in 1..n : t[i] = x
  OBVIOUS
<1> HIDE DEF t
<1>2. Len(s \o t) = Len(s) + Len(t) /\ Len(s) \in Nat
      /\ \A i \in 1..(Len(s) + Len(t)) : (s \o t)[i] = IF i <= Len(s) THEN s[i] ELSE t[i - Len(s)]
  BY <1>1, ConcatProperties, LenProperties
<1>3. \A j \in 1..(Len(s) + n) : (s \o t)[j] = x
  BY <1>1, <1>2
<1> QED BY <1>1, <1>2, <1>3 DEF t

(* Moving the beginning of one sequence to the end of another.             *)
LEMMA Moved ==
  ASSUME NEW S, NEW s \in Seq(S), NEW t \in Seq(S), NEW n \in 1..Len(t)
  PROVE  /\ Len(s \o SubSeq(t, 1, n)) = Len(s) + n
         /\ Len(SubSeq(t, n + 1, Len(t))) = Len(t) - n
         /\ \A i \in 1..Len(s \o SubSeq(t, 1, n)) :
              (s \o SubSeq(t, 1, n))[i] = IF i <= Len(s) THEN s[i] ELSE t[i - Len(s)]
         /\ \A i \in 1..Len(SubSeq(t, n + 1, Len(t))) : SubSeq(t, n + 1, Len(t))[i] = t[n + i]
<1> DEFINE u == SubSeq(t, 1, n)
           v == SubSeq(t, n + 1, Len(t))
<1>0. Len(s) \in Nat /\ Len(t) \in Nat /\ n \in Nat /\ n >= 1 /\ n <= Len(t)
  BY LenProperties
<1>1. u \in Seq(S) /\ Len(u) = n /\ \A i \in 1..n : u[i] = t[i]
  <2>1. \A i \in 1..n : t[i] \in S BY <1>0, ElementOfSeq
  <2> QED BY <1>0, <2>1, SubSeqProperties
<1>2. Len(v) = Len(t) - n /\ \A i \in 1..Len(v) : v[i] = t[n + i]
  BY <1>0
<1> HIDE DEF u, v
<1>3. Len(s \o u) = Len(s) + Len(u)
      /\ \A i \in 1..(Len(s) + Len(u)) : (s \o u)[i] = IF i <= Len(s) THEN s[i] ELSE u[i - Len(s)]
  BY <1>1, ConcatProperties
<1>4. \A i \in 1..(Len(s) + n) : ~(i <= Len(s)) => u[i - Len(s)] = t[i - Len(s)]
  BY <1>0, <1>1
<1> QED BY <1>1, <1>2, <1>3, <1>4 DEF u, v

-----------------------------------------------------------------------------
(* With no call in progress, there is nothing on the connection.           *)
LEMMA Silent ==
  ASSUME Types, Duties, Numbers, Phase, disp = "none"
  PROVE  heard = <<>> /\ reply = <<>> /\ inbox = <<>> /\ buf = <<>> /\ conn # "syn" /\ stage = "none"
BY DEF Duties, Staged, Phase

(* Numbers holds of a connection with nothing on it.                       *)
LEMMA Emptied ==
  ASSUME heard' = <<>>, reply' = <<>>, inbox' = <<>>, buf' = <<>>
  PROVE  Numbers' /\ Part' = 0
<1>1. Part' = 0
  BY DEF Part
<1> QED BY <1>1, ClientUnitsAssumption DEF Numbers

(* So does all of Exchange, when the call has ended.                       *)
LEMMA Rested ==
  ASSUME heard' = <<>>, reply' = <<>>, inbox' = <<>>, buf' = <<>>, stage' = "none", conn' # "syn"
  PROVE  Numbers' /\ Phase' /\ Ends'
<1>1. Numbers' /\ Part' = 0 BY Emptied
<1>2. Phase' BY DEF Phase
<1>3. Ends' BY <1>1 DEF Ends
<1> QED BY <1>1, <1>2, <1>3

(* When the server has heard enough for a request, it is the one of the    *)
(* call in progress, and there is nothing of its response.                 *)
LEMMA HeardIs ==
  ASSUME Types, Duties, Numbers, Phase, conn = "up", Len(heard) >= ReqUnits
  PROVE  /\ stage = "read" /\ Part = 0 /\ Len(heard) = ReqUnits /\ cur \in Calls
         /\ heard[1] = cur /\ Wire!Whole(cur)
<1>u. ReqUnits \in Nat \ {0} /\ Len(heard) \in Nat
  BY ClientUnitsAssumption, LenProperties DEF Types, Texts
<1>1. Len(heard) # 0 /\ heard # <<>> BY <1>u
<1>2. stage \notin {"none", "connect", "connecting"} BY <1>1 DEF Phase
<1>3. stage # "write" BY <1>u DEF Phase
<1>4. stage = "read" /\ cur \in Calls BY <1>2, <1>3 DEF Types, Flags, Duties, Staged
<1>5. Part = 0 /\ Len(heard) = ReqUnits BY <1>1, <1>4 DEF Phase
<1>6. heard[1] = cur BY <1>1, <1>u DEF Numbers
<1>7. Wire!Whole(cur) BY <1>5 DEF Wire!Whole, Numbers
<1> QED BY <1>4, <1>5, <1>6, <1>7

(* Every step of a careful application keeps Exchange.                     *)
LEMMA StepExchange ==
  ASSUME CarefulUse, Types, Duties, Exchange, [Next]_vars
  PROVE  Exchange'
<1> DEFINE Goal == Numbers' /\ Phase' /\ Ends'
<1> SUFFICES ASSUME ~stale' PROVE Goal BY DEF Exchange
<1> USE DEF call, thread, net
<1>u. ReqUnits \in Nat \ {0} /\ RespUnits \in Nat \ {0, 1}
  BY ClientUnitsAssumption
<1>t. /\ buf \in Seq(Units) /\ heard \in Seq(Calls) /\ reply \in Seq(Units) /\ inbox \in Seq(Units)
      /\ Len(buf) \in Nat /\ Len(heard) \in Nat /\ Len(reply) \in Nat /\ Len(inbox) \in Nat
  BY LenProperties DEF Types, Texts
<1>1. CASE Server
  <2>0. ~stale /\ Numbers /\ Phase /\ Ends /\ UNCHANGED <<cur, out, buf, stage, cbs>>
    BY <1>1 DEF Exchange, Server
  <2>1. CASE Wire!Establish
    <3>1. conn = "syn" /\ conn' = "up" /\ UNCHANGED <<heard, reply, inbox>>
      BY <2>1 DEF Wire!Establish
    <3>2. Numbers' BY <2>0, <3>1 DEF Numbers, Part
    <3>3. Phase' BY <2>0, <3>1 DEF Phase
    <3>4. Ends' BY <3>1 DEF Ends
    <3> QED BY <3>2, <3>3, <3>4
  <2>3. ASSUME NEW k \in Calls, Wire!Answer(k) PROVE Goal
    <3>1. /\ conn = "up" /\ Len(heard) >= ReqUnits /\ heard[1] = k
          /\ reply' = Wire!Reply(k) /\ heard' = SubSeq(heard, ReqUnits + 1, Len(heard))
          /\ UNCHANGED <<conn, inbox, broken>>
      BY <2>3, <1>u DEF Wire!Answer, Wire!Whole
    <3>2. stage = "read" /\ Part = 0 /\ Len(heard) = ReqUnits /\ k = cur
      BY <2>0, <3>1, HeardIs
    <3>3. heard' = <<>>
      BY <3>1, <3>2, <1>t, <1>u
    <3>4. Len(buf) = 0 /\ Len(inbox) = 0 BY <3>2, <1>t DEF Part
    <3>5. Len(reply') = RespUnits /\ \A i \in 1..RespUnits : reply'[i] = Base(cur) + i
      BY <3>1, <3>2, ReplyIs
    <3>6. Part' = RespUnits BY <2>0, <3>1, <3>4, <3>5, <1>u DEF Part
    <3>7. /\ 1..Len(buf') = {} /\ 1..Len(inbox') = {} /\ 1..Len(heard') = {}
          /\ Len(buf') + Len(inbox') = 0
      <4>1. Len(buf') = 0 /\ Len(inbox') = 0 /\ Len(heard') = 0
        BY <2>0, <3>1, <3>3, <3>4
      <4> QED BY <4>1
    <3>11. ASSUME NEW i \in 1..Len(reply') PROVE reply'[i] = Base(cur) + (Len(buf') + Len(inbox') + i)
      BY <3>5, <3>7
    <3>8. Numbers' BY <2>0, <3>5, <3>6, <3>7, <3>11, <1>u DEF Numbers
    <3>9. Phase' BY <2>0, <3>1, <3>2, <3>3, <3>6, <1>u DEF Phase
    <3>10. Ends' BY <3>1 DEF Ends
    <3> QED BY <3>8, <3>9, <3>10
  <2>4. CASE Wire!RefuseTorn
    <3>1. conn = "up" /\ Len(heard) >= ReqUnits /\ ~\E k \in Calls : Wire!Whole(k)
      BY <2>4 DEF Wire!RefuseTorn
    <3>2. cur \in Calls /\ Wire!Whole(cur) BY <2>0, <3>1, HeardIs
    <3> QED BY <3>1, <3>2
  <2>5. CASE Wire!SendSome
    <3> DEFINE a == Len(buf) + Len(inbox)
    <3>1. PICK n \in 1..Len(reply) :
            /\ inbox' = inbox \o SubSeq(reply, 1, n) /\ reply' = SubSeq(reply, n + 1, Len(reply))
            /\ IF n = Len(reply) /\ kind[Wire!CallOf(reply[1])] \in {"close", "eof", "abrupt"}
               THEN conn' = "eof" /\ heard' = <<>>
               ELSE UNCHANGED <<conn, heard>>
      BY <2>5 DEF Wire!SendSome
    <3>2. conn = "up" /\ UNCHANGED <<kind, broken>> BY <2>5 DEF Wire!SendSome
    <3>3. Len(reply) >= 1 /\ n \in Nat /\ reply # <<>> BY <3>1, <1>t
    <3>4. stage = "read" /\ cur \in Calls
      BY <2>0, <3>3 DEF Phase, Types, Flags, Duties, Staged
    <3>5. Part = RespUnits /\ heard = <<>>
      BY <2>0, <3>2, <3>3, <3>4, <1>t DEF Phase, Part
    <3>6. Wire!CallOf(reply[1]) = cur
      <4>1. a + 1 \in 1..RespUnits /\ 1 \in 1..Len(reply) BY <3>3, <3>5, <1>t DEF Part
      <4>2. reply[1] = Base(cur) + (a + 1) BY <2>0, <4>1 DEF Numbers
      <4> HIDE DEF a
      <4> QED BY <3>4, <4>1, <4>2, UnitIs
    <3>7. heard' = <<>> BY <3>1, <3>5
    <3>8. /\ Len(inbox') = Len(inbox) + n /\ Len(reply') = Len(reply) - n
          /\ \A i \in 1..Len(inbox') : inbox'[i] = IF i <= Len(inbox) THEN inbox[i] ELSE reply[i - Len(inbox)]
          /\ \A i \in 1..Len(reply') : reply'[i] = reply[n + i]
      BY <3>1, Moved, <1>t
    <3>9. Part' = RespUnits BY <2>0, <3>3, <3>5, <3>8, <1>t DEF Part
    <3>10. ASSUME NEW i \in 1..Len(inbox') PROVE inbox'[i] = Base(cur) + (Len(buf) + i)
      <4>1. CASE i <= Len(inbox)
        <5>1. i \in 1..Len(inbox) BY <4>1, <3>8
        <5> QED BY <2>0, <3>8, <4>1, <5>1 DEF Numbers
      <4>2. CASE ~(i <= Len(inbox))
        <5>1. i - Len(inbox) \in 1..Len(reply) /\ Len(buf) + Len(inbox) + (i - Len(inbox)) = Len(buf) + i
          BY <3>1, <3>8, <4>2, <1>t
        <5> QED BY <2>0, <3>8, <4>2, <5>1 DEF Numbers
      <4> QED BY <4>1, <4>2
    <3>11. ASSUME NEW i \in 1..Len(reply') PROVE reply'[i] = Base(cur) + (Len(buf) + Len(inbox') + i)
      <4>1. n + i \in 1..Len(reply) /\ Len(buf) + Len(inbox) + (n + i) = Len(buf) + Len(inbox') + i
        BY <3>1, <3>8, <1>t
      <4> QED BY <2>0, <3>8, <4>1 DEF Numbers
    <3>12. Numbers'
      BY <2>0, <3>7, <3>9, <3>10, <3>11, <1>u DEF Numbers
    <3>13. conn' # "up" => reply' = <<>>
      <4>1. conn' # "up" => n = Len(reply) BY <3>1, <3>2
      <4>2. n = Len(reply) => Len(reply') = 0 BY <3>8, <1>t
      <4>3. reply' \in Seq(Units) BY <3>1, <1>t
      <4> QED BY <4>1, <4>2, <4>3, EmptySeq
    <3>14. Phase'
      BY <2>0, <3>1, <3>2, <3>4, <3>7, <3>9, <3>13, <1>u DEF Phase
    <3>15. Ends'
      BY <2>0, <3>1, <3>2, <3>4, <3>6, <3>9 DEF Ends
    <3> QED BY <3>12, <3>14, <3>15
  <2> QED BY <1>1, <2>1, <2>3, <2>4, <2>5 DEF Server, Wire!Serve
<1>2. CASE Drop
  <2>0. ~stale /\ Numbers /\ Phase /\ UNCHANGED <<cur, out, buf, stage>> /\ broken' = TRUE
    BY <1>2 DEF Exchange, Drop, Wire!Drop
  <2>1. \/ UNCHANGED <<conn, heard, reply, inbox>>
        \/ conn = "up" /\ conn' = "eof" /\ heard' = <<>> /\ reply' = <<>> /\ inbox' = inbox
        \/ conn \in {"syn", "up", "eof"} /\ conn' = "reset" /\ heard' = <<>> /\ reply' = <<>> /\ inbox' = <<>>
    BY <1>2 DEF Drop, Wire!Drop, Wire!net
  <2>2. Ends' BY <2>0 DEF Ends
  <2>3. CASE UNCHANGED <<conn, heard, reply, inbox>>
    <3>1. Numbers' BY <2>0, <2>3 DEF Numbers, Part
    <3>2. Phase' BY <2>0, <2>3 DEF Phase, Part
    <3> QED BY <2>2, <3>1, <3>2
  <2>4. CASE conn = "up" /\ conn' = "eof" /\ heard' = <<>> /\ reply' = <<>> /\ inbox' = inbox
    <3>1. Numbers' BY <2>0, <2>4, <1>t, <1>u DEF Numbers, Part
    <3>2. Phase' BY <2>0, <2>4 DEF Phase
    <3> QED BY <2>2, <3>1, <3>2
  <2>5. CASE conn \in {"syn", "up", "eof"} /\ conn' = "reset" /\ heard' = <<>> /\ reply' = <<>> /\ inbox' = <<>>
    <3>1. Numbers' BY <2>0, <2>5, <1>t, <1>u DEF Numbers, Part
    <3>2. Phase' BY <2>0, <2>5 DEF Phase
    <3> QED BY <2>2, <3>1, <3>2
  <2> QED BY <2>1, <2>3, <2>4, <2>5
<1>3. ASSUME NEW k \in Calls, NbExecute(k) PROVE Goal
  <2>0. ~stale /\ Numbers /\ Phase /\ Ends /\ disp = "none" /\ \A i \in 1..Len(cbs) : cbs[i]
    BY <1>3
       DEF Exchange, NbExecute, Queue, Becomes, MayCall, CarefulUse, Careful, Duties,
         Registered, ExecingSound
  <2>1. heard = <<>> /\ reply = <<>> /\ inbox = <<>> /\ conn # "syn" /\ stage = "none"
    BY <2>0, Silent
  <2>2. /\ heard' = <<>> /\ reply' = <<>> /\ inbox' = <<>> /\ buf' = <<>> /\ conn' = conn /\ broken' = broken
        /\ stage' = (IF fd THEN "write" ELSE "connect") /\ out' = ReqUnits /\ cbs' = cbs
    BY <1>3, <2>1 DEF NbExecute, Queue, Becomes
  <2>3. Numbers' /\ Part' = 0 BY <2>2, Emptied
  <2>4. Phase' BY <2>1, <2>2, <1>u DEF Phase, Types, Line
  <2>5. Ends' BY <2>3 DEF Ends
  <2> QED BY <2>3, <2>4, <2>5
<1>4. ASSUME NEW k \in Calls, NbExecuteRefused(k) PROVE Goal
  <2>0. ~stale /\ Numbers /\ Phase /\ Ends
    BY <1>4 DEF Exchange, NbExecuteRefused, Becomes
  <2>8. Numbers' BY <1>4, <2>0, <1>u DEF Numbers, Part, NbExecuteRefused, Becomes
  <2>9. Phase' BY <1>4, <2>0, <1>u, <1>t DEF Phase, Part, NbExecuteRefused, Becomes
  <2>10. Ends' BY <1>4, <2>0, <1>u DEF Ends, Part, Phase, NbExecuteRefused, Becomes
  <2> QED BY <2>8, <2>9, <2>10
<1>5. ASSUME NEW k \in Calls, Execute(k) PROVE Goal
  <2>0. ~stale /\ Numbers /\ Phase /\ Ends /\ disp = "none" /\ \A i \in 1..Len(cbs) : cbs[i]
    BY <1>5
       DEF Exchange, Execute, Queue, Becomes, CarefulUse, Careful, PythonRuns, MayCall,
         Duties, Registered, ExecingSound
  <2>1. heard = <<>> /\ reply = <<>> /\ inbox = <<>> /\ conn # "syn" /\ stage = "none"
    BY <2>0, Silent
  <2>2. /\ heard' = <<>> /\ reply' = <<>> /\ inbox' = <<>> /\ buf' = <<>> /\ conn' = conn /\ broken' = broken
        /\ stage' = (IF fd THEN "write" ELSE "connect") /\ out' = ReqUnits /\ cbs' = cbs
    BY <1>5, <2>1 DEF Execute, Queue, Becomes, MayCall, PythonRuns
  <2>3. Numbers' /\ Part' = 0 BY <2>2, Emptied
  <2>4. Phase' BY <2>1, <2>2, <1>u DEF Phase, Types, Line
  <2>5. Ends' BY <2>3 DEF Ends
  <2> QED BY <2>3, <2>4, <2>5
<1>6. ASSUME NEW k \in Calls, ExecuteRefused(k) PROVE Goal
  <2>0. ~stale /\ Numbers /\ Phase /\ Ends BY <1>6 DEF Exchange, ExecuteRefused, Becomes
  <2>8. Numbers' BY <1>6, <2>0, <1>u DEF Numbers, Part, ExecuteRefused, Becomes
  <2>9. Phase' BY <1>6, <2>0, <1>u, <1>t DEF Phase, Part, ExecuteRefused, Becomes
  <2>10. Ends' BY <1>6, <2>0, <1>u DEF Ends, Part, Phase, ExecuteRefused, Becomes
  <2> QED BY <2>8, <2>9, <2>10
<1>7. CASE Close
  <2>1. heard' = <<>> /\ reply' = <<>> /\ inbox' = <<>> /\ buf' = <<>> /\ stage' = "none" /\ conn' = "none"
    BY <1>7 DEF Close, Hangup, Duties, Staged
  <2> QED BY <2>1, Rested
<1>8. CASE Work
  <2>0. ~stale /\ Numbers /\ Phase /\ Ends BY <1>8 DEF Exchange, Work
  <2>8. Numbers' BY <1>8, <2>0, <1>u DEF Numbers, Part, Work
  <2>9. Phase' BY <1>8, <2>0, <1>u, <1>t DEF Phase, Part, Work
  <2>10. Ends' BY <1>8, <2>0, <1>u DEF Ends, Part, Phase, Work
  <2> QED BY <2>8, <2>9, <2>10
<1>9. CASE EndWork
  <2>0. ~stale /\ Numbers /\ Phase /\ Ends BY <1>9 DEF Exchange, EndWork, Outside
  <2>8. Numbers' BY <1>9, <2>0, <1>u DEF Numbers, Part, EndWork, Outside
  <2>9. Phase' BY <1>9, <2>0, <1>u, <1>t DEF Phase, Part, EndWork, Outside
  <2>10. Ends' BY <1>9, <2>0, <1>u DEF Ends, Part, Phase, EndWork, Outside
  <2> QED BY <2>8, <2>9, <2>10
<1>10. CASE Connect
  <2>0. ~stale /\ Numbers /\ Phase /\ Ends BY <1>10 DEF Exchange, Connect
  <2>8. Numbers' BY <1>10, <2>0, <1>u DEF Numbers, Part, Connect
  <2>9. Phase' BY <1>10, <2>0, <1>u, <1>t DEF Phase, Part, Connect
  <2>10. Ends' BY <1>10, <2>0, <1>u DEF Ends, Part, Phase, Connect
  <2> QED BY <2>8, <2>9, <2>10
<1>11. CASE Connected
  <2>0. ~stale /\ Numbers /\ Phase /\ Ends BY <1>11 DEF Exchange, Connected
  <2>8. Numbers' BY <1>11, <2>0, <1>u DEF Numbers, Part, Connected
  <2>9. Phase' BY <1>11, <2>0, <1>u, <1>t DEF Phase, Part, Connected
  <2>10. Ends' BY <1>11, <2>0, <1>u DEF Ends, Part, Phase, Connected
  <2> QED BY <2>8, <2>9, <2>10
<1>12. CASE WriteSome
  <2>0. /\ ~stale /\ Numbers /\ Phase /\ Ends /\ stage = "write" /\ cur \in Calls /\ conn # "syn"
        /\ UNCHANGED <<cur, stage, buf, conn, reply, inbox, kind, broken, cbs>>
    BY <1>12 DEF Exchange, WriteSome, Called, Types, Ledger, Phase
  <2>1. buf = <<>> /\ inbox = <<>> /\ reply = <<>> /\ out \in 1..ReqUnits /\ (conn = "up" => Len(heard) = ReqUnits - out)
    BY <2>0 DEF Phase
  <2>2. PICK n \in 0..(out - 1) :
          out' = out - n /\ heard' = (IF conn = "up" THEN heard \o [i \in 1..n |-> cur] ELSE heard)
    <3>1. PICK n \in (IF now THEN 0 ELSE 1)..(out - 1) :
            out' = out - n /\ heard' = (IF conn = "up" THEN heard \o [i \in 1..n |-> cur] ELSE heard)
      BY <1>12 DEF WriteSome
    <3>2. n \in 0..(out - 1) BY <2>1, <1>u
    <3> QED BY <3>1, <3>2
  <2>3. out' \in 1..ReqUnits /\ n \in Nat BY <2>1, <2>2, <1>u
  <2>4. CASE conn = "up"
    <3>1. Len(heard') = Len(heard) + n /\ \A i \in 1..Len(heard') : heard'[i] = cur
      BY <2>0, <2>2, <2>3, <2>4, Lengthened, <1>t DEF Numbers
    <3>2. Numbers'
      <4>1. Part' = Part BY <2>0 DEF Part
      <4> QED BY <2>0, <3>1, <4>1 DEF Numbers
    <3>3. Len(heard') = ReqUnits - out'
      <4>1. /\ out' = out - n /\ n \in Nat /\ out \in 1..ReqUnits
            /\ Len(heard) = ReqUnits - out /\ Len(heard') = Len(heard) + n
        BY <2>1, <2>2, <2>3, <2>4, <3>1
      <4>2. out \in Int /\ ReqUnits \in Int BY <4>1, <1>u
      <4> QED BY <4>1, <4>2
    <3>4. Phase' BY <2>0, <2>1, <2>3, <2>4, <3>3 DEF Phase
    <3>5. Ends' BY <2>0, <2>4 DEF Ends
    <3> QED BY <3>2, <3>4, <3>5
  <2>5. CASE conn # "up"
    <3>1. heard' = heard BY <2>2, <2>5
    <3>2. Numbers' BY <2>0, <3>1 DEF Numbers, Part
    <3>4. Phase' BY <2>0, <2>1, <2>3, <2>5, <3>1 DEF Phase
    <3>5. Ends' BY <2>0 DEF Ends, Part
    <3> QED BY <3>2, <3>4, <3>5
  <2> QED BY <2>4, <2>5
<1>13. CASE ReadMore
  <2>0. /\ ~stale /\ Numbers /\ Phase /\ Ends /\ cur \in Calls /\ conn \notin {"eof", "reset"}
        /\ UNCHANGED <<cur, conn, reply, kind, broken, cbs>>
        /\ stage' = "read" /\ out' = 0 /\ buf' = Data /\ heard' = Heard /\ inbox' = <<>>
        /\ (stage = "read" \/ AllWritten)
    BY <1>13 DEF Exchange, ReadMore, Reads, Called, Types, Ledger, ReplyBreaks
  <2>1. Data \in Seq(Units) /\ Len(Data) = Len(buf) + Len(inbox) /\ \A i \in 1..Len(Data) : Data[i] = Base(cur) + i
    BY <2>0, DataIs
  <2>2. Part' = Part
    <3>1. Len(inbox') = 0 BY <2>0
    <3>2. Len(buf') = Len(buf) + Len(inbox) /\ reply' = reply BY <2>0, <2>1
    <3> QED BY <3>1, <3>2, <1>t DEF Part
  <2>3. (\A i \in 1..Len(buf') : buf'[i] = Base(cur) + i) /\ (\A i \in 1..Len(inbox') : inbox'[i] = Base(cur) + (Len(buf') + i))
    <3>1. 1..Len(inbox') = {} BY <2>0
    <3> QED BY <2>0, <2>1, <3>1
  <2>4. \A i \in 1..Len(reply') : reply'[i] = Base(cur) + (Len(buf') + Len(inbox') + i)
    <3>1. Len(buf') + Len(inbox') = Len(buf) + Len(inbox) BY <2>0, <2>1, <1>t
    <3> QED BY <2>0, <3>1 DEF Numbers
  <2>5. CASE stage = "read"
    <3>1. Heard = heard BY <2>5 DEF Heard, AllWritten
    <3>2. Numbers' BY <2>0, <2>2, <2>3, <2>4, <3>1 DEF Numbers
    <3>3. Phase' BY <2>0, <2>2, <2>5, <3>1 DEF Phase
    <3>4. Ends' BY <2>0 DEF Ends
    <3> QED BY <3>2, <3>3, <3>4
  <2>6. CASE stage # "read"
    <3>1. stage = "write" /\ conn = "up" /\ Heard = heard \o [i \in 1..out |-> cur]
      BY <2>0, <2>6 DEF Heard, AllWritten
    <3>2. out \in Nat /\ out <= ReqUnits /\ Len(heard) = ReqUnits - out /\ reply = <<>> /\ Part = 0
      BY <2>0, <2>6, <3>1 DEF Phase, Part
    <3>3. Len(Heard) = Len(heard) + out /\ \A i \in 1..Len(Heard) : Heard[i] = cur
      BY <2>0, <3>1, <3>2, Lengthened, <1>t DEF Numbers
    <3>4. Len(heard') = ReqUnits BY <2>0, <3>2, <3>3, <1>u
    <3>5. Numbers' BY <2>0, <2>2, <2>3, <2>4, <3>3 DEF Numbers
    <3>6. Phase' BY <2>0, <2>2, <3>1, <3>2, <3>4 DEF Phase
    <3>7. Ends' BY <2>0 DEF Ends
    <3> QED BY <3>5, <3>6, <3>7
  <2> QED BY <2>5, <2>6
<1>14. CASE CallBack
  <2>1. Heard = <<>> /\ reply = <<>> /\ conn # "syn"
    BY <1>14, CompleteIs DEF CallBack
  <2>2. /\ heard' = <<>> /\ reply' = <<>> /\ inbox' = <<>> /\ buf' = <<>> /\ stage' = "none"
        /\ conn' = conn
    BY <1>14, <2>1 DEF CallBack, NoCall, NoSource
  <2> QED BY <2>1, <2>2, Rested
<1>15. CASE Executed
  <2>1. Heard = <<>> /\ reply = <<>> /\ conn # "syn"
    BY <1>15, CompleteIs DEF Executed
  <2>2. /\ heard' = <<>> /\ reply' = <<>> /\ inbox' = <<>> /\ buf' = <<>> /\ stage' = "none"
        /\ (conn' = "none" \/ conn' = conn)
    BY <1>15, <2>1 DEF Executed, NoSource, Hangup
  <2> QED BY <2>1, <2>2, Rested
<1>16. ASSUME NEW flags \in OnErr, ConnectFails(flags) PROVE Goal
  <2>0. ~stale /\ Phase /\ stage = "connect" BY <1>16 DEF Exchange, ConnectFails, Fail
  <2>1. heard = <<>> /\ reply = <<>> /\ inbox = <<>> /\ conn = "none" BY <2>0 DEF Phase
  <2>2. heard' = <<>> /\ reply' = <<>> /\ inbox' = <<>> /\ buf' = <<>> /\ stage' = "none" /\ conn' = "none"
    BY <1>16, <2>1 DEF ConnectFails, Fail, NoSource, Keeps, CarefulUse
  <2> QED BY <2>2, Rested
<1>17. ASSUME NEW flags \in OnErr, ConnectingFails(flags) PROVE Goal
  <2>1. heard' = <<>> /\ reply' = <<>> /\ inbox' = <<>> /\ buf' = <<>> /\ stage' = "none" /\ conn' = "none"
    BY <1>17 DEF ConnectingFails, Fail, NoSource, Hangup, Keeps, CarefulUse
  <2> QED BY <2>1, Rested
<1>18. ASSUME NEW flags \in OnErr, WriteFails(flags) PROVE Goal
  <2>1. heard' = <<>> /\ reply' = <<>> /\ inbox' = <<>> /\ buf' = <<>> /\ stage' = "none" /\ conn' = "none"
    BY <1>18 DEF WriteFails, Fail, NoSource, Hangup, Keeps, CarefulUse
  <2> QED BY <2>1, Rested
<1>19. ASSUME NEW flags \in OnErr, ReadFails(flags) PROVE Goal
  <2>1. heard' = <<>> /\ reply' = <<>> /\ inbox' = <<>> /\ buf' = <<>> /\ stage' = "none" /\ conn' = "none"
    BY <1>19 DEF ReadFails, Fail, NoSource, Hangup, Keeps, CarefulUse
  <2> QED BY <2>1, Rested
<1>20. CASE AssertionFails
  <2>0. ~stale /\ Numbers /\ Phase /\ Ends BY <1>20 DEF Exchange, AssertionFails
  <2>8. Numbers' BY <1>20, <2>0, <1>u DEF Numbers, Part, AssertionFails
  <2>9. Phase' BY <1>20, <2>0, <1>u, <1>t DEF Phase, Part, AssertionFails
  <2>10. Ends' BY <1>20, <2>0, <1>u DEF Ends, Part, Phase, AssertionFails
  <2> QED BY <2>8, <2>9, <2>10
<1>21. CASE CallbackReturns
  <2>0. /\ ~stale /\ Numbers /\ Phase /\ Ends /\ cbs # <<>> /\ cbs \in Seq(BOOLEAN)
        /\ UNCHANGED <<cur, out, buf, stage, kind, broken>>
    BY <1>21 DEF Exchange, CallbackReturns, Types, Stack
  <2>1. /\ Len(cbs) \in Nat \ {0} /\ Len(cbs') = Len(cbs) - 1
        /\ \A i \in 1..(Len(cbs) - 1) : cbs'[i] = cbs[i]
    BY <1>21, <2>0, FrontIs DEF CallbackReturns
  <2>2. CASE Last(cbs)
    <3>1. UNCHANGED <<conn, heard, reply, inbox>> BY <1>21, <2>2 DEF CallbackReturns
    <3>2. (\A i \in 1..Len(cbs') : cbs[i]') => \A i \in 1..Len(cbs) : cbs[i]
      BY <2>1, <2>2 DEF Last
    <3>3. Numbers' BY <2>0, <3>1 DEF Numbers, Part
    <3>4. Phase' BY <2>0, <3>1 DEF Phase, Part
    <3>5. Ends' BY <2>0, <3>1, <3>2 DEF Ends, Part
    <3> QED BY <3>3, <3>4, <3>5
  <2>3. CASE ~Last(cbs)
    <3>1. disp = "none"
      <4>1. Len(cbs) \in 1..Len(cbs) /\ ~cbs[Len(cbs)] BY <2>1, <2>3 DEF Last
      <4> QED BY <4>1 DEF Duties, Chained
    <3>2. heard' = <<>> /\ reply' = <<>> /\ inbox' = <<>> /\ buf' = <<>> /\ stage' = "none" /\ conn' = "none"
      BY <1>21, <2>0, <2>3, <3>1, Silent DEF CallbackReturns, Hangup
    <3> QED BY <3>2, Rested
  <2> QED BY <2>2, <2>3
<1>22. ASSUME NEW flags \in OnErr, CallbackRaises(flags) PROVE Goal
  <2>0. /\ ~stale /\ Numbers /\ Phase /\ UNCHANGED <<cur, out, buf, stage>>
        /\ conn' = "none" /\ heard' = <<>> /\ reply' = <<>> /\ inbox' = <<>>
    BY <1>22 DEF Exchange, CallbackRaises, Hangup, Keeps, CarefulUse
  <2>1. Numbers' BY <2>0, <1>t, <1>u DEF Numbers, Part
  <2>2. Phase' BY <2>0 DEF Phase
  <2>3. Ends' BY <2>0 DEF Ends
  <2> QED BY <2>1, <2>2, <2>3
<1>23. CASE ExecuteReturns
  <2>0. ~stale /\ Numbers /\ Phase /\ Ends /\ disp = "none"
    BY <1>23 DEF Exchange, ExecuteReturns
  <2>1. heard = <<>> /\ reply = <<>> /\ inbox = <<>> /\ buf = <<>> /\ conn # "syn" /\ stage = "none"
    BY <2>0, Silent
  <2>2. UNCHANGED <<heard, reply, inbox, buf, conn, stage>>
    BY <1>23 DEF ExecuteReturns
  <2> QED BY <2>1, <2>2, Rested
<1>24. CASE ExecuteReturnsNull
  <2>0. ~stale /\ Numbers /\ Phase /\ Ends BY <1>24 DEF Exchange, ExecuteReturnsNull
  <2>8. Numbers' BY <1>24, <2>0, <1>u DEF Numbers, Part, ExecuteReturnsNull
  <2>9. Phase' BY <1>24, <2>0, <1>u, <1>t DEF Phase, Part, ExecuteReturnsNull
  <2>10. Ends' BY <1>24, <2>0, <1>u DEF Ends, Part, Phase, ExecuteReturnsNull
  <2> QED BY <2>8, <2>9, <2>10
<1>25. CASE TimeOut
  BY <1>25 DEF TimeOut
<1>26. CASE UNCHANGED vars
  <2>0. ~stale /\ Numbers /\ Phase /\ Ends BY <1>26 DEF Exchange, vars
  <2>8. Numbers' BY <1>26, <2>0, <1>u DEF Numbers, Part, vars
  <2>9. Phase' BY <1>26, <2>0, <1>u, <1>t DEF Phase, Part, vars
  <2>10. Ends' BY <1>26, <2>0, <1>u DEF Ends, Part, Phase, vars
  <2> QED BY <2>8, <2>9, <2>10
<1> QED
  BY <1>1, <1>2, <1>3, <1>4, <1>5, <1>6, <1>7, <1>8, <1>9, <1>10, <1>11, <1>12, <1>13,
       <1>14, <1>15, <1>16, <1>17, <1>18, <1>19, <1>20, <1>21, <1>22, <1>23, <1>24,
       <1>25, <1>26
     DEF Next, Application, Steps, Returns, Raises

-----------------------------------------------------------------------------
(***************************************************************************)
(* What Client guarantees for any number of calls, any lengths of requests *)
(* and responses, and any failures of the server and the network: with     *)
(* every mistake of the application, or with those that the theorem names  *)
(* left out.                                                               *)
(***************************************************************************)
(* What execute is about to return is the response to its call.            *)
Stashed == stash # <<>> => pc = "exec" /\ disp = "none" /\ Right(stash, cur)

(* What the server has yet to serve is of calls that have got neither an   *)
(* answer nor an error.                                                    *)
Unended == \A i \in 1..Len(heard) : outcome[heard[i]] \notin {"answered", "failed"}

(* The answers so far are right: RightAnswer, in terms of Right.           *)
Answers == \A k \in Calls : outcome[k] = "answered" => Right(answer[k], k)

(* What is kept for the application, and what may still change it.         *)
Kept == Stashed /\ Unended /\ Answers

(* A step that answers nothing and requests nothing.                       *)
Nothing ==
  /\ UNCHANGED <<kind, broken, answer>>
  /\ stash' = <<>> \/ UNCHANGED <<stash, pc, disp, cur>>
  /\ \A k \in Calls : outcome'[k] # outcome[k] => outcome'[k] # "answered"
  /\ \/ heard' = <<>>
     \/ UNCHANGED heard /\ \A k \in Calls : outcome'[k] # outcome[k] => outcome'[k] # "failed"

(* Such a step keeps Kept.                                                 *)
LEMMA NothingKeeps ==
  ASSUME Types, Kept, Nothing
  PROVE  Kept'
<1>1. \A i \in 1..Len(heard) : heard[i] \in Calls
  BY ElementOfSeq DEF Types, Texts
<1>2. Stashed' BY DEF Nothing, Kept, Stashed, Right
<1>3. Unended' BY <1>1 DEF Nothing, Kept, Unended
<1>4. Answers' BY DEF Nothing, Kept, Answers, Right
<1> QED BY <1>2, <1>3, <1>4 DEF Kept

(* Every step of a careful application keeps Kept.                         *)
LEMMA StepKept ==
  ASSUME CarefulUse, Types, Thread, Duties, Exchange, Kept, [Next]_vars
  PROVE  Kept'
<1> USE DEF call, thread, net
<1>u. ReqUnits \in Nat \ {0} /\ RespUnits \in Nat \ {0, 1}
  BY ClientUnitsAssumption
<1>t. /\ heard \in Seq(Calls) /\ Len(heard) \in Nat /\ outcome \in [Calls -> Outcomes]
      /\ \A i \in 1..Len(heard) : heard[i] \in Calls
  BY LenProperties, ElementOfSeq DEF Types, Texts, Ledger
<1>1. CASE Server
  <2>0. UNCHANGED <<answer, outcome, stash, pc, disp, cur, stale, broken>>
    BY <1>1
       DEF Server, Wire!Serve, Wire!Establish, Wire!Answer, Wire!RefuseTorn,
         Wire!SendSome
  <2>1. CASE UNCHANGED kind /\ (heard' = heard \/ heard' = <<>>)
    <3>1. Stashed' BY <2>0, <2>1 DEF Kept, Stashed, Right
    <3>2. Answers' BY <2>0, <2>1 DEF Kept, Answers, Right
    <3>3. Unended' BY <2>0, <2>1 DEF Kept, Unended
    <3> QED BY <3>1, <3>2, <3>3 DEF Kept
  <2>2. ASSUME NEW k \in Calls, Wire!Answer(k) PROVE Kept'
    <3>1. /\ heard[1] = k /\ 1 \in 1..Len(heard) /\ ReqUnits + 1 \in Nat /\ ReqUnits \in Nat
          /\ heard' = SubSeq(heard, ReqUnits + 1, Len(heard)) /\ Len(heard) >= ReqUnits
      BY <2>2, <1>t, <1>u DEF Wire!Answer, Wire!Whole
    <3>2. ASSUME NEW j \in Calls, j # k PROVE kind'[j] = kind[j]
      BY <2>2, <3>2 DEF Wire!Answer, Types, Line
    <3>3. outcome[k] # "answered" BY <3>1 DEF Kept, Unended
    <3>4. Answers'
      <4>1. ASSUME NEW j \in Calls, outcome[j] = "answered"
            PROVE  answer[j] = Wire!Reply(j) \/ (kind'[j] \in {"eof", "abrupt"} /\ broken' /\ IsPrefix(answer[j], Wire!Reply(j)))
        <5>1. kind'[j] = kind[j] BY <3>2, <3>3, <4>1
        <5>2. Right(answer[j], j) BY <4>1 DEF Kept, Answers
        <5> QED BY <2>0, <5>1, <5>2 DEF Right
      <4> QED BY <2>0, <4>1 DEF Answers, Right
    <3>5. Stashed'
      <4>1. stash = <<>>
        <5>1. SUFFICES ASSUME stash # <<>> PROVE FALSE OBVIOUS
        <5>2. pc = "exec" /\ disp = "none" BY <5>1 DEF Kept, Stashed
        <5>3. ~stale BY <5>2 DEF Duties, Stale
        <5>4. heard = <<>> BY <5>2, <5>3, Silent DEF Exchange
        <5> QED BY <3>1, <5>4
      <4> QED BY <2>0, <4>1 DEF Stashed
    <3>6. Unended'
      <4>1. Len(heard') \in Nat /\ \A i \in 1..Len(heard') : ReqUnits + i \in 1..Len(heard) /\ heard'[i] = heard[ReqUnits + i]
        BY <3>1, <1>t
      <4> QED BY <2>0, <4>1 DEF Kept, Unended
    <3> QED BY <3>4, <3>5, <3>6 DEF Kept
  <2> QED
    BY <1>1, <2>1, <2>2
       DEF Server, Wire!Serve, Wire!Establish, Wire!RefuseTorn, Wire!SendSome
<1>2. CASE Drop
  <2>1. /\ UNCHANGED <<kind, answer, outcome, stash, pc, disp, cur>> /\ broken' = TRUE
        /\ (heard' = heard \/ heard' = <<>>)
    BY <1>2 DEF Drop, Wire!Drop, Wire!net
  <2>2. Stashed' BY <2>1 DEF Kept, Stashed, Right
  <2>3. Answers' BY <2>1 DEF Kept, Answers, Right
  <2>4. Unended' BY <2>1 DEF Kept, Unended
  <2> QED BY <2>2, <2>3, <2>4 DEF Kept
<1>3. ASSUME NEW k \in Calls, NbExecute(k) PROVE Kept'
  <2>1. Nothing
    BY <1>3, <1>t
       DEF NbExecute, Queue, Becomes, Nothing, Kept, Stashed, PythonRuns, MayCall,
         NextCall
  <2> QED BY <2>1, NothingKeeps
<1>4. ASSUME NEW k \in Calls, NbExecuteRefused(k) PROVE Kept'
  <2>1. Nothing
    BY <1>4, <1>t
       DEF NbExecuteRefused, Becomes, Nothing, Kept, Stashed, PythonRuns, MayCall,
         NextCall
  <2> QED BY <2>1, NothingKeeps
<1>5. ASSUME NEW k \in Calls, Execute(k) PROVE Kept'
  <2>1. Nothing
    BY <1>5, <1>t
       DEF Execute, Queue, Becomes, Nothing, Kept, Stashed, PythonRuns, MayCall,
         NextCall
  <2> QED BY <2>1, NothingKeeps
<1>6. ASSUME NEW k \in Calls, ExecuteRefused(k) PROVE Kept'
  <2>1. Nothing
    BY <1>6, <1>t
       DEF ExecuteRefused, Becomes, Nothing, Kept, Stashed, PythonRuns, MayCall,
         NextCall
  <2> QED BY <2>1, NothingKeeps
<1>7. CASE Close
  <2>1. Nothing BY <1>7, <1>t DEF Close, Hangup, Nothing, Kept, Stashed, PythonRuns
  <2> QED BY <2>1, NothingKeeps
<1>8. CASE Work
  <2>1. Nothing BY <1>8, <1>t DEF Work, Nothing, Kept, Stashed
  <2> QED BY <2>1, NothingKeeps
<1>9. CASE EndWork
  <2>1. Nothing BY <1>9, <1>t DEF EndWork, Outside, Nothing, Kept, Stashed
  <2> QED BY <2>1, NothingKeeps
<1>10. CASE Connect
  <2>1. Nothing BY <1>10, <1>t DEF Connect, Nothing, Kept, Stashed
  <2> QED BY <2>1, NothingKeeps
<1>11. CASE Connected
  <2>1. Nothing BY <1>11, <1>t DEF Connected, Nothing, Kept, Stashed
  <2> QED BY <2>1, NothingKeeps
<1>12. CASE WriteSome
  <2>1. /\ UNCHANGED <<kind, broken, answer, outcome, stash, pc, disp, cur>>
        /\ ~stale /\ execing /\ disp # "none" /\ pc # "crashed" /\ cur \in Calls
    BY <1>12 DEF WriteSome, Called, Running, Types, Ledger, Duties, Stale
  <2>2. \A i \in 1..Len(heard') : heard'[i] = cur
    <3>1. Exchange' BY StepExchange
    <3>2. stale' = stale BY <1>12 DEF WriteSome
    <3> QED BY <2>1, <3>1, <3>2 DEF Exchange, Numbers
  <2>3. outcome[cur] = "pending" BY <2>1 DEF Thread, Busy
  <2>4. Stashed' /\ Answers' BY <2>1 DEF Kept, Stashed, Answers, Right
  <2>5. Unended' BY <2>1, <2>2, <2>3 DEF Unended
  <2> QED BY <2>4, <2>5 DEF Kept
<1>13. CASE ReadMore
  <2>1. /\ UNCHANGED <<kind, broken, answer, outcome, stash, pc, disp, cur>>
        /\ ~stale /\ execing /\ disp # "none" /\ pc # "crashed" /\ cur \in Calls
    BY <1>13 DEF ReadMore, Reads, Called, Running, Types, Ledger, Duties, Stale
  <2>2. \A i \in 1..Len(heard') : heard'[i] = cur
    <3>1. Exchange' BY StepExchange
    <3>2. stale' = stale BY <1>13 DEF ReadMore
    <3> QED BY <2>1, <3>1, <3>2 DEF Exchange, Numbers
  <2>3. outcome[cur] = "pending" BY <2>1 DEF Thread, Busy
  <2>4. Stashed' /\ Answers' BY <2>1 DEF Kept, Stashed, Answers, Right
  <2>5. Unended' BY <2>1, <2>2, <2>3 DEF Unended
  <2> QED BY <2>4, <2>5 DEF Kept
<1>14. CASE CallBack
  <2>1. /\ Data \in Seq(Units) /\ Right(Data, cur) /\ cur \in Calls /\ Heard = <<>> /\ disp # "none"
    BY <1>14, CompleteIs DEF CallBack
  <2>2. /\ UNCHANGED <<kind, broken, stash>> /\ heard' = <<>>
        /\ outcome' = [outcome EXCEPT ![cur] = "answered"] /\ answer' = [answer EXCEPT ![cur] = Data]
    BY <1>14, <2>1 DEF CallBack, Becomes
  <2>3. Stashed' BY <2>1, <2>2 DEF Kept, Stashed
  <2>4. Unended' BY <2>2 DEF Unended
  <2>5. Answers'
    <3> DEFINE data == Data
    <3>1. Right(data, cur) /\ answer' = [answer EXCEPT ![cur] = data] BY <2>1, <2>2
    <3> HIDE DEF data
    <3>2. ASSUME NEW k \in Calls, outcome'[k] = "answered" PROVE Right(answer'[k], k)
      <4>1. CASE k = cur BY <2>1, <3>1, <4>1 DEF Types, Texts
      <4>2. CASE k # cur
        <5>1. outcome[k] = "answered" /\ answer'[k] = answer[k]
          BY <2>1, <2>2, <3>1, <3>2, <4>2 DEF Types, Texts, Ledger
        <5> QED BY <5>1 DEF Kept, Answers
      <4> QED BY <4>1, <4>2
    <3> QED BY <2>2, <3>2 DEF Answers, Right
  <2> QED BY <2>3, <2>4, <2>5 DEF Kept
<1>15. CASE Executed
  <2>1. Right(Data, cur) /\ Heard = <<>>
    BY <1>15, CompleteIs DEF Executed
  <2>2. /\ UNCHANGED <<kind, broken, outcome, answer, cur, pc>> 
        /\ heard' = <<>> /\ stash' = Data /\ disp' = "none" /\ pc = "exec"
    BY <1>15, <2>1 DEF Executed, NoSource, Hangup
  <2>3. Stashed' BY <2>1, <2>2 DEF Stashed, Right
  <2>4. Unended' BY <2>2 DEF Unended
  <2>5. Answers' BY <2>2 DEF Kept, Answers, Right
  <2> QED BY <2>3, <2>4, <2>5 DEF Kept
<1>16. ASSUME NEW flags \in OnErr, ConnectFails(flags) PROVE Kept'
  <2>1. heard = <<>>
    BY <1>16
       DEF ConnectFails, Called, Running, Types, Ledger, Duties, Stale, Exchange, Phase
  <2>2. Nothing
    BY <1>16, <2>1, <1>t
       DEF Nothing, ConnectFails, Fail, NoSource, Becomes, Called, Running, Kept,
         Stashed
  <2> QED BY <2>2, NothingKeeps
<1>17. ASSUME NEW flags \in OnErr, ConnectingFails(flags) PROVE Kept'
  <2>1. Nothing
    BY <1>17, <1>t
       DEF ConnectingFails, Fail, NoSource, Becomes, Outside, Called, Hangup, Nothing,
         Kept, Stashed, Keeps, CarefulUse, Running
  <2> QED BY <2>1, NothingKeeps
<1>18. ASSUME NEW flags \in OnErr, WriteFails(flags) PROVE Kept'
  <2>1. Nothing
    BY <1>18, <1>t
       DEF WriteFails, Fail, NoSource, Becomes, Outside, Called, Hangup, Nothing, Kept,
         Stashed, Keeps, CarefulUse, Running
  <2> QED BY <2>1, NothingKeeps
<1>19. ASSUME NEW flags \in OnErr, ReadFails(flags) PROVE Kept'
  <2>1. Nothing
    BY <1>19, <1>t
       DEF ReadFails, Reads, Heard, Fail, NoSource, Becomes, Outside, Called, Hangup,
         Nothing, Kept, Stashed, Keeps, CarefulUse, Running
  <2> QED BY <2>1, NothingKeeps
<1>20. CASE AssertionFails
  <2>1. Nothing BY <1>20, <1>t DEF AssertionFails, Nothing, Kept, Stashed, Running
  <2> QED BY <2>1, NothingKeeps
<1>21. CASE CallbackReturns
  <2>1. Nothing
    BY <1>21, <1>t DEF CallbackReturns, Hangup, Front, Nothing, Kept, Stashed
  <2> QED BY <2>1, NothingKeeps
<1>22. ASSUME NEW flags \in OnErr, CallbackRaises(flags) PROVE Kept'
  <2>1. Nothing BY <1>22, <1>t DEF CallbackRaises, Hangup, Front, Nothing, Kept, Stashed
  <2> QED BY <2>1, NothingKeeps
<1>23. CASE ExecuteReturns
  <2>1. /\ disp = "none" /\ pc = "exec" /\ stash # <<>> /\ UNCHANGED <<heard, kind, broken>>
        /\ stash' = <<>> /\ ~stale /\ Right(stash, cur) /\ cur \in Calls
    BY <1>23 DEF ExecuteReturns, Duties, Stale, Kept, Stashed, Thread, Busy
  <2>2. heard = <<>> BY <2>1, Silent DEF Exchange
  <2>3. Stashed' BY <2>1 DEF Stashed
  <2>4. Unended' BY <2>1, <2>2 DEF Unended
  <2>5. Answers'
    <3>1. ASSUME NEW k \in Calls, outcome'[k] = "answered" PROVE Right(answer'[k], k)
      <4>1. CASE k = cur
        <5>1. answer' = [answer EXCEPT ![cur] = stash]
          BY <1>23, <2>1, <3>1, <4>1 DEF ExecuteReturns, Becomes, Types, Ledger
        <5> QED BY <2>1, <4>1, <5>1 DEF Types, Texts
      <4>2. CASE k # cur
        <5>1. outcome[k] = "answered" /\ answer'[k] = answer[k]
          BY <1>23, <2>1, <3>1, <4>2 DEF ExecuteReturns, Becomes, Types, Texts, Ledger
        <5> QED BY <5>1 DEF Kept, Answers
      <4> QED BY <4>1, <4>2
    <3> QED BY <2>1, <3>1 DEF Answers, Right
  <2> QED BY <2>3, <2>4, <2>5 DEF Kept
<1>24. CASE ExecuteReturnsNull
  <2>1. Nothing BY <1>24, <1>t DEF ExecuteReturnsNull, Nothing, Kept, Stashed
  <2> QED BY <2>1, NothingKeeps
<1>25. CASE TimeOut
  <2>1. Nothing
    BY <1>25, <1>t DEF TimeOut, Unregister, NoCall, NoSource, Becomes, Nothing, Kept, Stashed
  <2> QED BY <2>1, NothingKeeps
<1>26. CASE UNCHANGED vars
  <2>1. Nothing BY <1>26, <1>t DEF vars, Nothing, Kept, Stashed
  <2> QED BY <2>1, NothingKeeps
<1> QED
  BY <1>1, <1>2, <1>3, <1>4, <1>5, <1>6, <1>7, <1>8, <1>9, <1>10, <1>11, <1>12, <1>13,
       <1>14, <1>15, <1>16, <1>17, <1>18, <1>19, <1>20, <1>21, <1>22, <1>23, <1>24,
       <1>25, <1>26
     DEF Next, Application, Steps, Returns, Raises

-----------------------------------------------------------------------------
(* A step that Connection lets the client, the server or the network take. *)
Keeping == Server \/ Drop \/ Wire!Use \/ UNCHANGED Wire!vars

(* Writing a part of the request is what Connection lets the client say.   *)
LEMMA Says ==
  ASSUME Types, Numbers, Phase, stage = "write", cur \in Calls, NEW n \in 0..out,
         UNCHANGED <<conn, reply, inbox, kind, broken>>,
         heard' = (IF conn = "up" THEN heard \o [i \in 1..n |-> cur] ELSE heard)
  PROVE  Keeping
<1>1. /\ heard \in Seq(Calls) /\ Len(heard) \in Nat /\ out \in 1..ReqUnits /\ ReqUnits \in Nat
      /\ n \in Nat /\ n <= out
  BY LenProperties, ClientUnitsAssumption DEF Types, Texts, Phase
<1>2. CASE conn # "up" \/ n = 0
  <2>1. heard' = heard
    <3>1. CASE n = 0
      <4>1. [i \in 1..n |-> cur] = <<>> BY <3>1
      <4>2. heard \o <<>> = heard BY <1>1
      <4> QED BY <4>1, <4>2
    <3> QED BY <1>2, <3>1
  <2> QED BY <2>1 DEF Keeping, Wire!vars, Wire!net
<1>3. CASE conn = "up" /\ n # 0
  <2>1. Len(heard) = ReqUnits - out BY <1>3 DEF Phase
  <2>2. ReqUnits - Len(heard) = out BY <1>1, <2>1
  <2>3. n \in 1..(ReqUnits - Len(heard)) BY <1>1, <1>3, <2>2
  <2>4. heard' = heard \o [i \in 1..n |-> cur] BY <1>3
  <2>5. reply = <<>> /\ inbox = <<>> /\ \A i \in 1..Len(heard) : heard[i] = cur
    BY DEF Numbers, Phase
  <2>6. Wire!Say(cur) BY <1>3, <2>3, <2>4, <2>5 DEF Wire!Say
  <2> QED BY <2>6 DEF Keeping, Wire!Use
<1> QED BY <1>2, <1>3

(* Every step of a careful application is one of Connection.               *)
LEMMA StepKeeping ==
  ASSUME CarefulUse, Types, Duties, Exchange, [Next]_vars
  PROVE  Keeping
<1> USE DEF call, thread, net, Wire!vars, Wire!net
<1>1. CASE Server
  BY <1>1 DEF Keeping
<1>2. CASE Drop
  BY <1>2 DEF Keeping
<1>3. ASSUME NEW k \in Calls, NbExecute(k) PROVE Keeping
  BY <1>3 DEF Keeping, NbExecute, Queue, Becomes
<1>4. ASSUME NEW k \in Calls, NbExecuteRefused(k) PROVE Keeping
  BY <1>4 DEF Keeping, NbExecuteRefused, Becomes
<1>5. ASSUME NEW k \in Calls, Execute(k) PROVE Keeping
  BY <1>5 DEF Keeping, Execute, Queue, Becomes, MayCall, PythonRuns
<1>6. ASSUME NEW k \in Calls, ExecuteRefused(k) PROVE Keeping
  BY <1>6 DEF Keeping, ExecuteRefused, Becomes
<1>7. CASE Close
  <2>1. Wire!Hangup \/ UNCHANGED <<conn, heard, reply, inbox, kind, broken>>
    BY <1>7 DEF Wire!Hangup, Close, Hangup
  <2> QED BY <2>1 DEF Keeping, Wire!Use
<1>8. CASE Work
  BY <1>8 DEF Keeping, Work
<1>9. CASE EndWork
  BY <1>9 DEF Keeping, EndWork, Outside
<1>10. CASE Connect
  <2>1. conn = "none"
    BY <1>10 DEF Connect, Called, Running, Types, Ledger, Duties, Stale, Exchange, Phase
  <2> QED BY <1>10, <2>1 DEF Keeping, Connect, Wire!Use, Wire!Dial
<1>11. CASE Connected
  BY <1>11 DEF Keeping, Connected
<1>12. CASE WriteSome
  <2>0. /\ Numbers /\ Phase /\ stage = "write" /\ cur \in Calls
        /\ UNCHANGED <<conn, reply, inbox, kind, broken>>
    BY <1>12 DEF Exchange, WriteSome, Called, Running, Types, Ledger, Duties, Stale
  <2>1. PICK n \in (IF now THEN 0 ELSE 1)..(out - 1) :
          heard' = (IF conn = "up" THEN heard \o [i \in 1..n |-> cur] ELSE heard)
    BY <1>12 DEF WriteSome
  <2>2. out \in 1..ReqUnits /\ n \in 0..(out - 1) /\ ReqUnits \in Nat
    BY <2>0, <2>1, ClientUnitsAssumption DEF Phase
  <2> QED BY <2>0, <2>1, <2>2, Says
<1>13. CASE ReadMore
  <2>0. /\ Numbers /\ Phase /\ cur \in Calls /\ heard' = Heard /\ inbox' = <<>>
        /\ UNCHANGED <<conn, reply, kind, broken>>
    BY <1>13 DEF Exchange, ReadMore, Reads, Called, Running, Types, Ledger, Duties,
         Stale
  <2>1. CASE AllWritten /\ conn = "up"
    <3>1. stage = "write" BY <2>1 DEF AllWritten
    <3>2. out \in 1..ReqUnits /\ out \in Nat /\ inbox = <<>> BY <2>0, <3>1 DEF Phase
    <3>3. heard' = (IF conn = "up" THEN heard \o [i \in 1..out |-> cur] ELSE heard)
      BY <2>0, <2>1 DEF Heard
    <3> QED BY <2>0, <3>1, <3>2, <3>3, Says
  <2>2. CASE ~(AllWritten /\ conn = "up")
    <3>1. Wire!Listen BY <2>0, <2>2 DEF Heard, Wire!Listen
    <3> QED BY <3>1 DEF Keeping, Wire!Use
  <2> QED BY <2>1, <2>2
<1>14. CASE CallBack
  <2>1. heard = <<>> /\ Heard = <<>> BY <1>14, CompleteIs DEF CallBack
  <2>2. Wire!Listen BY <1>14, <2>1 DEF CallBack, Wire!Listen
  <2> QED BY <2>2 DEF Keeping, Wire!Use
<1>15. CASE Executed
  <2>1. heard = <<>> /\ Heard = <<>> BY <1>15, CompleteIs DEF Executed
  <2>2. Wire!Listen \/ Wire!Hangup
    BY <1>15, <2>1 DEF Executed, Hangup, Wire!Listen, Wire!Hangup
  <2> QED BY <2>2 DEF Keeping, Wire!Use
<1>16. ASSUME NEW flags \in OnErr, ConnectFails(flags) PROVE Keeping
  BY <1>16 DEF Keeping, ConnectFails, Fail, Keeps, CarefulUse
<1>17. ASSUME NEW flags \in OnErr, ConnectingFails(flags) PROVE Keeping
  <2>1. Wire!Hangup \/ UNCHANGED <<conn, heard, reply, inbox, kind, broken>>
    BY <1>17
       DEF Wire!Hangup, ConnectingFails, Fail, NoSource, Becomes, Outside, Called,
         Hangup, Keeps, CarefulUse
  <2> QED BY <2>1 DEF Keeping, Wire!Use
<1>18. ASSUME NEW flags \in OnErr, WriteFails(flags) PROVE Keeping
  <2>1. Wire!Hangup \/ UNCHANGED <<conn, heard, reply, inbox, kind, broken>>
    BY <1>18
       DEF Wire!Hangup, WriteFails, Fail, NoSource, Becomes, Outside, Called, Hangup,
         Keeps, CarefulUse
  <2> QED BY <2>1 DEF Keeping, Wire!Use
<1>19. ASSUME NEW flags \in OnErr, ReadFails(flags) PROVE Keeping
  <2>1. Wire!Hangup \/ UNCHANGED <<conn, heard, reply, inbox, kind, broken>>
    BY <1>19
       DEF Wire!Hangup, ReadFails, Reads, Heard, Fail, NoSource, Becomes, Outside,
         Called, Hangup, Keeps, CarefulUse
  <2> QED BY <2>1 DEF Keeping, Wire!Use
<1>20. CASE AssertionFails
  BY <1>20 DEF Keeping, AssertionFails
<1>21. CASE CallbackReturns
  <2>1. Wire!Hangup \/ UNCHANGED <<conn, heard, reply, inbox, kind, broken>>
    BY <1>21 DEF Wire!Hangup, CallbackReturns, Hangup, Front
  <2> QED BY <2>1 DEF Keeping, Wire!Use
<1>22. ASSUME NEW flags \in OnErr, CallbackRaises(flags) PROVE Keeping
  <2>1. Wire!Hangup \/ UNCHANGED <<conn, heard, reply, inbox, kind, broken>>
    BY <1>22 DEF Wire!Hangup, CallbackRaises, Hangup, Front, Keeps, CarefulUse
  <2> QED BY <2>1 DEF Keeping, Wire!Use
<1>23. CASE ExecuteReturns
  BY <1>23 DEF Keeping, ExecuteReturns, Becomes
<1>24. CASE ExecuteReturnsNull
  BY <1>24 DEF Keeping, ExecuteReturnsNull
<1>25. CASE TimeOut
  BY <1>25 DEF Keeping, TimeOut, Unregister, NoCall, NoSource, Becomes
<1>26. CASE UNCHANGED vars
  BY <1>26 DEF Keeping, vars
<1> QED
  BY <1>1, <1>2, <1>3, <1>4, <1>5, <1>6, <1>7, <1>8, <1>9, <1>10, <1>11, <1>12, <1>13,
       <1>14, <1>15, <1>16, <1>17, <1>18, <1>19, <1>20, <1>21, <1>22, <1>23, <1>24,
       <1>25, <1>26
     DEF Next, Application, Steps, Returns, Raises

-----------------------------------------------------------------------------
(* The calls are made in their order, and those behind the one in progress *)
(* have been refused or not made.                                          *)
Turns ==
  /\ \A k \in Calls : outcome[k] # "none" => \A j \in 1..(k - 1) : outcome[j] # "none"
  /\ Busy => \A k \in Calls : k > cur => outcome[k] \in {"none", "refused"}

(* A failing step ends the call, or leaves it to execute that goes on.     *)
LEMMA FailTurns ==
  ASSUME Types, Thread, Turns, Called, NEW flags, Fail(flags)
  PROVE  Turns'
<1> USE DEF thread
<1>c. \A k \in Calls : k \in Nat /\ \A j \in 1..(k - 1) : j \in Calls
  BY CallsAssumption DEF Calls
<1>1. ~execing' BY DEF Fail
<1>2. outcome \in [Calls -> Outcomes] /\ back # "exec" BY DEF Types, Ledger, Flags
<1>3. CASE pc = "exec" /\ "KEEP_WORK" \in flags
  <2>1. cur' = cur /\ outcome' = outcome /\ pc' = pc BY <1>3 DEF Fail
  <2> QED BY <1>1, <1>3, <2>1 DEF Turns, Busy
<1>4. CASE ~(pc = "exec" /\ "KEEP_WORK" \in flags)
  <2>1. outcome' = [outcome EXCEPT ![cur] = "failed"] BY <1>4 DEF Fail, Becomes
  <2>2. pc' # "exec"
    <3>1. CASE "KEEP_WORK" \in flags BY <1>4, <3>1 DEF Fail
    <3>2. CASE pc = "exec" /\ "KEEP_WORK" \notin flags BY <1>2, <3>2 DEF Fail
    <3>3. CASE pc # "exec" /\ "KEEP_WORK" \notin flags BY <3>3 DEF Fail, Outside
    <3> QED BY <3>1, <3>2, <3>3
  <2>3. outcome[cur] # "none" BY DEF Called, Running, Thread, Busy
  <2>4. \A k \in Calls : outcome'[k] # "none" <=> outcome[k] # "none"
    BY <1>2, <2>1, <2>3
  <2>5. ~Busy' BY <1>1, <2>2 DEF Busy
  <2> QED BY <1>c, <2>4, <2>5 DEF Turns
<1> QED BY <1>3, <1>4

(* Every step keeps Turns.                                                 *)
LEMMA StepTurns ==
  ASSUME Types, Thread, Turns, [Next]_vars
  PROVE  Turns'
<1> USE DEF call, thread, net, Types, Flags, Ledger, Thread, Busy, Turns
<1>c. \A k \in Calls : k \in Nat /\ \A j \in 1..(k - 1) : j \in Calls
  BY CallsAssumption DEF Calls
<1>1. CASE Server
  BY <1>1, <1>c
     DEF Server, Wire!Serve, Wire!Establish, Wire!Answer, Wire!RefuseTorn,
       Wire!SendSome
<1>2. CASE Drop
  BY <1>2, <1>c DEF Drop, Wire!Drop, Wire!net
<1>3. ASSUME NEW k \in Calls, NbExecute(k) PROVE Turns'
  BY <1>3, <1>c DEF NbExecute, Queue, Becomes, PythonRuns, MayCall, NextCall
<1>4. ASSUME NEW k \in Calls, NbExecuteRefused(k) PROVE Turns'
  BY <1>4, <1>c DEF NbExecuteRefused, Becomes, PythonRuns, MayCall, NextCall
<1>5. ASSUME NEW k \in Calls, Execute(k) PROVE Turns'
  BY <1>5, <1>c DEF Execute, Queue, Becomes, PythonRuns, MayCall, NextCall
<1>6. ASSUME NEW k \in Calls, ExecuteRefused(k) PROVE Turns'
  BY <1>6, <1>c DEF ExecuteRefused, Becomes, PythonRuns, MayCall, NextCall
<1>7. CASE Close
  BY <1>7, <1>c DEF Close, Hangup, PythonRuns
<1>8. CASE Work
  BY <1>8, <1>c DEF Work
<1>9. CASE EndWork
  BY <1>9, <1>c DEF EndWork, Outside
<1>10. CASE Connect
  BY <1>10, <1>c DEF Connect
<1>11. CASE Connected
  BY <1>11, <1>c DEF Connected
<1>12. CASE WriteSome
  BY <1>12, <1>c DEF WriteSome
<1>13. CASE ReadMore
  BY <1>13, <1>c DEF ReadMore
<1>14. CASE CallBack
  BY <1>14, <1>c DEF CallBack, Reads, Called, NoCall, NoSource, Becomes
<1>15. CASE Executed
  BY <1>15, <1>c DEF Executed, Reads, Called, NoSource
<1>16. ASSUME NEW flags \in OnErr, ConnectFails(flags) PROVE Turns'
  BY <1>16, FailTurns DEF ConnectFails
<1>17. ASSUME NEW flags \in OnErr, ConnectingFails(flags) PROVE Turns'
  BY <1>17, FailTurns DEF ConnectingFails
<1>18. ASSUME NEW flags \in OnErr, WriteFails(flags) PROVE Turns'
  BY <1>18, FailTurns DEF WriteFails
<1>19. ASSUME NEW flags \in OnErr, ReadFails(flags) PROVE Turns'
  BY <1>19, FailTurns DEF ReadFails, Reads
<1>20. CASE AssertionFails
  BY <1>20, <1>c DEF AssertionFails, Running
<1>21. CASE CallbackReturns
  BY <1>21, <1>c DEF CallbackReturns
<1>22. ASSUME NEW flags \in OnErr, CallbackRaises(flags) PROVE Turns'
  BY <1>22, <1>c DEF CallbackRaises
<1>23. CASE ExecuteReturns
  BY <1>23, <1>c DEF ExecuteReturns, Becomes
<1>24. CASE ExecuteReturnsNull
  BY <1>24, <1>c DEF ExecuteReturnsNull
<1>25. CASE TimeOut
  BY <1>25, <1>c DEF TimeOut, Unregister, NoCall, NoSource, Becomes
<1>26. CASE UNCHANGED vars
  BY <1>26, <1>c DEF vars
<1> QED
  BY <1>1, <1>2, <1>3, <1>4, <1>5, <1>6, <1>7, <1>8, <1>9, <1>10, <1>11, <1>12, <1>13,
       <1>14, <1>15, <1>16, <1>17, <1>18, <1>19, <1>20, <1>21, <1>22, <1>23, <1>24,
       <1>25, <1>26
     DEF Next, Application, Steps, Returns, Raises

(* An answer, an error and a refusal are for ever, and the response to a   *)
(* call that has ended with an answer or an error is not made anew.        *)
LEMMA Settled ==
  ASSUME CarefulUse, Types, Thread, Duties, Exchange, Kept, [Next]_vars
  PROVE  /\ \A k \in Calls : outcome[k] \in {"answered", "refused", "failed"} => outcome'[k] = outcome[k]
         /\ \A k \in Calls : outcome[k] \in {"answered", "failed"} => kind'[k] = kind[k]
         /\ broken => broken'
<1>1. ASSUME NEW k \in Calls, outcome[k] \in {"answered", "refused", "failed"}
      PROVE  outcome'[k] = outcome[k]
  BY <1>1, StepPromise
     DEF Types, Ledger, Promise!Next, Promise!Issue, Promise!Refuse, Promise!Answer,
       Promise!Fail, Promise!TimeOut, Promise!InProgress, Promise!Becomes
<1>2. (broken => broken') /\ (kind' = kind \/ \E j \in Calls : Wire!Answer(j))
  <2> DEFINE Goal == (broken => broken') /\ (kind' = kind \/ \E j \in Calls : Wire!Answer(j))
  <2>1. CASE \E j \in Calls : Wire!Answer(j) BY <2>1 DEF Wire!Answer
  <2>2. CASE Wire!Establish BY <2>2 DEF Wire!Establish
  <2>3. CASE Wire!RefuseTorn BY <2>3 DEF Wire!RefuseTorn
  <2>4. CASE Wire!SendSome BY <2>4 DEF Wire!SendSome
  <2>5. CASE Wire!Drop BY <2>5 DEF Wire!Drop
  <2>6. CASE Wire!Use BY <2>6 DEF Wire!Use, Wire!Dial, Wire!Say, Wire!Listen, Wire!Hangup
  <2>7. CASE UNCHANGED Wire!vars BY <2>7 DEF Wire!vars
  <2> HIDE DEF Goal
  <2> QED
    BY <2>1, <2>2, <2>3, <2>4, <2>5, <2>6, <2>7, StepKeeping
       DEF Keeping, Server, Drop, Wire!Serve
<1>3. ASSUME NEW k \in Calls, outcome[k] \in {"answered", "failed"}, NEW j \in Calls, Wire!Answer(j)
      PROVE  kind'[k] = kind[k]
  <2>1. heard \in Seq(Calls) /\ Len(heard) \in Nat /\ kind \in [Calls -> ReplyKinds \cup {"none"}]
    BY LenProperties DEF Types, Texts, Line
  <2>2. heard[1] = j /\ 1 \in 1..Len(heard)
    BY <1>3, <2>1, ClientUnitsAssumption DEF Wire!Answer, Wire!Whole
  <2>3. j # k BY <1>3, <2>2 DEF Kept, Unended
  <2> QED BY <1>3, <2>1, <2>3 DEF Wire!Answer
<1> QED BY <1>1, <1>2, <1>3

-----------------------------------------------------------------------------
(* The last call that was not refused has got a response that has ended    *)
(* with the connection without saying so.                                  *)
Dead ==
  \E j \in Calls :
    /\ outcome[j] = "answered" /\ kind[j] = "abrupt"
    /\ \A k \in Calls : k > j => outcome[k] \in {"none", "refused", "pending"}

(* That alone leaves a connection that has ended to the next call, if the  *)
(* server and the network do not fail; execute may have yet to return it.  *)
Blame ==
  conn = "eof" /\ ~broken /\ ~stale /\ Part = 0 /\ (\A i \in 1..Len(cbs) : cbs[i]) =>
    IF stash # <<>> THEN kind[cur] = "abrupt" ELSE Dead

(* A step that answers no call and ends none keeps Blame.                  *)
LEMMA BlameKept ==
  ASSUME CarefulUse, Types, Thread, Duties, Exchange, Kept, Blame, [Next]_vars,
         UNCHANGED <<conn, stale, stash, cur, kind>>, Part' = Part, broken' = broken,
         (\A i \in 1..Len(cbs') : cbs'[i]) => \A i \in 1..Len(cbs) : cbs[i],
         \A k \in Calls : outcome'[k] # outcome[k] => outcome'[k] \in {"none", "refused", "pending"}
  PROVE  Blame'
<1>1. Dead => Dead'
  BY Settled DEF Dead
<1> QED BY <1>1 DEF Blame

(* Every step of a careful application keeps Blame.                        *)
LEMMA StepBlame ==
  ASSUME CarefulUse, Types, Thread, Duties, Exchange, Kept, Turns, Blame, [Next]_vars
  PROVE  Blame'
<1> USE DEF call, thread, net
<1>t. /\ buf \in Seq(Units) /\ reply \in Seq(Units) /\ inbox \in Seq(Units)
      /\ Len(buf) \in Nat /\ Len(reply) \in Nat /\ Len(inbox) \in Nat
      /\ outcome \in [Calls -> Outcomes]
  BY LenProperties DEF Types, Texts, Ledger
<1>1. CASE Server
  <2>0. UNCHANGED <<stale, stash, cur, buf, outcome, cbs>>
    BY <1>1 DEF Server
  <2>1. CASE Wire!Establish BY <2>1 DEF Blame, Wire!Establish
  <2>2. ASSUME NEW k \in Calls, Wire!Answer(k) PROVE Blame'
    BY <2>2 DEF Blame, Wire!Answer
  <2>3. CASE Wire!RefuseTorn
    <3> SUFFICES ASSUME ~stale PROVE FALSE BY <2>0 DEF Blame
    <3>1. Numbers /\ Phase BY DEF Exchange
    <3> QED BY <2>3, <3>1, HeardIs DEF Wire!RefuseTorn
  <2>4. CASE Wire!SendSome
    <3>0. PICK n \in 1..Len(reply) : inbox' = inbox \o SubSeq(reply, 1, n)
      BY <2>4 DEF Wire!SendSome
    <3>1. inbox' = inbox \o SubSeq(reply, 1, n) /\ n \in Nat /\ n >= 1
      BY <3>0, <1>t
    <3>2. Len(inbox') = Len(inbox) + n BY <3>1, <1>t, Moved
    <3>3. Len(reply') \in Nat /\ Len(buf') \in Nat
      BY <2>0, <1>t, StepTypes, LenProperties DEF Types, Texts
    <3>4. Part' # 0 BY <3>1, <3>2, <3>3, <1>t DEF Part
    <3> QED BY <3>4 DEF Blame
  <2> QED BY <1>1, <2>1, <2>2, <2>3, <2>4 DEF Server, Wire!Serve
<1>2. CASE Drop
  BY <1>2 DEF Blame, Drop, Wire!Drop
<1>3. ASSUME NEW k \in Calls, NbExecute(k) PROVE Blame'
  <2>1. ~stale /\ disp = "none" /\ UNCHANGED <<conn, stale, stash, kind, broken, heard, reply, inbox, cbs>>
    BY <1>3
       DEF NbExecute, Queue, MayCall, CarefulUse, Careful, Duties, Registered, ExecingSound
  <2>2. reply = <<>> /\ inbox = <<>> /\ buf = <<>>
    BY <2>1, Silent DEF Exchange
  <2>3. Part' = Part BY <1>3, <2>1, <2>2 DEF Part, NbExecute, Queue
  <2>4. stash = <<>> BY <1>3 DEF NbExecute, MayCall, PythonRuns, Kept, Stashed
  <2>5. outcome' = [outcome EXCEPT ![k] = "pending"] BY <1>3 DEF NbExecute, Queue, Becomes
  <2>6. Dead => Dead' BY <2>1, <2>5, <1>t, Settled DEF Dead
  <2> QED BY <2>1, <2>3, <2>4, <2>6 DEF Blame
<1>4. ASSUME NEW k \in Calls, NbExecuteRefused(k) PROVE Blame'
  <2>1. Part' = Part BY <1>4 DEF Part, NbExecuteRefused, Becomes, PythonRuns, MayCall, NextCall
  <2> QED BY <1>4, <2>1, BlameKept DEF NbExecuteRefused, Becomes, PythonRuns, MayCall, NextCall
<1>5. ASSUME NEW k \in Calls, Execute(k) PROVE Blame'
  <2>1. ~stale /\ disp = "none" /\ UNCHANGED <<conn, stale, stash, kind, broken, heard, reply, inbox, cbs>>
    BY <1>5
       DEF Execute, Queue, MayCall, CarefulUse, Careful, Duties, Registered, ExecingSound
  <2>2. reply = <<>> /\ inbox = <<>> /\ buf = <<>>
    BY <2>1, Silent DEF Exchange
  <2>3. Part' = Part BY <1>5, <2>1, <2>2 DEF Part, Execute, Queue
  <2>4. stash = <<>> BY <1>5 DEF Execute, MayCall, PythonRuns, Kept, Stashed
  <2>5. outcome' = [outcome EXCEPT ![k] = "pending"] BY <1>5 DEF Execute, Queue, Becomes
  <2>6. Dead => Dead' BY <2>1, <2>5, <1>t, Settled DEF Dead
  <2> QED BY <2>1, <2>3, <2>4, <2>6 DEF Blame
<1>6. ASSUME NEW k \in Calls, ExecuteRefused(k) PROVE Blame'
  <2>1. Part' = Part BY <1>6 DEF Part, ExecuteRefused, Becomes, PythonRuns, MayCall, NextCall
  <2> QED BY <1>6, <2>1, BlameKept DEF ExecuteRefused, Becomes, PythonRuns, MayCall, NextCall
<1>7. CASE Close
  BY <1>7 DEF Blame, Close, Hangup
<1>8. CASE Work
  <2>1. Part' = Part BY <1>8 DEF Part, Work
  <2> QED BY <1>8, <2>1, BlameKept DEF Work
<1>9. CASE EndWork
  <2>1. Part' = Part BY <1>9 DEF Part, EndWork, Outside
  <2> QED BY <1>9, <2>1, BlameKept DEF EndWork, Outside
<1>10. CASE Connect
  BY <1>10 DEF Blame, Connect
<1>11. CASE Connected
  <2>1. Part' = Part BY <1>11 DEF Part, Connected
  <2> QED BY <1>11, <2>1, BlameKept DEF Connected
<1>12. CASE WriteSome
  <2>1. Part' = Part BY <1>12 DEF Part, WriteSome
  <2> QED BY <1>12, <2>1, BlameKept DEF WriteSome
<1>13. CASE ReadMore
  <2>1. conn' = conn /\ broken' = broken /\ conn # "eof" BY <1>13 DEF ReadMore, ReplyBreaks
  <2> QED BY <2>1 DEF Blame
<1>14. CASE CallBack
  <2> SUFFICES ASSUME conn' = "eof", ~broken', \A i \in 1..Len(cbs') : cbs'[i]
               PROVE  stash' = <<>> /\ Dead'
    BY DEF Blame
  <2>1. UNCHANGED <<conn, broken, kind, stash>> /\ pc = "work" /\ execing /\ cbs' = Append(cbs, KeepAlive)
        /\ outcome' = [outcome EXCEPT ![cur] = "answered"]
    BY <1>14 DEF CallBack, Reads, Called, Becomes
  <2>2. KeepAlive
    <3> DEFINE ka == KeepAlive
    <3>1. cbs \in Seq(BOOLEAN) /\ ka \in BOOLEAN BY DEF Types, Stack, KeepAlive
    <3>2. cbs' = Append(cbs, ka) BY <2>1
    <3> HIDE DEF ka
    <3>3. Len(cbs') \in 1..Len(cbs') /\ cbs'[Len(cbs')] = ka BY <3>1, <3>2
    <3> QED BY <3>3 DEF ka
  <2>3. cur \in Calls /\ kind[cur] = "abrupt"
    BY <1>14, <2>1, <2>2, CompleteIs DEF CallBack
  <2>4. \A k \in Calls : k > cur => outcome[k] \in {"none", "refused"}
    BY <2>1 DEF Turns, Busy
  <2>5. \A k \in Calls : k > cur => k # cur BY CallsAssumption DEF Calls
  <2>6. Dead' BY <2>1, <2>3, <2>4, <2>5, <1>t DEF Dead
  <2>7. stash' = <<>> BY <2>1 DEF Kept, Stashed
  <2> QED BY <2>6, <2>7
<1>15. CASE Executed
  <2>1. Data # <<>> /\ (KeepAlive /\ conn = "eof" => broken \/ kind[cur] = "abrupt")
    BY <1>15, CompleteIs DEF Executed
  <2>2. UNCHANGED <<broken, kind, cur>> /\ stash' = Data /\ (conn' = "none" \/ (conn' = conn /\ KeepAlive))
    BY <1>15 DEF Executed, Hangup
  <2> QED BY <2>1, <2>2 DEF Blame
<1>16. ASSUME NEW flags \in OnErr, ConnectFails(flags) PROVE Blame'
  <2>1. ~stale /\ stage = "connect" BY <1>16 DEF ConnectFails, Called, Running, Duties, Stale
  <2>2. conn = "none" BY <2>1 DEF Exchange, Phase
  <2>3. conn' = conn BY <1>16 DEF ConnectFails, Keeps, CarefulUse
  <2> QED BY <2>2, <2>3 DEF Blame
<1>17. ASSUME NEW flags \in OnErr, ConnectingFails(flags) PROVE Blame'
  BY <1>17 DEF Blame, ConnectingFails, Hangup, Keeps, CarefulUse
<1>18. ASSUME NEW flags \in OnErr, WriteFails(flags) PROVE Blame'
  BY <1>18 DEF Blame, WriteFails, Hangup, Keeps, CarefulUse
<1>19. ASSUME NEW flags \in OnErr, ReadFails(flags) PROVE Blame'
  BY <1>19 DEF Blame, ReadFails, Hangup, Keeps, CarefulUse
<1>20. CASE AssertionFails
  <2>1. Part' = Part BY <1>20 DEF Part, AssertionFails, Running
  <2> QED BY <1>20, <2>1, BlameKept DEF AssertionFails, Running
<1>21. CASE CallbackReturns
  <2>1. CASE ~Last(cbs) BY <1>21, <2>1 DEF Blame, CallbackReturns, Hangup
  <2>2. CASE Last(cbs)
    <3>1. cbs' = Front(cbs) /\ cbs # <<>> /\ cbs \in Seq(BOOLEAN)
      BY <1>21 DEF CallbackReturns, Types, Stack
    <3>2. /\ Len(cbs) \in Nat \ {0} /\ Len(cbs') = Len(cbs) - 1
          /\ \A i \in 1..(Len(cbs) - 1) : cbs'[i] = cbs[i]
      BY <3>1, FrontIs
    <3>3. (\A i \in 1..Len(cbs') : cbs'[i]) => \A i \in 1..Len(cbs) : cbs[i]
      BY <2>2, <3>2 DEF Last
    <3>4. UNCHANGED <<conn, reply, inbox, buf, stale, stash, cur, kind, broken, outcome>>
      BY <1>21, <2>2 DEF CallbackReturns
    <3>5. Part' = Part BY <3>4 DEF Part
    <3> QED BY <3>3, <3>4, <3>5, BlameKept
  <2> QED BY <2>1, <2>2
<1>22. ASSUME NEW flags \in OnErr, CallbackRaises(flags) PROVE Blame'
  BY <1>22 DEF Blame, CallbackRaises, Hangup, Keeps, CarefulUse
<1>23. CASE ExecuteReturns
  <2>1. /\ pc = "exec" /\ stash # <<>> /\ stash' = <<>> /\ cur \in Calls /\ Right(stash, cur)
        /\ UNCHANGED <<conn, stale, kind, broken, buf, inbox, reply, cbs>>
    BY <1>23 DEF ExecuteReturns, Kept, Stashed, Thread, Busy
  <2>2. Part' = Part BY <2>1 DEF Part
  <2> SUFFICES ASSUME ~broken, kind[cur] = "abrupt" PROVE Dead' BY <2>1, <2>2 DEF Blame
  <2>3. Parses(stash) BY <2>1 DEF Right, Parses
  <2>4. outcome' = [outcome EXCEPT ![cur] = "answered"] BY <1>23, <2>3 DEF ExecuteReturns, Becomes
  <2>5. \A k \in Calls : k > cur => outcome[k] \in {"none", "refused"}
    BY <2>1 DEF Turns, Busy
  <2>6. \A k \in Calls : k > cur => k # cur BY CallsAssumption DEF Calls
  <2> QED BY <2>1, <2>4, <2>5, <2>6, <1>t DEF Dead
<1>24. CASE ExecuteReturnsNull
  <2>1. Part' = Part BY <1>24 DEF Part, ExecuteReturnsNull
  <2> QED BY <1>24, <2>1, BlameKept DEF ExecuteReturnsNull
<1>25. CASE TimeOut
  BY <1>25 DEF Blame, TimeOut
<1>26. CASE UNCHANGED vars
  <2>1. Part' = Part BY <1>26 DEF Part, vars
  <2> QED BY <1>26, <2>1, BlameKept DEF vars
<1> QED
  BY <1>1, <1>2, <1>3, <1>4, <1>5, <1>6, <1>7, <1>8, <1>9, <1>10, <1>11, <1>12, <1>13,
       <1>14, <1>15, <1>16, <1>17, <1>18, <1>19, <1>20, <1>21, <1>22, <1>23, <1>24,
       <1>25, <1>26
     DEF Next, Application, Steps, Returns, Raises

-----------------------------------------------------------------------------
(* A connection is not reset, and is not missing once it has been made,    *)
(* without a failure of the server or the network.                         *)
Unbroken ==
  ~broken =>
    /\ conn # "reset"
    /\ stage \in {"connecting", "write", "read"} => conn # "none"

(* What a call may fail by: a failure of the server or the network, a      *)
(* response that cannot be parsed, or how the one before has ended.        *)
Excused(k) == broken \/ kind[k] = "bad" \/ CutBefore(k)

Failures == \A k \in Calls : outcome[k] = "failed" => Excused(k)

(* Every step keeps Unbroken, unless a callback that raises an error       *)
(* closes the connection of the call that it has queued.                   *)
LEMMA StepUnbroken ==
  ASSUME CarefulUse, "raise" \notin Careless, Types, Duties, Unbroken, [Next]_vars
  PROVE  Unbroken'
<1> USE DEF call, thread, net, Types, Flags, Line, Duties, Staged, Unbroken
<1>1. CASE Server
  BY <1>1
     DEF Server, Wire!Serve, Wire!Establish, Wire!Answer, Wire!RefuseTorn, Wire!SendSome
<1>2. CASE Drop
  BY <1>2 DEF Drop, Wire!Drop, Wire!net
<1>3. ASSUME NEW k \in Calls, NbExecute(k) PROVE Unbroken'
  BY <1>3 DEF NbExecute, Queue, Becomes
<1>4. ASSUME NEW k \in Calls, NbExecuteRefused(k) PROVE Unbroken'
  BY <1>4 DEF NbExecuteRefused, Becomes
<1>5. ASSUME NEW k \in Calls, Execute(k) PROVE Unbroken'
  BY <1>5 DEF Execute, Queue, Becomes, MayCall, PythonRuns
<1>6. ASSUME NEW k \in Calls, ExecuteRefused(k) PROVE Unbroken'
  BY <1>6 DEF ExecuteRefused, Becomes
<1>7. CASE Close
  BY <1>7 DEF Close, Hangup
<1>8. CASE Work
  BY <1>8 DEF Work
<1>9. CASE EndWork
  BY <1>9 DEF EndWork, Outside
<1>10. CASE Connect
  BY <1>10 DEF Connect
<1>11. CASE Connected
  BY <1>11 DEF Keeps, Connected
<1>12. CASE WriteSome
  BY <1>12 DEF Keeps, WriteSome, Called
<1>13. CASE ReadMore
  BY <1>13 DEF ReadMore, Reads, AllWritten
<1>14. CASE CallBack
  BY <1>14 DEF CallBack, Reads, Called, Heard, NoCall, NoSource, Becomes, Data,
       KeepAlive
<1>15. CASE Executed
  BY <1>15 DEF Executed, Reads, Called, Heard, NoSource, Hangup, Data
<1>16. ASSUME NEW flags \in OnErr, ConnectFails(flags) PROVE Unbroken'
  BY <1>16 DEF Keeps, ConnectFails, Fail, NoSource, Becomes, Outside, Called, Keeps
<1>17. ASSUME NEW flags \in OnErr, ConnectingFails(flags) PROVE Unbroken'
  BY <1>17 DEF Keeps, ConnectingFails, Fail, NoSource, Becomes, Outside, Called, Hangup
<1>18. ASSUME NEW flags \in OnErr, WriteFails(flags) PROVE Unbroken'
  BY <1>18 DEF Keeps, WriteFails, Fail, NoSource, Becomes, Outside, Called, Hangup
<1>19. ASSUME NEW flags \in OnErr, ReadFails(flags) PROVE Unbroken'
  BY <1>19
     DEF Keeps, ReadFails, Reads, Heard, Fail, NoSource, Becomes, Outside, Called,
       Hangup
<1>20. CASE AssertionFails
  BY <1>20 DEF Keeps, AssertionFails
<1>21. CASE CallbackReturns
  <2>1. CASE Last(cbs) BY <1>21, <2>1 DEF CallbackReturns
  <2>2. CASE ~Last(cbs)
    <3>1. cbs # <<>> /\ cbs \in Seq(BOOLEAN) BY <1>21 DEF CallbackReturns, Stack
    <3>2. Len(cbs) \in 1..Len(cbs) BY <3>1, FrontIs
    <3>3. disp = "none" BY <2>2, <3>2 DEF Last, Chained
    <3> QED BY <1>21, <3>3 DEF CallbackReturns, Hangup
  <2> QED BY <2>1, <2>2
<1>22. ASSUME NEW flags \in OnErr, CallbackRaises(flags) PROVE Unbroken'
  BY <1>22 DEF CallbackRaises, Careful, Hangup
<1>23. CASE ExecuteReturns
  BY <1>23 DEF ExecuteReturns, Becomes
<1>24. CASE ExecuteReturnsNull
  BY <1>24 DEF ExecuteReturnsNull
<1>25. CASE TimeOut
  BY <1>25 DEF TimeOut, Unregister, NoCall, NoSource, Becomes
<1>26. CASE UNCHANGED vars
  BY <1>26 DEF vars
<1> QED
  BY <1>1, <1>2, <1>3, <1>4, <1>5, <1>6, <1>7, <1>8, <1>9, <1>10, <1>11, <1>12, <1>13,
       <1>14, <1>15, <1>16, <1>17, <1>18, <1>19, <1>20, <1>21, <1>22, <1>23, <1>24,
       <1>25, <1>26
     DEF Next, Application, Steps, Returns, Raises

(* readResponse fails only then.                                           *)
LEMMA BreaksIs ==
  ASSUME CarefulUse, Types, Thread, Duties, Exchange, Kept, Turns, Blame, Unbroken, Reads, ReplyBreaks
  PROVE  cur \in Calls /\ Excused(cur)
<1> USE DEF Excused
<1>1. cur \in Calls /\ disp # "none" /\ ~stale /\ \A i \in 1..Len(cbs) : cbs[i]
  BY DEF Reads, Called, Running, Types, Ledger, Duties, Stale, Chained
<1>2. Numbers /\ Phase /\ Ends
  BY <1>1 DEF Exchange
<1>3. CASE conn = "reset"
  BY <1>1, <1>3 DEF Unbroken
<1>4. CASE HeaderEnds # {} /\ Kind = "bad"
  BY <1>1, <1>2, <1>4, HeaderIs
<1>6. ASSUME conn = "eof", ~broken, Part = 0 PROVE CutBefore(cur)
  <2>1. execing /\ pc # "crashed" BY DEF Reads, Called, Running
  <2>2. stash = <<>> BY <1>1 DEF Kept, Stashed
  <2>3. PICK j \in Calls :
          /\ outcome[j] = "answered" /\ kind[j] = "abrupt"
          /\ \A k \in Calls : k > j => outcome[k] \in {"none", "refused", "pending"}
    BY <1>1, <1>6, <2>2 DEF Blame, Dead
  <2>4. outcome[cur] = "pending" /\ \A k \in Calls : outcome[k] = "pending" => k = cur
    BY <2>1 DEF Thread, Busy, CarefulUse
  <2>5. ~(j > cur) BY <2>1, <2>3 DEF Turns, Busy
  <2>6. j \in 1..(cur - 1) /\ \A i \in (j + 1)..(cur - 1) : i \in Calls /\ i > j /\ i # cur /\ i \in 1..(cur - 1)
    <3>1. j # cur BY <2>3, <2>4
    <3> QED BY <1>1, <2>5, <3>1, CallsAssumption DEF Calls
  <2>7. \A i \in 1..(cur - 1) : outcome[i] # "none" BY <1>1, <2>4 DEF Turns
  <2>8. \A i \in (j + 1)..(cur - 1) : outcome[i] = "refused" BY <2>3, <2>4, <2>6, <2>7
  <2> QED BY <2>3, <2>6, <2>8 DEF CutBefore
<1>5. CASE conn = "eof" /\ ~ReplyEnds
  <2>a. CASE broken BY <1>1, <2>a
  <2>b. CASE ~broken /\ Part = 0 BY <1>1, <1>5, <1>6, <2>b
  <2> SUFFICES ASSUME ~broken, Part # 0 PROVE FALSE BY <2>a, <2>b
  <2>1. Part = RespUnits /\ kind[cur] \in {"close", "eof", "abrupt"} /\ reply = <<>>
    BY <1>1, <1>2, <1>5 DEF Ends, Phase
  <2>2. /\ Data \in Seq(Units) /\ Len(Data) \in Nat /\ Len(Data) = Len(buf) + Len(inbox)
        /\ \A i \in 1..Len(Data) : Data[i] = Base(cur) + i
    BY <1>2, DataIs
  <2>3. Len(buf) \in Nat /\ Len(inbox) \in Nat /\ Len(reply) = 0 /\ RespUnits \in Nat \ {0, 1}
    BY <2>1, LenProperties, ClientUnitsAssumption DEF Types, Texts
  <2>4. Len(Data) = RespUnits
    BY <2>1, <2>2, <2>3 DEF Part
  <2>5. 1 \in 1..RespUnits /\ 1 \in 1..(Len(Data) - 1) /\ Data[1] = Base(cur) + 1
    BY <2>2, <2>3, <2>4
  <2>6. IsHeader(Data[1])
    BY <1>1, <2>5, UnitIs
  <2>7. HeaderEnds # {}
    BY <2>5, <2>6 DEF HeaderEnds
  <2>8. Kind = kind[cur] /\ BodyLength = Len(Data) - 1
    BY <1>1, <1>2, <2>7, HeaderIs
  <2>9. BodyLength >= RespUnits - 1
    BY <2>3, <2>4, <2>8
  <2> QED BY <1>5, <2>1, <2>7, <2>8, <2>9 DEF ReplyEnds
<1> QED BY <1>3, <1>4, <1>5 DEF ReplyBreaks

(* A call that has failed, or fails now, stays excused.                    *)
LEMMA ExcusedStays ==
  ASSUME CarefulUse, Types, Thread, Duties, Exchange, Kept, [Next]_vars,
         NEW k \in Calls, Excused(k), kind'[k] = kind[k]
  PROVE  Excused(k)'
<1>1. \A j \in 1..(k - 1) : j \in Calls /\ \A i \in (j + 1)..(k - 1) : i \in Calls
  BY CallsAssumption DEF Calls
<1>2. CutBefore(k) => CutBefore(k)'
  BY <1>1, Settled DEF CutBefore
<1> QED BY <1>2, Settled DEF Excused

(* Every step of a careful application keeps Failures.                     *)
LEMMA StepFailures ==
  ASSUME CarefulUse, Types, Thread, Duties, Exchange, Kept, Turns, Blame, Unbroken, Failures, [Next]_vars
  PROVE  Failures'
<1> DEFINE Newly(k) == outcome[k] # "failed" /\ outcome'[k] = "failed"
           Goal == \A k \in Calls : Newly(k) => Excused(k) /\ kind'[k] = kind[k]
<1> SUFFICES Goal
  <2>1. ASSUME NEW k \in Calls, outcome'[k] = "failed" PROVE Excused(k) /\ kind'[k] = kind[k]
    <3>1. CASE outcome[k] = "failed" BY <3>1, Settled DEF Failures
    <3>2. CASE outcome[k] # "failed" BY <2>1, <3>2
    <3> QED BY <3>1, <3>2
  <2> QED BY <2>1, ExcusedStays DEF Failures
<1> USE DEF call, thread, net
<1>t. outcome \in [Calls -> Outcomes]
  BY DEF Types, Ledger
<1>1. CASE Server
  BY <1>1, <1>t
     DEF Server, Wire!Serve, Wire!Establish, Wire!Answer, Wire!RefuseTorn,
       Wire!SendSome
<1>2. CASE Drop
  BY <1>2, <1>t DEF Drop, Wire!Drop, Wire!net
<1>3. ASSUME NEW k \in Calls, NbExecute(k) PROVE Goal
  BY <1>3, <1>t DEF NbExecute, Queue, Becomes, PythonRuns, MayCall, NextCall
<1>4. ASSUME NEW k \in Calls, NbExecuteRefused(k) PROVE Goal
  BY <1>4, <1>t DEF NbExecuteRefused, Becomes, PythonRuns, MayCall, NextCall
<1>5. ASSUME NEW k \in Calls, Execute(k) PROVE Goal
  BY <1>5, <1>t DEF Execute, Queue, Becomes, PythonRuns, MayCall, NextCall
<1>6. ASSUME NEW k \in Calls, ExecuteRefused(k) PROVE Goal
  BY <1>6, <1>t DEF ExecuteRefused, Becomes, PythonRuns, MayCall, NextCall
<1>7. CASE Close
  BY <1>7, <1>t DEF Close, Hangup, PythonRuns
<1>8. CASE Work
  BY <1>8, <1>t DEF Work
<1>9. CASE EndWork
  BY <1>9, <1>t DEF EndWork, Outside
<1>10. CASE Connect
  BY <1>10, <1>t DEF Connect
<1>11. CASE Connected
  BY <1>11, <1>t DEF Connected
<1>12. CASE WriteSome
  BY <1>12, <1>t DEF WriteSome
<1>13. CASE ReadMore
  BY <1>13, <1>t DEF ReadMore
<1>14. CASE CallBack
  BY <1>14, <1>t DEF CallBack, Reads, Called, NoCall, NoSource, Becomes
<1>15. CASE Executed
  BY <1>15, <1>t DEF Executed, Reads, Called, NoSource
<1>16. ASSUME NEW flags \in OnErr, ConnectFails(flags) PROVE Goal
  <2>1. broken BY <1>16 DEF ConnectFails
  <2>2. kind' = kind BY <1>16 DEF ConnectFails, Fail
  <2> QED BY <2>1, <2>2 DEF Excused
<1>17. ASSUME NEW flags \in OnErr, ConnectingFails(flags) PROVE Goal
  <2>1. broken BY <1>17 DEF ConnectingFails, Unbroken
  <2>2. kind' = kind BY <1>17 DEF ConnectingFails, Fail
  <2> QED BY <2>1, <2>2 DEF Excused
<1>18. ASSUME NEW flags \in OnErr, WriteFails(flags) PROVE Goal
  <2>1. broken BY <1>18 DEF WriteFails, Unbroken
  <2>2. kind' = kind BY <1>18 DEF WriteFails, Fail
  <2> QED BY <2>1, <2>2 DEF Excused
<1>19. ASSUME NEW flags \in OnErr, ReadFails(flags) PROVE Goal
  <2>1. Excused(cur) BY <1>19, BreaksIs DEF ReadFails
  <2>2. kind' = kind /\ (outcome' = outcome \/ outcome' = [outcome EXCEPT ![cur] = "failed"])
    BY <1>19 DEF ReadFails, Fail, Becomes
  <2> QED BY <2>1, <2>2, <1>t
<1>20. CASE AssertionFails
  BY <1>20, <1>t DEF AssertionFails, Running
<1>21. CASE CallbackReturns
  BY <1>21, <1>t DEF CallbackReturns
<1>22. ASSUME NEW flags \in OnErr, CallbackRaises(flags) PROVE Goal
  BY <1>22, <1>t DEF CallbackRaises
<1>23. CASE ExecuteReturns
  <2>1. stash # <<>> /\ UNCHANGED kind /\ Right(stash, cur) /\ cur \in Calls
    BY <1>23 DEF ExecuteReturns, Kept, Stashed, Thread, Busy
  <2>2. broken \/ Parses(stash) BY <2>1 DEF Right, Parses
  <2>3. CASE broken BY <2>1, <2>3 DEF Excused
  <2>4. CASE Parses(stash)
    <3>1. outcome' = [outcome EXCEPT ![cur] = "answered"]
      BY <1>23, <2>4 DEF ExecuteReturns, Becomes
    <3> QED BY <2>1, <3>1, <1>t
  <2> QED BY <2>2, <2>3, <2>4
<1>24. CASE ExecuteReturnsNull
  BY <1>24, <1>t DEF ExecuteReturnsNull
<1>25. CASE TimeOut
  BY <1>25, <1>t DEF TimeOut, Unregister, NoCall, NoSource, Becomes
<1>26. CASE UNCHANGED vars
  BY <1>26, <1>t DEF vars
<1> QED
  BY <1>1, <1>2, <1>3, <1>4, <1>5, <1>6, <1>7, <1>8, <1>9, <1>10, <1>11, <1>12, <1>13,
       <1>14, <1>15, <1>16, <1>17, <1>18, <1>19, <1>20, <1>21, <1>22, <1>23, <1>24,
       <1>25, <1>26
     DEF Next, Application, Steps, Returns, Raises

-----------------------------------------------------------------------------
(* All of the invariants hold initially.                                   *)
LEMMA InvInit == Init => Types /\ Thread /\ Duties /\ Exchange /\ Kept /\ Turns /\ Blame /\ Unbroken /\ Failures
<1> SUFFICES ASSUME Init PROVE Types /\ Thread /\ Duties /\ Exchange /\ Kept /\ Turns /\ Blame /\ Unbroken /\ Failures
  OBVIOUS
<1>1. <<>> \in Seq(Calls) /\ <<>> \in Seq(Units) /\ <<>> \in Seq(BOOLEAN) /\ Len(<<>>) = 0
  OBVIOUS
<1>2. Types
  <2>1. Flags /\ Stack BY <1>1 DEF Init, Flags, Stack
  <2>2. Line BY ClientFlagsAssumption DEF Init, Line
  <2>3. Ledger
    BY CallsAssumption, ClientUnitsAssumption DEF Init, Ledger, Outcomes, Calls
  <2>4. Texts BY <1>1 DEF Init, Texts
  <2> QED BY <2>1, <2>2, <2>3, <2>4 DEF Types
<1>3. Thread /\ Registered /\ Turns /\ Blame
  BY DEF Init, Thread, Busy, Registered, ExecingSound, Turns, Blame
<1>4. Duties
  <2>1. Chained BY <1>1 DEF Init, Chained
  <2> QED BY <1>3, <2>1 DEF Init, Duties, Stale, Staged
<1>5. Exchange
  <2>1. Numbers BY <1>1, ClientUnitsAssumption DEF Init, Numbers, Part
  <2>2. Phase BY DEF Init, Phase
  <2>3. Ends BY DEF Init, Ends
  <2> QED BY <2>1, <2>2, <2>3 DEF Exchange
<1>6. Kept
  <2>1. Unended BY <1>1 DEF Init, Unended
  <2> QED BY <2>1 DEF Init, Kept, Stashed, Answers
<1>7. Unbroken /\ Failures
  BY DEF Init, Unbroken, Failures
<1> QED BY <1>2, <1>3, <1>4, <1>5, <1>6, <1>7

(* What holds whatever mistakes the application makes.                     *)
LEMMA ControlInvariant == Spec => [](Types /\ Thread)
<1>1. Types /\ Thread /\ [Next]_vars => (Types /\ Thread)'
  BY StepTypes, StepThread
<1> QED BY InvInit, <1>1, PTL DEF Spec

(* What holds for a careful application.                                   *)
LEMMA DataInvariant ==
  ASSUME CarefulUse
  PROVE  Spec => [](Duties /\ Exchange /\ Kept)
<1>1. Types /\ Thread /\ Duties /\ Exchange /\ Kept /\ [Next]_vars => (Duties /\ Exchange /\ Kept)'
  BY StepDuties, StepExchange, StepKept
<1> QED BY InvInit, ControlInvariant, <1>1, PTL DEF Spec

-----------------------------------------------------------------------------
(* Every variable has its type: execute returns to where it may be called  *)
(* and a callback is active if one is running, whatever mistakes the       *)
(* application makes (rpcClient.c).                                        *)
THEOREM TypeCorrect == Spec => []TypeOK
<1>1. Types => TypeOK
  BY DEF Types, Flags, Line, Ledger, Stack, Texts, TypeOK
<1> QED BY ControlInvariant, <1>1, PTL

(* The client refuses a call only when there is one in progress and ends   *)
(* each one at most once, whatever mistakes the application makes, with any*)
(* error handler, and whatever the server and the network do; and it takes *)
(* one call at a time, unless execute is called during a call of nbExecute.*)
THEOREM ClientKeepsPromise == Spec => ImplementsRpcCalls
<1>1. Init => Promise!Init
  BY DEF Init, Promise!Init
<1>2. Types /\ Thread /\ [Next]_vars => [Promise!Next]_outcome
  BY StepPromise
<1> QED BY ControlInvariant, <1>1, <1>2, PTL DEF Spec, ImplementsRpcCalls, Promise!Spec

(* execing is set exactly while the client's source is registered, so      *)
(* execDispatch's assertion holds, unless execute is called during a call  *)
(* of nbExecute.                                                           *)
THEOREM ExecingIsSound ==
  ASSUME "overlap" \notin Careless
  PROVE  Spec => []ExecingSound
<1>1. Types /\ Thread /\ Registered /\ [Next]_vars => Registered'
  BY StepExecing
<1>2. Duties => Registered
  BY DEF Duties
<1>3. Registered => ExecingSound
  BY DEF Registered
<1> QED BY InvInit, ControlInvariant, <1>1, <1>2, <1>3, PTL DEF Spec

(* An answer is the response to its call, whole and nothing else, for any  *)
(* number of calls, any lengths of requests and responses, and however     *)
(* they are split by reads and writes.                                     *)
THEOREM AnswersAreRight ==
  ASSUME CarefulUse
  PROVE  Spec => []RightAnswer
<1>1. Kept => RightAnswer
  BY DEF Kept, Answers, Right, RightAnswer
<1> QED BY DataInvariant, <1>1, PTL

(* Between two calls there is nothing on the connection that the next one  *)
(* would take for its own.                                                 *)
THEOREM SilentBetweenCalls ==
  ASSUME CarefulUse
  PROVE  Spec => []SilentWhenIdle
<1>1. Types /\ Duties /\ Exchange => SilentWhenIdle
  BY Silent DEF Exchange, SilentWhenIdle
<1> QED BY ControlInvariant, DataInvariant, <1>1, PTL

(* The client keeps to its part of Connection, which is all that the       *)
(* server's model assumes of it.                                           *)
THEOREM ClientKeepsToConnection ==
  ASSUME CarefulUse
  PROVE  Spec => KeepsToConnection
<1>1. Types /\ Duties /\ Exchange /\ [Next]_vars => [Server \/ Drop \/ Wire!Use]_(Wire!vars)
  BY StepKeeping DEF Keeping
<1> QED BY ControlInvariant, DataInvariant, <1>1, PTL DEF Spec, KeepsToConnection

(* No call fails unless the server or the network does, its response cannot*)
(* be parsed, or the one before has ended the connection without saying so.*)
THEOREM NothingFailsInVain ==
  ASSUME CarefulUse, "raise" \notin Careless
  PROVE  Spec => []CallsSucceed
<1>1. Types /\ Thread /\ Duties /\ Exchange /\ Kept /\ Turns /\ Blame /\ Unbroken /\ Failures /\ [Next]_vars
        => (Turns /\ Blame /\ Unbroken /\ Failures)'
  BY StepTurns, StepBlame, StepUnbroken, StepFailures
<1>2. Failures => CallsSucceed
  BY DEF Failures, Excused, CallsSucceed
<1> QED BY InvInit, ControlInvariant, DataInvariant, <1>1, <1>2, PTL DEF Spec
=============================================================================
