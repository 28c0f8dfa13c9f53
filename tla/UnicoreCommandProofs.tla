------------------------ MODULE UnicoreCommandProofs ------------------------
(***************************************************************************)
(* The invariants of UnicoreCommand for any set of commands and any number *)
(* of calls.                                                               *)
(***************************************************************************)
EXTENDS UnicoreCommand, SequenceTheorems, TLAPS

USE UnicoreCommandAssumption

(* What the rx task makes of a sentence.                                    *)
LEMMA VerdictFacts ==
    ASSUME NEW s
    PROVE  /\ Verdict(s) \in {"none", "ok", "error"}
           /\ Verdict(s) = "error" <=> s.kind = "error"
  BY DEF Verdict

(* A rx task that is not idle has a sentence and a verdict.                 *)
LEMMA RxFacts ==
    ASSUME TypeOK, rx.at # "idle"
    PROVE  /\ rx.at \in {"match", "complete", "give", "callback"}
           /\ rx.sentence \in Sentences
           /\ rx.verdict \in {"none", "ok", "error"}
  BY DEF TypeOK, RxIdle

(* Sequences: taking the head, the members, and adding one at the end.      *)
LEMMA HeadAndTail ==
    ASSUME NEW S, NEW q \in Seq(S), q # <<>>
    PROVE  /\ Head(q) \in S /\ Head(q) = q[1] /\ Len(q) \in Nat \ {0}
           /\ Tail(q) \in Seq(S) /\ Len(Tail(q)) = Len(q) - 1
           /\ \A i \in 1 .. Len(Tail(q)) : Tail(q)[i] = q[i + 1]
  OBVIOUS

(* The members of a sequence.                                               *)
LEMMA Members ==
    ASSUME NEW S, NEW q \in Seq(S)
    PROVE  /\ Len(q) \in Nat /\ \A i \in 1 .. Len(q) : q[i] \in S
           /\ Len(q) = 0 => q = <<>>
  OBVIOUS

(* The two forms of an answer on an empty line.                             *)
LEMMA Joined ==
    ASSUME NEW a, NEW b
    PROVE  /\ (<<>> \o <<a>>) \o <<>> = <<a>>
           /\ (<<>> \o <<a>>) \o <<b>> = <<a, b>>
           /\ Append(<<>>, a) = <<a>>
  <1> DEFINE S == {a, b}
  <1>1. <<a>> \in Seq(S) /\ <<b>> \in Seq(S) /\ <<a, b>> \in Seq(S) /\ <<>> \in Seq(S)
    OBVIOUS
  <1>2. <<a>> \o <<b>> = <<a, b>>
    <2>1. /\ Len(<<a>> \o <<b>>) = 2
          /\ \A i \in 1 .. 2 : (<<a>> \o <<b>>)[i] = IF i <= 1 THEN <<a>>[i] ELSE <<b>>[i - 1]
      BY <1>1, ConcatProperties
    <2>2. <<a>> \o <<b>> \in Seq(S)
      BY <1>1, ConcatProperties
    <2>3. \A i \in 1 .. 2 : (<<a>> \o <<b>>)[i] = <<a, b>>[i]
      BY <2>1
    <2> QED BY <1>1, <2>1, <2>2, <2>3, SeqEqual
  <1>3. <<>> \o <<a>> = <<a>> /\ <<a>> \o <<>> = <<a>>
    BY <1>1, ConcatEmptySeq
  <1>4. Append(<<>>, a) = <<a>>
    BY <1>1, <1>3, AppendIsConcat
  <1> QED BY <1>2, <1>3, <1>4

(* A sequence with one element more.                                        *)
LEMMA Appended ==
    ASSUME NEW S, NEW q \in Seq(S), NEW e
    PROVE  /\ Len(Append(q, e)) = Len(q) + 1
           /\ \A i \in 1 .. Len(q) + 1 : Append(q, e)[i] = IF i <= Len(q) THEN q[i] ELSE e
  OBVIOUS

(* A sentence of the receiver answers a command.                            *)
LEMMA AnswerType ==
    ASSUME NEW m \in [call : Calls, command : Commands], NEW kind \in {"ack", "data", "error"}
    PROVE  /\ Answer(m, kind) \in Sentences
           /\ Answer(m, kind).call = m.call /\ Answer(m, kind).kind = kind
  BY DEF Answer, Sentences

-----------------------------------------------------------------------------
(* Types.                                                                   *)
LEMMA InitType == Init => TypeOK
  <1> SUFFICES ASSUME Init PROVE TypeOK
    OBVIOUS
  <1>1. wire \in Seq([call : Calls, command : Commands]) /\ line \in Seq(Sentences)
    BY DEF Init
  <1>2. returned \in [call : 0 .. MaxCalls, command : Commands \union {NoCommand},
                     result : Results, clean : BOOLEAN]
    BY DEF Init, Results
  <1> QED BY <1>1, <1>2 DEF Init, TypeOK, Results

(* Every step keeps the types.                                              *)
LEMMA TypeStep == TypeOK /\ Numbered /\ [Next]_vars => TypeOK'
  <1> SUFFICES ASSUME TypeOK, Numbered, [Next]_vars PROVE TypeOK'
    OBVIOUS
  <1> USE DEF TypeOK
  <1>1. ASSUME NEW c \in Commands, SendBusy(c) PROVE TypeOK'
    BY <1>1 DEF SendBusy, Rejected, Return, Results, slot, link
  <1>2. ASSUME NEW c \in Commands, SendLockTimeout(c) PROVE TypeOK'
    BY <1>2 DEF SendLockTimeout, Rejected, Return, Results, slot, link
  <1>3. ASSUME NEW c \in Commands, SendClear(c) PROVE TypeOK'
    <2>1. clean' \in BOOLEAN
      BY <1>3 DEF SendClear, Quiet
    <2>2. call' \in 0 .. MaxCalls /\ lastResult' \in Results
      BY <1>3 DEF SendClear, Results
    <2> QED BY <1>3, <2>1, <2>2 DEF SendClear, link
  <1>4. CASE SendArm
    BY <1>4 DEF SendArm, link
  <1>5. CASE Transmit
    <2>1. [call |-> call, command |-> pendingCommand] \in [call : Calls, command : Commands]
      BY <1>5 DEF Transmit, Numbered, Calls
    <2>2. wire' \in Seq([call : Calls, command : Commands])
      BY <1>5, <2>1 DEF Transmit
    <2> QED BY <1>5, <2>2 DEF Transmit, slot
  <1>6. CASE WaitDone
    BY <1>6 DEF WaitDone, Return, slot, link
  <1>7. CASE WaitTimeout
    BY <1>7 DEF WaitTimeout, slot, link
  <1>8. CASE Expire
    <2>1. lastResult' \in Results
      BY <1>8 DEF Expire, Results
    <2> QED BY <1>8, <2>1 DEF Expire, link
  <1>9. CASE Drain
    BY <1>9 DEF Drain, Return, Results, slot, link
  <1>10. CASE RxTake
    <2>1. line' \in Seq(Sentences) /\ Head(line) \in Sentences
      BY <1>10 DEF RxTake
    <2>2. rx' \in [at : {"match", "complete", "give", "callback"}, sentence : Sentences,
                   verdict : {"none", "ok", "error"}]
      BY <1>10, <2>1 DEF RxTake, RxAt
    <2> QED BY <1>10, <2>1, <2>2 DEF RxTake, slot
  <1>11. CASE RxMatch
    <2>1. rx' \in [at : {"match", "complete", "give", "callback"}, sentence : Sentences,
                   verdict : {"none", "ok", "error"}]
      <3>1. rx.sentence \in Sentences
        BY <1>11, RxFacts DEF RxMatch
      <3> QED BY <1>11, <3>1, VerdictFacts DEF RxMatch, RxAt
    <2> QED BY <1>11, <2>1 DEF RxMatch, slot, link
  <1>12. CASE RxComplete
    <2>1. rx.sentence \in Sentences /\ rx.verdict \in {"ok", "error"}
      BY <1>12, RxFacts DEF RxComplete, Numbered
    <2>2. rx' \in [at : {"match", "complete", "give", "callback"}, sentence : Sentences,
                   verdict : {"none", "ok", "error"}]
      BY <1>12, <2>1 DEF RxComplete, RxAt
    <2>3. lastResult' \in Results /\ commandPending' \in BOOLEAN
      BY <1>12, <2>1 DEF RxComplete, Results
    <2> QED BY <1>12, <2>2, <2>3 DEF RxComplete, link
  <1>13. CASE RxGive
    <2>1. rx' \in [at : {"match", "complete", "give", "callback"}, sentence : Sentences,
                   verdict : {"none", "ok", "error"}]
      BY <1>13, RxFacts DEF RxGive, RxAt
    <2> QED BY <1>13, <2>1 DEF RxGive, slot, link
  <1>14. CASE RxCallback
    <2>1. rx.sentence.call \in 0 .. MaxCalls
      BY <1>14, RxFacts DEF RxCallback, Sentences, Calls
    <2> QED BY <1>14, <2>1 DEF RxCallback, slot, link
  <1>15. CASE Environment
    <2>1. ASSUME wire # <<>>
          PROVE  /\ Head(wire) \in [call : Calls, command : Commands]
                 /\ Tail(wire) \in Seq([call : Calls, command : Commands])
      BY <2>1, HeadAndTail
    <2>2. CASE ReceiverAccepts
      <3>1. Answer(Head(wire), "ack") \in Sentences /\ Answer(Head(wire), "data") \in Sentences
        BY <2>1, <2>2, AnswerType DEF ReceiverAccepts
      <3>2. line' \in Seq(Sentences)
        <4> DEFINE data == IF Head(wire).command \in Queries
                             THEN <<Answer(Head(wire), "data")>> ELSE <<>>
        <4>1. data \in Seq(Sentences) /\ <<Answer(Head(wire), "ack")>> \in Seq(Sentences)
          BY <3>1
        <4> HIDE DEF data
        <4>2. line \o <<Answer(Head(wire), "ack")>> \in Seq(Sentences)
          BY <4>1
        <4>3. (line \o <<Answer(Head(wire), "ack")>>) \o data \in Seq(Sentences)
          BY <4>1, <4>2
        <4> QED BY <2>2, <4>3 DEF ReceiverAccepts, data
      <3>3. wire' \in Seq([call : Calls, command : Commands]) /\ accepted' \subseteq Calls
        BY <2>1, <2>2 DEF ReceiverAccepts
      <3> QED BY <1>15, <3>2, <3>3 DEF Environment, slot
    <2>3. CASE ReceiverRejects
      <3>1. line' \in Seq(Sentences)
        BY <2>1, <2>3, AnswerType DEF ReceiverRejects
      <3>2. wire' \in Seq([call : Calls, command : Commands]) /\ accepted' = accepted
        BY <2>1, <2>3 DEF ReceiverRejects
      <3> QED BY <1>15, <3>1, <3>2 DEF Environment, slot
    <2>4. CASE CommandLost
      <3>1. wire' \in Seq([call : Calls, command : Commands]) /\ UNCHANGED <<line, accepted>>
        BY <2>1, <2>4 DEF CommandLost
      <3> QED BY <1>15, <3>1 DEF Environment, slot
    <2>5. CASE SentenceLost
      <3>1. line' \in Seq(Sentences) /\ UNCHANGED <<wire, accepted>>
        BY <2>5 DEF SentenceLost
      <3> QED BY <1>15, <3>1 DEF Environment, slot
    <2> QED BY <1>15, <2>2, <2>3, <2>4, <2>5 DEF Environment
  <1>16. CASE UNCHANGED vars
    BY <1>16 DEF vars, slot, link
  <1> QED BY <1>1, <1>2, <1>3, <1>4, <1>5, <1>6, <1>7, <1>8, <1>9, <1>10, <1>11, <1>12,
             <1>13, <1>14, <1>15, <1>16 DEF Next, Start, Client, Rx

-----------------------------------------------------------------------------
(* The calls on the link are calls that were sent.                          *)
LEMMA NumberedStep == TypeOK /\ Numbered /\ [Next]_vars => Numbered'
  <1> SUFFICES ASSUME TypeOK, Numbered, [Next]_vars PROVE Numbered'
    OBVIOUS
  <1>0. /\ call \in Nat /\ Len(wire) \in Nat /\ returned.call \in Nat
        /\ \A i \in 1 .. Len(wire) : wire[i].call \in Nat
    <2>1. /\ wire \in Seq([call : Calls, command : Commands])
          /\ call \in 0 .. MaxCalls /\ returned.call \in 0 .. MaxCalls
      BY DEF TypeOK
    <2>2. \A i \in 1 .. Len(wire) : wire[i] \in [call : Calls, command : Commands]
      BY <2>1, Members
    <2>3. \A i \in 1 .. Len(wire) : wire[i].call \in Calls
      BY <2>2
    <2>4. Len(wire) \in Nat /\ MaxCalls \in Nat
      BY <2>1, Members
    <2>5. call \in Nat /\ returned.call \in Nat
      BY <2>1, <2>4
    <2>6. \A i \in 1 .. Len(wire) : wire[i].call \in Nat
      BY <2>3, <2>4 DEF Calls
    <2> QED BY <2>4, <2>5, <2>6
  <1>1. ASSUME NEW c \in Commands, SendBusy(c) \/ SendLockTimeout(c) PROVE Numbered'
    <2>1. /\ call' = call + 1 /\ returned'.call = call + 1 /\ client' = "idle"
          /\ UNCHANGED <<rx, wire, accepted>>
      <3>1. \/ Rejected(c, "waiting") \/ Rejected(c, "timeout")
        BY <1>1 DEF SendBusy, SendLockTimeout
      <3>2. ASSUME NEW result, Rejected(c, result)
            PROVE  /\ call' = call + 1 /\ returned'.call = call + 1 /\ client' = "idle"
                   /\ UNCHANGED <<rx, wire, accepted>>
        BY <3>2 DEF Rejected, Return, link
      <3> QED BY <3>1, <3>2
    <2>2. accepted' \subseteq 1 .. call' /\ \A i \in 1 .. Len(wire') : wire'[i].call <= call'
      BY <1>0, <2>1 DEF Numbered
    <2> QED BY <1>0, <2>1, <2>2 DEF Numbered
  <1>2. ASSUME NEW c \in Commands, SendClear(c) PROVE Numbered'
    <2>1. /\ call' = call + 1 /\ pendingCommand' \in Commands /\ client' = "arming"
          /\ UNCHANGED <<rx, wire, accepted, returned>>
      BY <1>2 DEF SendClear, link
    <2>2. accepted' \subseteq 1 .. call' /\ \A i \in 1 .. Len(wire') : wire'[i].call <= call'
      BY <1>0, <2>1 DEF Numbered
    <2> QED BY <1>0, <2>1, <2>2 DEF Numbered
  <1>3. CASE SendArm
    BY <1>0, <1>3 DEF SendArm, Numbered, link
  <1>4. CASE Transmit
    <2> DEFINE m == [call |-> call, command |-> pendingCommand]
    <2>1. wire' = Append(wire, m) /\ m.call = call
      BY <1>4 DEF Transmit
    <2>2. \A i \in 1 .. Len(wire') : wire'[i].call <= call
      <3> HIDE DEF m
      <3>1. wire \in Seq([call : Calls, command : Commands])
        BY DEF TypeOK
      <3>2. \A i \in 1 .. Len(wire') : wire'[i] = IF i <= Len(wire) THEN wire[i] ELSE m
        BY <2>1, <3>1
      <3>3. Len(wire') = Len(wire) + 1
        BY <2>1, <3>1
      <3> QED BY <1>0, <2>1, <3>2, <3>3 DEF Numbered
    <2> QED BY <1>0, <1>4, <2>2 DEF Transmit, Numbered, slot
  <1>5. CASE WaitDone \/ Drain
    <2>1. returned'.call = call /\ client' = "idle" /\ UNCHANGED <<call, rx, wire, accepted>>
      BY <1>5 DEF WaitDone, Drain, Return, link
    <2> QED BY <1>0, <2>1 DEF Numbered
  <1>6. CASE WaitTimeout
    BY <1>0, <1>6 DEF WaitTimeout, Numbered, slot, link
  <1>7. CASE Expire
    BY <1>0, <1>7 DEF Expire, Numbered, link
  <1>8. CASE RxTake
    BY <1>0, <1>8 DEF RxTake, RxAt, Numbered, slot
  <1>9. CASE RxMatch
    BY <1>0, <1>9, VerdictFacts DEF RxMatch, RxAt, Numbered, slot, link
  <1>10. CASE RxComplete
    BY <1>0, <1>10 DEF RxComplete, RxAt, Numbered, link
  <1>11. CASE RxGive
    BY <1>0, <1>11 DEF RxGive, RxAt, Numbered, slot, link
  <1>12. CASE RxCallback
    BY <1>0, <1>12 DEF RxCallback, RxIdle, Numbered, slot, link
  <1>13. CASE Environment
    <2>1. ASSUME wire # <<>>, wire' = Tail(wire),
                 accepted' \subseteq accepted \union {Head(wire).call}
          PROVE  /\ accepted' \subseteq 1 .. call
                 /\ \A i \in 1 .. Len(wire') : wire'[i].call <= call
      <3>1. /\ Head(wire) = wire[1] /\ Head(wire).call \in Calls
            /\ Len(Tail(wire)) = Len(wire) - 1 /\ Len(wire) >= 1
            /\ \A i \in 1 .. Len(Tail(wire)) : Tail(wire)[i] = wire[i + 1]
        <4>1. wire \in Seq([call : Calls, command : Commands])
          BY DEF TypeOK
        <4>2. /\ Head(wire) \in [call : Calls, command : Commands]
              /\ Head(wire) = wire[1] /\ Len(wire) \in Nat \ {0}
              /\ Len(Tail(wire)) = Len(wire) - 1
              /\ \A i \in 1 .. Len(Tail(wire)) : Tail(wire)[i] = wire[i + 1]
          BY <2>1, <4>1, HeadAndTail
        <4> QED BY <4>2
      <3>2. Head(wire).call \in 1 .. call
        BY <1>0, <3>1 DEF Numbered, Calls
      <3> QED BY <1>0, <2>1, <3>1, <3>2 DEF Numbered
    <2> QED BY <1>0, <1>13, <2>1 DEF Environment, ReceiverAccepts, ReceiverRejects, CommandLost,
              SentenceLost, Numbered, slot
  <1>14. CASE UNCHANGED vars
    BY <1>14 DEF vars, Numbered, slot, link
  <1> QED BY <1>1, <1>2, <1>3, <1>4, <1>5, <1>6, <1>7, <1>8, <1>9, <1>10, <1>11, <1>12,
             <1>13, <1>14 DEF Next, Start, Client, Rx

-----------------------------------------------------------------------------
(* What a clean call has returned stays true.                               *)

(* A step that neither returns nor touches the way to the receiver.         *)
LEMMA ReturnedKept ==
    ASSUME CleanCallsSound, ErrorsFinal, UNCHANGED <<returned, wire, accepted>>
    PROVE  CleanCallsSound' /\ ErrorsFinal'
  BY DEF CleanCallsSound, ErrorsFinal

(* Every step keeps what the calls returned true.                           *)
LEMMA SoundStep == IInv /\ [Next]_vars => CleanCallsSound' /\ ErrorsFinal'
  <1> SUFFICES ASSUME IInv, [Next]_vars PROVE CleanCallsSound' /\ ErrorsFinal'
    OBVIOUS
  <1>0. TypeOK /\ CleanCallsSound /\ ErrorsFinal /\ Numbered /\ CleanCall
    BY DEF IInv, CleanCallOwnsSlot
  <1>1. ASSUME NEW c \in Commands, SendBusy(c) \/ SendLockTimeout(c)
        PROVE  CleanCallsSound' /\ ErrorsFinal'
    <2>1. ~returned'.clean
      BY <1>1 DEF SendBusy, SendLockTimeout, Rejected, Return
    <2> QED BY <2>1 DEF CleanCallsSound, ErrorsFinal
  <1>2. ASSUME NEW c \in Commands, SendClear(c) PROVE CleanCallsSound' /\ ErrorsFinal'
    BY <1>0, <1>2, ReturnedKept DEF SendClear, link
  <1>3. CASE SendArm \/ WaitTimeout \/ Expire
    BY <1>0, <1>3, ReturnedKept DEF SendArm, WaitTimeout, Expire, link
  <1>4. CASE Transmit
    <2>1. wire \in Seq([call : Calls, command : Commands]) /\ call \in Nat /\ returned.call \in Nat
      BY <1>0 DEF TypeOK
    <2>2. returned.call < call /\ UNCHANGED <<returned, accepted>>
      BY <1>0, <1>4 DEF Transmit, Numbered
    <2>3. Len(wire) \in Nat
      BY <2>1, Members
    <2>4. /\ Len(wire') = Len(wire) + 1
          /\ \A i \in 1 .. Len(wire) + 1 :
               wire'[i].call = IF i <= Len(wire) THEN wire[i].call ELSE call
      BY <1>4, <2>1, Appended DEF Transmit
    <2>5. ErrorsFinal'
      BY <1>0, <2>1, <2>2, <2>3, <2>4 DEF ErrorsFinal
    <2> QED BY <1>0, <2>2, <2>5 DEF CleanCallsSound
  <1>5. CASE WaitDone
    <2>1. /\ returned'.call = call /\ returned'.result = lastResult /\ returned'.clean = clean
          /\ UNCHANGED <<wire, accepted>> /\ client = "wait" /\ done = 1
      BY <1>5 DEF WaitDone, Return, link
    <2>2. CASE clean
      <3>1. OnlyItsCommand /\ SlotHoldsResult
        BY <1>0, <2>1, <2>2 DEF CleanCall
      <3>2. wire = <<>>
        BY <2>1, <3>1 DEF OnlyItsCommand
      <3>3. lastResult \in {"ok", "error"} /\ (lastResult = "error" <=> call \notin accepted)
        BY <2>1, <3>1 DEF SlotHoldsResult, Truthful
      <3>4. Len(wire') = 0
        BY <2>1, <3>2
      <3> QED BY <2>1, <3>3, <3>4 DEF CleanCallsSound, ErrorsFinal
    <2>3. CASE ~clean
      BY <2>1, <2>3 DEF CleanCallsSound, ErrorsFinal
    <2> QED BY <2>2, <2>3
  <1>6. CASE Drain
    <2>1. returned'.result = "timeout"
      BY <1>6 DEF Drain, Return
    <2> QED BY <2>1 DEF CleanCallsSound, ErrorsFinal
  <1>7. CASE RxTake \/ RxMatch \/ RxComplete \/ RxGive \/ RxCallback
    BY <1>0, <1>7, ReturnedKept DEF RxTake, RxMatch, RxComplete, RxGive, RxCallback, link
  <1>8. CASE Environment
    <2>1. UNCHANGED returned
      BY <1>8 DEF Environment
    <2>2. ASSUME wire # <<>>, wire' = Tail(wire),
                 accepted' = accepted \/ accepted' = accepted \union {Head(wire).call}
          PROVE  CleanCallsSound' /\ ErrorsFinal'
      <3>1. wire \in Seq([call : Calls, command : Commands])
        BY <1>0 DEF TypeOK
      <3>2. /\ Head(wire) = wire[1] /\ Len(wire) \in Nat \ {0}
            /\ Len(wire') = Len(wire) - 1
            /\ \A i \in 1 .. Len(wire') : wire'[i] = wire[i + 1]
        BY <2>2, <3>1, HeadAndTail
      <3>3. returned.clean /\ returned.result = "error" => Head(wire).call # returned.call
        BY <1>0, <3>2 DEF ErrorsFinal
      <3>4. CleanCallsSound'
        BY <1>0, <2>1, <2>2, <3>3 DEF CleanCallsSound
      <3>5. ErrorsFinal'
        BY <1>0, <2>1, <3>2 DEF ErrorsFinal
      <3> QED BY <3>4, <3>5
    <2>3. CASE SentenceLost
      BY <1>0, <2>1, <2>3, ReturnedKept DEF SentenceLost
    <2> QED BY <1>8, <2>2, <2>3 DEF Environment, ReceiverAccepts, ReceiverRejects, CommandLost
  <1>9. CASE UNCHANGED vars
    BY <1>0, <1>9, ReturnedKept DEF vars, link
  <1> QED BY <1>1, <1>2, <1>3, <1>4, <1>5, <1>6, <1>7, <1>8, <1>9 DEF Next, Start, Client, Rx

-----------------------------------------------------------------------------
(* The slot of a clean call is pending only on its way.                     *)
LEMMA OwnsStep == IInv /\ [Next]_vars => CleanCallOwnsSlot'
  <1> SUFFICES ASSUME IInv, [Next]_vars PROVE CleanCallOwnsSlot'
    OBVIOUS
  <1>0. /\ TypeOK /\ Numbered /\ CleanCall
        /\ commandPending /\ clean => client \in {"transmit", "wait", "expired"}
    BY DEF IInv, CleanCallOwnsSlot
  <1>1. TypeOK'
    BY <1>0, TypeStep
  <1> SUFFICES (commandPending /\ clean => client \in {"transmit", "wait", "expired"})'
    BY <1>1 DEF CleanCallOwnsSlot
  <1>2. ASSUME NEW c \in Commands, SendBusy(c)
        PROVE  (commandPending /\ clean => client \in {"transmit", "wait", "expired"})'
    BY <1>0, <1>2 DEF SendBusy, Rejected, Return, slot
  <1>3. ASSUME NEW c \in Commands, SendLockTimeout(c)
        PROVE  (commandPending /\ clean => client \in {"transmit", "wait", "expired"})'
    BY <1>0, <1>3 DEF SendLockTimeout, Rejected, Return, slot
  <1>4. ASSUME NEW c \in Commands, SendClear(c)
        PROVE  (commandPending /\ clean => client \in {"transmit", "wait", "expired"})'
    BY <1>4 DEF SendClear
  <1>5. CASE SendArm
    BY <1>5 DEF SendArm
  <1>6. CASE Transmit
    BY <1>6 DEF Transmit
  <1>7. CASE WaitDone
    <2>1. client = "wait" /\ done = 1 /\ UNCHANGED <<commandPending, clean>>
      BY <1>7 DEF WaitDone, slot
    <2>2. clean => ~commandPending
      BY <1>0, <2>1 DEF CleanCall, SlotHoldsResult
    <2> QED BY <2>1, <2>2
  <1>8. CASE WaitTimeout
    BY <1>8 DEF WaitTimeout
  <1>9. CASE Expire
    BY <1>9 DEF Expire
  <1>10. CASE Drain
    BY <1>0, <1>10 DEF Drain, slot
  <1>11. CASE RxTake \/ RxMatch \/ RxGive \/ RxCallback
    BY <1>0, <1>11 DEF RxTake, RxMatch, RxGive, RxCallback, slot
  <1>12. CASE RxComplete
    BY <1>0, <1>12 DEF RxComplete
  <1>13. CASE Environment
    BY <1>0, <1>13 DEF Environment, slot
  <1>14. CASE UNCHANGED vars
    BY <1>0, <1>14 DEF vars, slot
  <1> QED BY <1>2, <1>3, <1>4, <1>5, <1>6, <1>7, <1>8, <1>9, <1>10, <1>11, <1>12, <1>13,
             <1>14 DEF Next, Start, Client, Rx

-----------------------------------------------------------------------------
(* A clean call has the link to itself.                                     *)

(* A step that leaves what a clean call is about alone keeps it.            *)
LEMMA CleanKept ==
    ASSUME CleanCall, UNCHANGED <<slot, done, client, rx, wire, line, accepted, call, clean>>
    PROVE  CleanCall'
  BY DEF CleanCall, Quiet, OnlyItsCommand, OnlyItsAnswers, SlotHoldsResult, Truthful, slot

(* A call that is over, or given up, owes nothing.                          *)
LEMMA CleanOver ==
    ASSUME client' \notin {"arming", "transmit", "wait"}
    PROVE  CleanCall'
  BY DEF CleanCall

(* The command of a clean call goes out on a quiet link.                    *)
LEMMA TransmitClean == IInv /\ Transmit => CleanCall'
  <1> SUFFICES ASSUME IInv, Transmit, clean PROVE CleanCall'
    BY DEF Transmit, CleanCall
  <1>1. /\ TypeOK /\ Quiet /\ lastResult = "waiting" /\ call \notin accepted
        /\ commandPending /\ done = 0
    BY DEF IInv, CleanCallOwnsSlot, CleanCall, Transmit
  <1>2. /\ client' = "wait"
        /\ UNCHANGED <<commandPending, lastResult, done, rx, line, accepted, call>>
    BY DEF Transmit, slot
  <1>3. wire' = <<[call |-> call, command |-> pendingCommand]>>
    BY <1>1 DEF Transmit, Quiet
  <1>4. OnlyItsCommand'
    BY <1>1, <1>2, <1>3 DEF OnlyItsCommand, Quiet
  <1>5. Len(line') = 0 /\ rx'.at = "idle"
    BY <1>1, <1>2 DEF Quiet, RxIdle
  <1>6. OnlyItsAnswers'
    BY <1>5 DEF OnlyItsAnswers
  <1>7. SlotHoldsResult'
    BY <1>1, <1>2, <1>5 DEF SlotHoldsResult
  <1> QED BY <1>2, <1>4, <1>6, <1>7 DEF CleanCall

(* The receiver answers a waiting clean call truthfully, once.              *)
LEMMA EnvironmentClean == IInv /\ Environment => CleanCall'
  <1> SUFFICES ASSUME IInv, Environment, clean, client \in {"arming", "transmit", "wait"}
               PROVE  CleanCall'
    BY DEF Environment, CleanCall
  <1>1. TypeOK /\ CleanCall /\ UNCHANGED <<slot, done, client, rx, call, clean>>
    BY DEF IInv, CleanCallOwnsSlot, Environment
  <1>2. wire \in Seq([call : Calls, command : Commands]) /\ line \in Seq(Sentences)
    BY <1>1 DEF TypeOK
  <1>3. client = "wait"
    BY <1>1 DEF CleanCall, Quiet, Environment, ReceiverAccepts, ReceiverRejects, CommandLost,
                SentenceLost
  <1>4. OnlyItsCommand /\ OnlyItsAnswers /\ SlotHoldsResult
    BY <1>1, <1>3 DEF CleanCall
  <1> SUFFICES OnlyItsCommand' /\ OnlyItsAnswers' /\ SlotHoldsResult'
    BY <1>1, <1>3 DEF CleanCall
  <1>5. ASSUME wire # <<>>, wire' = Tail(wire)
        PROVE  /\ line = <<>> /\ rx = RxIdle /\ commandPending /\ done = 0
               /\ lastResult = "waiting"
               /\ Head(wire).call = call /\ call \notin accepted
               /\ wire' = <<>>
               /\ Head(wire) \in [call : Calls, command : Commands]
    <2>1. /\ Head(wire) = wire[1] /\ Len(Tail(wire)) = Len(wire) - 1
          /\ Tail(wire) \in Seq([call : Calls, command : Commands])
      BY <1>2, <1>5, HeadAndTail
    <2>2. Head(wire) \in [call : Calls, command : Commands]
      BY <1>2, <1>5, HeadAndTail
    <2>3. Len(Tail(wire)) = 0
      BY <1>4, <1>5, <2>1 DEF OnlyItsCommand
    <2>4. Tail(wire) = <<>>
      BY <2>1, <2>3, Members
    <2> QED BY <1>4, <1>5, <2>1, <2>2, <2>4 DEF OnlyItsCommand, SlotHoldsResult
  <1>6. ASSUME wire' = <<>>, rx = RxIdle, commandPending, done = 0, lastResult = "waiting",
               (\A i \in 1 .. Len(line) : Truthful(line[i].kind))'
        PROVE  OnlyItsCommand' /\ OnlyItsAnswers' /\ SlotHoldsResult'
    <2>1. rx' = RxIdle /\ commandPending' = commandPending /\ done' = 0 /\ lastResult' = "waiting"
      BY <1>1, <1>6 DEF slot
    <2> QED BY <1>6, <2>1 DEF OnlyItsCommand, OnlyItsAnswers, SlotHoldsResult, RxIdle
  <1>7. CASE ReceiverAccepts
    <2>1. wire # <<>> /\ wire' = Tail(wire) /\ accepted' = accepted \union {Head(wire).call}
      BY <1>7 DEF ReceiverAccepts
    <2>2. /\ line = <<>> /\ Head(wire).call = call /\ wire' = <<>>
          /\ Head(wire) \in [call : Calls, command : Commands]
      BY <1>5, <2>1
    <2>3. call' \in accepted'
      BY <1>1, <2>1, <2>2
    <2>4. \/ line' = <<Answer(Head(wire), "ack")>>
          \/ line' = <<Answer(Head(wire), "ack"), Answer(Head(wire), "data")>>
      <3> DEFINE ack == Answer(Head(wire), "ack")
                 data == Answer(Head(wire), "data")
      <3>1. line' = (<<>> \o <<ack>>) \o (IF Head(wire).command \in Queries THEN <<data>> ELSE <<>>)
        BY <1>7, <2>2 DEF ReceiverAccepts
      <3> HIDE DEF ack, data
      <3>2. line' = <<ack>> \/ line' = <<ack, data>>
        BY <3>1, Joined
      <3> QED BY <3>2 DEF ack, data
    <2>5. Answer(Head(wire), "ack").kind = "ack" /\ Answer(Head(wire), "data").kind = "data"
      BY <2>2, AnswerType
    <2>6. \A i \in 1 .. Len(line') : line'[i].kind # "error"
      BY <2>4, <2>5
    <2>7. (\A i \in 1 .. Len(line) : Truthful(line[i].kind))'
      BY <2>3, <2>6 DEF Truthful
    <2> QED BY <1>5, <1>6, <2>1, <2>7
  <1>8. CASE ReceiverRejects
    <2>1. wire # <<>> /\ wire' = Tail(wire) /\ accepted' = accepted
      BY <1>8 DEF ReceiverRejects
    <2>2. /\ line = <<>> /\ call \notin accepted /\ wire' = <<>>
          /\ Head(wire) \in [call : Calls, command : Commands]
      BY <1>5, <2>1
    <2>3. line' = <<Answer(Head(wire), "error")>>
      BY <1>8, <2>2, Joined DEF ReceiverRejects
    <2>4. Answer(Head(wire), "error").kind = "error"
      BY <2>2, AnswerType
    <2>5. \A i \in 1 .. Len(line') : line'[i].kind = "error"
      BY <2>3, <2>4
    <2>6. (\A i \in 1 .. Len(line) : Truthful(line[i].kind))'
      BY <1>1, <2>1, <2>2, <2>5 DEF Truthful
    <2> QED BY <1>5, <1>6, <2>1, <2>6
  <1>9. CASE CommandLost
    <2>1. wire # <<>> /\ wire' = Tail(wire) /\ UNCHANGED <<line, accepted>>
      BY <1>9 DEF CommandLost
    <2>2. line' = <<>> /\ Len(line') = 0
      BY <1>5, <2>1
    <2> QED BY <1>5, <1>6, <2>1, <2>2
  <1>10. CASE SentenceLost
    <2>1. /\ line # <<>> /\ line' = Tail(line) /\ UNCHANGED <<wire, accepted>>
      BY <1>10 DEF SentenceLost
    <2>2. /\ Len(line') = Len(line) - 1 /\ Len(line) \in Nat
          /\ \A i \in 1 .. Len(line') : line'[i] = line[i + 1]
      BY <1>2, <2>1, HeadAndTail
    <2>3. OnlyItsCommand'
      BY <1>4, <2>1 DEF OnlyItsCommand
    <2>4. (\A i \in 1 .. Len(line) : Truthful(line[i].kind))'
      BY <1>1, <1>4, <2>1, <2>2 DEF OnlyItsAnswers, Truthful
    <2>5. OnlyItsAnswers'
      BY <1>1, <1>4, <2>1, <2>4 DEF OnlyItsAnswers, Truthful
    <2>6. SlotHoldsResult'
      BY <1>1, <1>4, <2>1 DEF SlotHoldsResult, Truthful, slot
    <2> QED BY <2>3, <2>5, <2>6
  <1> QED BY <1>7, <1>8, <1>9, <1>10 DEF Environment

(* The rx task judges the answers of a waiting clean call truthfully.       *)
LEMMA RxClean == IInv /\ Rx => CleanCall'
  <1> SUFFICES ASSUME IInv, Rx, clean, client \in {"arming", "transmit", "wait"}
               PROVE  CleanCall'
    BY DEF CleanCall, Rx, RxTake, RxMatch, RxComplete, RxGive, RxCallback
  <1>1. /\ TypeOK /\ CleanCall /\ Numbered
        /\ UNCHANGED <<client, wire, accepted, call, clean>>
    BY DEF IInv, CleanCallOwnsSlot, Rx, RxTake, RxMatch, RxComplete, RxGive, RxCallback, link
  <1>2. client = "wait"
    BY <1>1 DEF CleanCall, Quiet, RxIdle, Rx, RxTake, RxMatch, RxComplete, RxGive, RxCallback
  <1>3. OnlyItsCommand /\ OnlyItsAnswers /\ SlotHoldsResult
    BY <1>1, <1>2 DEF CleanCall
  <1>4. wire = <<>> /\ OnlyItsCommand'
    BY <1>1, <1>3 DEF OnlyItsCommand, RxIdle, Rx, RxTake, RxMatch, RxComplete, RxGive, RxCallback
  <1> SUFFICES OnlyItsAnswers' /\ SlotHoldsResult'
    BY <1>1, <1>2, <1>4 DEF CleanCall
  <1>5. ASSUME UNCHANGED <<line>>, UNCHANGED slot, UNCHANGED done, rx'.at # "give",
               rx'.at # "idle" =>
                 /\ Truthful(rx'.sentence.kind)
                 /\ rx'.verdict # "none" => Truthful(rx'.verdict)
        PROVE  OnlyItsAnswers' /\ SlotHoldsResult'
    BY <1>1, <1>3, <1>5 DEF OnlyItsAnswers, SlotHoldsResult, Truthful, slot
  <1>6. CASE RxTake
    <2>1. line \in Seq(Sentences) /\ line # <<>> /\ line' = Tail(line)
      BY <1>1, <1>6 DEF TypeOK, RxTake
    <2>2. /\ Head(line) = line[1] /\ Len(line) \in Nat \ {0} /\ Len(line') = Len(line) - 1
          /\ \A i \in 1 .. Len(line') : line'[i] = line[i + 1]
      BY <2>1, HeadAndTail
    <2>3. /\ rx'.at \in {"match", "callback"} /\ rx'.sentence = line[1] /\ rx'.verdict = "none"
          /\ UNCHANGED <<slot, done>>
      BY <1>6, <2>2 DEF RxTake, RxAt
    <2>4. OnlyItsAnswers'
      BY <1>1, <1>3, <2>2, <2>3 DEF OnlyItsAnswers, Truthful
    <2>5. SlotHoldsResult'
      BY <1>1, <1>3, <2>3 DEF SlotHoldsResult, Truthful, slot
    <2> QED BY <2>4, <2>5
  <1>7. CASE RxMatch
    <2>1. /\ rx'.at \in {"callback", "complete"} /\ rx'.sentence = rx.sentence
          /\ rx'.verdict = Verdict(rx.sentence)
          /\ UNCHANGED <<slot, done, line>> /\ rx.at # "idle"
      BY <1>7 DEF RxMatch, RxAt, link
    <2>2. Truthful(rx'.sentence.kind) /\ (rx'.verdict # "none" => Truthful(rx'.verdict))
      BY <1>3, <2>1, VerdictFacts DEF OnlyItsAnswers, Truthful
    <2> QED BY <1>5, <2>1, <2>2
  <1>8. CASE RxComplete
    <2>1. /\ rx'.at = "give" /\ rx'.sentence = rx.sentence /\ rx'.verdict = rx.verdict
          /\ UNCHANGED <<line, done>> /\ rx.at = "complete"
      BY <1>8 DEF RxComplete, RxAt, link
    <2>2. rx.verdict \in {"ok", "error"} /\ Truthful(rx.verdict) /\ Truthful(rx.sentence.kind)
      BY <1>1, <1>3, <2>1, RxFacts DEF OnlyItsAnswers, Numbered
    <2>3. OnlyItsAnswers'
      BY <1>1, <1>3, <2>1, <2>2 DEF OnlyItsAnswers, Truthful
    <2>4. ~commandPending' /\ lastResult' \in {"ok", "error"} /\ Truthful(lastResult')
      BY <1>1, <1>3, <1>8, <2>2 DEF RxComplete, SlotHoldsResult
    <2>5. SlotHoldsResult'
      BY <1>1, <2>4 DEF SlotHoldsResult, Truthful
    <2> QED BY <2>3, <2>5
  <1>9. CASE RxGive
    <2>1. /\ rx'.at = "callback" /\ rx'.sentence = rx.sentence /\ rx'.verdict = rx.verdict
          /\ UNCHANGED <<line, slot>> /\ rx.at = "give"
      BY <1>9 DEF RxGive, RxAt, link
    <2>2. OnlyItsAnswers'
      BY <1>1, <1>3, <2>1 DEF OnlyItsAnswers, Truthful
    <2>3. SlotHoldsResult'
      BY <1>1, <1>3, <2>1 DEF SlotHoldsResult, Truthful, slot
    <2> QED BY <2>2, <2>3
  <1>10. CASE RxCallback
    <2>1. rx'.at = "idle" /\ UNCHANGED <<line, slot, done>>
      BY <1>10 DEF RxCallback, RxIdle, link
    <2> QED BY <1>5, <2>1
  <1> QED BY <1>6, <1>7, <1>8, <1>9, <1>10 DEF Rx

(* Every step keeps what a clean call is about.                             *)
LEMMA CleanStep == IInv /\ [Next]_vars => CleanCall'
  <1> SUFFICES ASSUME IInv, [Next]_vars PROVE CleanCall'
    OBVIOUS
  <1>0. CleanCall /\ TypeOK /\ Numbered
    BY DEF IInv, CleanCallOwnsSlot
  <1>1. ASSUME NEW c \in Commands, SendBusy(c) \/ SendLockTimeout(c) PROVE CleanCall'
    BY <1>1, CleanOver DEF SendBusy, SendLockTimeout, Rejected, Return
  <1>2. ASSUME NEW c \in Commands, SendClear(c) PROVE CleanCall'
    <2>1. /\ client' = "arming" /\ clean' = Quiet /\ lastResult' = "waiting" /\ call' = call + 1
          /\ UNCHANGED <<wire, line, rx, accepted>>
      BY <1>2 DEF SendClear, link
    <2>2. call' \notin accepted'
      BY <1>0, <2>1 DEF Numbered, TypeOK
    <2>3. clean' => Quiet'
      BY <2>1 DEF Quiet
    <2> QED BY <2>1, <2>2, <2>3 DEF CleanCall
  <1>3. CASE SendArm
    <2>1. /\ client' = "transmit" /\ commandPending' /\ done' = 0 /\ client = "arming"
          /\ UNCHANGED <<lastResult, rx, wire, line, accepted, call, clean>>
      BY <1>3 DEF SendArm, link
    <2> QED BY <1>0, <2>1 DEF CleanCall, Quiet
  <1>4. CASE Transmit
    BY <1>4, TransmitClean
  <1>5. CASE WaitDone \/ WaitTimeout \/ Expire \/ Drain
    BY <1>5, CleanOver DEF WaitDone, WaitTimeout, Expire, Drain, Return
  <1>6. CASE Rx
    BY <1>6, RxClean
  <1>7. CASE Environment
    BY <1>7, EnvironmentClean
  <1>8. CASE UNCHANGED vars
    BY <1>0, <1>8, CleanKept DEF vars, link
  <1> QED BY <1>1, <1>2, <1>3, <1>4, <1>5, <1>6, <1>7, <1>8 DEF Next, Start, Client

-----------------------------------------------------------------------------
(* The invariant holds in every state.                                      *)
LEMMA Invariance == Spec => []IInv
  <1>1. Init => IInv
    <2> SUFFICES ASSUME Init PROVE IInv
      OBVIOUS
    <2>1. CleanCallOwnsSlot
      BY InitType DEF Init, CleanCallOwnsSlot
    <2>2. CleanCallsSound /\ ErrorsFinal /\ CleanCall
      BY DEF Init, CleanCallsSound, ErrorsFinal, CleanCall
    <2>3. Numbered
      BY DEF Init, Numbered, RxIdle
    <2> QED BY <2>1, <2>2, <2>3 DEF IInv
  <1>2. IInv /\ [Next]_vars => IInv'
    <2> SUFFICES ASSUME IInv, [Next]_vars PROVE IInv'
      OBVIOUS
    <2>1. Numbered'
      BY NumberedStep DEF IInv, CleanCallOwnsSlot
    <2> QED BY <2>1, SoundStep, OwnsStep, CleanStep DEF IInv
  <1> QED BY <1>1, <1>2, PTL DEF Spec

(* Whatever commands are sent, however often: a call of sendCommandAndWait  *)
(* that starts on a quiet link returns what the receiver did.               *)
THEOREM CleanCallsReturnTruth == Spec => []CleanCallsSound
  <1>1. IInv => CleanCallsSound
    BY DEF IInv
  <1> QED BY <1>1, Invariance, PTL

(* Such a call never leaves the slot occupied behind it, and every variable *)
(* keeps its range.                                                         *)
THEOREM CleanCallsFreeSlot == Spec => []CleanCallOwnsSlot
  <1>1. IInv => CleanCallOwnsSlot
    BY DEF IInv
  <1> QED BY <1>1, Invariance, PTL
=============================================================================
