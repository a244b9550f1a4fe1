----------------------------- MODULE EmpProofs ------------------------------
(***************************************************************************)
(* Proofs about the EMP client of cfwk/racon/emp.c, for any threads, any   *)
(* number of slots, commands, disconnections and commands of the agent:    *)
(* the inductive invariant and its type part, what a step that leaves a    *)
(* slot alone keeps of it, the steps of the calling threads, those of the  *)
(* reader, of the handler and of the agent, and the theorem.               *)
(***************************************************************************)
EXTENDS Emp, TLAPS

Owner(c) ==
  pc[c] \in {"init", "send", "wait", "expired", "return", "status", "free", "clear"}

\* The commands that may still be answered: the agent has them, or the reader
\* is handling the answer.
Handled == IF rpc \in {"check", "store", "post"} THEN {rmsg} ELSE {}
Unanswered == sent \cup Handled

Pending(r) == \E m \in Unanswered : m.rid = r

\* Holds in any case: a command that is sent, or handled, has a number.
Typed ==
  /\ TypeOK
  /\ \A c \in Callers : pc[c] # "idle" => req[c] \in 1 .. MaxReq
  /\ rpc \in {"check", "store", "post", "clear"} => rmsg \in Messages

\* A used rid has one owner, or none, and at most one command to be answered,
\* that of its owner.
Exclusive ==
  /\ \A c \in Callers : Owner(c) => rid[c] \in used
  /\ \A c, d \in Callers : Owner(c) /\ Owner(d) /\ rid[c] = rid[d] => c = d
  /\ \A m \in Unanswered : m.rid \in used
  /\ \A m \in Unanswered, c \in Callers : Owner(c) /\ rid[c] = m.rid => req[c] = m.req
  /\ \A m, n \in Unanswered : m.rid = n.rid => m = n
  /\ sent \cap Handled = {}

\* The reader wakes a caller that still waits, and frees slots nobody owns.
\* The agent's rid that a handler frees was not used.
ReaderSound ==
  /\ rpc \in {"store", "post"} =>
       \A c \in Callers : Owner(c) /\ rid[c] = rmsg.rid => pc[c] = "wait"
  /\ rpc = "post" => ctx[rmsg.rid].resp = Answer(rmsg.req)
  /\ rpc = "clear" => /\ rmsg.rid \in used
                      /\ \A c \in Callers : Owner(c) => rid[c] # rmsg.rid
                      /\ \A m \in sent : m.rid # rmsg.rid
  /\ rpc \in {"broadcast", "giveup", "reconnect"} =>
       sent = {} /\ conn = "down" /\ \A c \in Callers : pc[c] # "send"
  /\ hpc = "clear" => hrid \notin hseen

\* What the owner of a slot finds in it.
SlotSound(c, s) ==
  /\ pc[c] = "send" => s.status = "ALLOCATED" /\ s.sem = 0
  /\ pc[c] = "wait" /\ s.sem = 0 => s.status = "ALLOCATED"
  /\ pc[c] = "wait" /\ s.sem # 0 => /\ s.status \in {"ALLOCATED", "ERROR"}
                                    /\ s.resp \in {Answer(req[c]), Error("CLOSED")}
                                    /\ ~ Pending(rid[c])
  /\ pc[c] \in {"return", "status"} =>
       /\ s.resp \in {Answer(req[c]), Error("CLOSED"), Error("TIMEOUT")}
       /\ s.status = "TIMEDOUT" \/ ~ Pending(rid[c])
  /\ pc[c] \in {"init", "send", "free", "clear"} => ~ Pending(rid[c])

SlotsSound == \A c \in Callers : Owner(c) => SlotSound(c, ctx[rid[c]])

\* While the connection has not been broken, who may give up a slot that is not
\* answered has an answer to come.
Awaits(c, s) ==
  \/ pc[c] = "wait" /\ s.sem = 0
  \/ pc[c] = "expired"
  \/ pc[c] \in {"return", "status"} /\ s.status = "TIMEDOUT"

Connected ==
  /\ conn = "up" /\ rpc \notin {"broadcast", "giveup", "reconnect"}
  /\ \A c \in Callers : Awaits(c, ctx[rid[c]]) => Pending(rid[c])

Sound ==
  /\ Exclusive /\ ReaderSound /\ SlotsSound /\ AnswerMatches
  /\ breaks = 0 => Connected /\ NoSlotLost

IInv == Typed /\ (~ raced => Sound)

-----------------------------------------------------------------------------
Slots == [status : {"AVAILABLE", "ALLOCATED", "TIMEDOUT", "ERROR"}, resp : Responses, sem : Nat]

LEMMA ResponsesType ==
  /\ Zero \in Responses
  /\ \A n \in 1 .. MaxReq : Answer(n) \in Responses
  /\ \A e \in {"TIMEOUT", "CLOSED", "BUSY", "COMMUNICATION"} : Error(e) \in Responses
  /\ Available \in Slots
  BY DEF Responses, Slots, Available

\* The state of the callers and of the slots is a function of them.
LEMMA Functions ==
  ASSUME Typed
  PROVE  /\ pc = [c \in Callers |-> pc[c]] /\ res = [c \in Callers |-> res[c]]
         /\ req = [c \in Callers |-> req[c]] /\ rid \in [Callers -> Rids]
         /\ ctx \in [Rids -> Slots]
  BY DEF Typed, TypeOK, Slots

LEMMA TypedInit == Init => Typed
  <1> USE EmpAssumption DEF Init, Typed, TypeOK
  <1>1. Init => ctx \in [Rids -> Slots]
    BY ResponsesType
  <1>2. Init => 0 \in Rids
    BY DEF Rids
  <1>3. Init => /\ pc \in [Callers -> {"idle", "lookup", "cas", "init", "send", "wait", "expired",
                                        "return", "status", "free", "clear"}]
                /\ \A c \in Callers : pc[c] = "idle"
    OBVIOUS
  <1>4. Init => /\ rid \in [Callers -> Rids] /\ seen \in [Callers -> SUBSET Rids]
                /\ req \in [Callers -> 0 .. MaxReq] /\ res \in [Callers -> Responses \cup {Error("none")}]
    BY <1>2
  <1>5. Init => /\ used \subseteq Rids /\ conn \in {"up", "down", "dead"} /\ sent \subseteq Messages
                /\ rpc = "recv" /\ rmsg \in Messages \cup {NoMsg} /\ rseen \subseteq Rids
                /\ hpc = "none" /\ hrid \in Rids /\ hseen \subseteq Rids
                /\ reqs \in 0 .. MaxReq /\ breaks \in 0 .. MaxBreak /\ events \in 0 .. MaxEvents
    BY <1>2
  <1>6. Init => slot \in 0 .. N
    OBVIOUS
  <1>7. Init => raced \in BOOLEAN
    BY Zenon
  <1> HIDE DEF Init
  <1> QED
    BY <1>1, <1>3, <1>4, <1>5, <1>6, <1>7 DEF Slots

LEMMA TypedNext == Typed /\ [Next]_vars => Typed'
  <1> SUFFICES ASSUME Typed, [Next]_vars PROVE Typed'
    OBVIOUS
  <1> USE EmpAssumption, ResponsesType DEF Typed, TypeOK
  <1>0. ctx \in [Rids -> Slots]
    BY DEF Slots
  <1>1. ASSUME NEW c \in Callers, Call(c) PROVE Typed'
    <2>1. 0 \in Rids
      BY DEF Rids
    <2>2. CASE conn = "dead"
      BY <1>1, <2>2 DEF Call, reader, handler
    <2>3. CASE conn # "dead"
      <3>1. reqs + 1 \in 1 .. MaxReq
        BY <1>1 DEF Call
      <3>2. req' \in [Callers -> 0 .. MaxReq] /\ reqs' \in 0 .. MaxReq
        BY <1>1, <2>3, <3>1 DEF Call
      <3>3. rid' \in [Callers -> Rids]
        BY <1>1, <2>3, <2>1 DEF Call
      <3>4. res' \in [Callers -> Responses \cup {Error("none")}]
        BY <1>1, <2>3 DEF Call
      <3>5. pc' \in [Callers -> {"idle", "lookup", "cas", "init", "send", "wait", "expired",
                                  "return", "status", "free", "clear"}]
        BY <1>1, <2>3, ZenonT(40) DEF Call
      <3>6. \A d \in Callers : pc'[d] # "idle" => req'[d] \in 1 .. MaxReq
        BY <1>1, <2>3, <3>1 DEF Call
      <3> QED
        BY <1>1, <2>3, <3>2, <3>3, <3>4, <3>5, <3>6 DEF Call, reader, handler
    <2> QED
      BY <2>2, <2>3
  <1>2. ASSUME NEW c \in Callers, LookupRead(c) PROVE Typed'
    BY <1>2 DEF LookupRead, reader, handler
  <1>3. ASSUME NEW c \in Callers, LookupSwap(c) PROVE Typed'
    <2>1. used' \subseteq Rids /\ raced' \in BOOLEAN
      BY <1>3 DEF LookupSwap, Swap, Window
    <2>2. rid' \in [Callers -> Rids]
      BY <1>3 DEF LookupSwap
    <2>4. res' \in [Callers -> Responses \cup {Error("none")}]
      BY <1>3 DEF LookupSwap
    <2>5. /\ pc' \in [Callers -> {"idle", "lookup", "cas", "init", "send", "wait", "expired",
                                  "return", "status", "free", "clear"}]
          /\ \A d \in Callers : pc'[d] # "idle" => pc[d] # "idle"
      BY <1>3, Zenon DEF LookupSwap
    <2>3. /\ seen' \in [Callers -> SUBSET Rids]
          /\ UNCHANGED <<ctx, req, reqs, conn, sent, reader, handler, breaks>>
      BY <1>3 DEF LookupSwap
    <2> QED
      BY <2>1, <2>2, <2>3, <2>4, <2>5 DEF reader, handler
  <1>4. ASSUME NEW c \in Callers, InitSlot(c) PROVE Typed'
    <2>1. ctx' \in [Rids -> Slots]
      BY <1>4, <1>0, Zenon DEF InitSlot, Slots
    <2> QED
      BY <1>4, <2>1 DEF InitSlot, Window, Slots, reader, handler
  <1>5. ASSUME NEW c \in Callers, Send(c) PROVE Typed'
    <2>1. sent' \subseteq Messages /\ res' \in [Callers -> Responses \cup {Error("none")}]
      BY <1>5 DEF Send, Messages
    <2>2. pc' \in [Callers -> {"idle", "lookup", "cas", "init", "send", "wait", "expired",
                              "return", "status", "free", "clear"}]
      BY <1>5 DEF Send
    <2>3. events' \in 0 .. MaxEvents
      BY <1>5 DEF Send, SendFails
    <2> QED
      BY <1>5, <2>1, <2>2, <2>3 DEF Send, reader
  <1>6. ASSUME NEW c \in Callers, Wake(c) PROVE Typed'
    <2>1. ctx' \in [Rids -> Slots]
      BY <1>6, <1>0, SMTT(30) DEF Wake, Slots
    <2> QED
      BY <1>6, <2>1 DEF Wake, Slots, reader, handler
  <1>7. ASSUME NEW c \in Callers, Interrupt(c) \/ Expire(c) PROVE Typed'
    <2>1. CASE Interrupt(c)
      BY <2>1, Zenon DEF Interrupt, Window, reader, handler
    <2>2. CASE Expire(c)
      BY <2>2, Zenon DEF Expire, Window, reader, handler
    <2> QED
      BY <1>7, <2>1, <2>2
  <1>8. ASSUME NEW c \in Callers, MarkTimedOut(c) PROVE Typed'
    <2>1. ctx' \in [Rids -> Slots]
      BY <1>8, <1>0, ZenonT(40) DEF MarkTimedOut, Slots
    <2> QED
      BY <1>8, <2>1 DEF MarkTimedOut, Slots, reader, handler
  <1>9. ASSUME NEW c \in Callers, ReadResult(c) \/ Return(c) PROVE Typed'
    <2>1. CASE ReadResult(c)
      BY <1>9, <2>1 DEF ReadResult, reader, handler
    <2>2. CASE Return(c)
      BY <1>9, <2>2 DEF Return, reader, handler
    <2> QED
      BY <1>9, <2>1, <2>2
  <1>10. ASSUME NEW c \in Callers, Free(c) \/ FreeSwap(c) PROVE Typed'
    <2>1. ctx' \in [Rids -> Slots]
      BY <1>10, <1>0, Zenon DEF Free, FreeSwap, Wipe
    <2>2. CASE Free(c)
      BY <2>1, <2>2 DEF Free, Slots, reader, handler
    <2>3. CASE FreeSwap(c)
      BY <2>1, <2>3 DEF FreeSwap, Swap, Window, Slots, reader, handler
    <2> QED
      BY <1>10, <2>2, <2>3
  <1>11. ASSUME NEW m \in sent, ReaderGets(m) PROVE Typed'
    BY <1>11, Zenon DEF ReaderGets, callers, handler
  <1>12. ASSUME ReaderChecks PROVE Typed'
    <2>1. ctx' \in [Rids -> Slots]
      BY <1>12, <1>0 DEF ReaderChecks, Wipe, Messages
    <2> QED
      BY <1>12, <2>1 DEF ReaderChecks, Window, Slots, callers, handler
  <1>13. ASSUME ReaderStores PROVE Typed'
    <2>1. ctx' \in [Rids -> Slots]
      BY <1>13, <1>0, Zenon DEF ReaderStores, Slots, Messages
    <2> QED
      BY <1>13, <2>1 DEF ReaderStores, Slots, callers, handler
  <1>14. ASSUME ReaderPosts PROVE Typed'
    <2>1. ctx' \in [Rids -> Slots]
      BY <1>14, <1>0, SMTT(30) DEF ReaderPosts, Slots, Messages
    <2> QED
      BY <1>14, <2>1 DEF ReaderPosts, Slots, callers, handler
  <1>15. ASSUME ReaderClears PROVE Typed'
    BY <1>15 DEF ReaderClears, Swap, Window, callers, handler
  <1>16. ASSUME Break PROVE Typed'
    BY <1>16 DEF Break, callers, reader, handler
  <1>17. ASSUME Notice PROVE Typed'
    BY <1>17 DEF Notice, Window, callers, handler
  <1>18. ASSUME Broadcast PROVE Typed'
    <2>1. ctx' \in [Rids -> Slots]
      BY <1>18, <1>0 DEF Broadcast, Slots, Rids
    <2> QED
      BY <1>18, <2>1 DEF Broadcast, Window, Slots, callers, handler
  <1>19. ASSUME Closes \/ Reconnect PROVE Typed'
    BY <1>19 DEF Closes, Reconnect, callers, handler
  <1>20. ASSUME NEW r \in Rids, AgentCommand(r) PROVE Typed'
    BY <1>20 DEF AgentCommand, callers, reader
  <1>21. ASSUME HandlerStep PROVE Typed'
    <2>1. ctx' \in [Rids -> Slots]
      BY <1>21, <1>0 DEF HandlerStep, HandlerSends, HandlerClears, Wipe
    <2>2. events' \in 0 .. MaxEvents
      BY <1>21 DEF HandlerStep, HandlerSends, HandlerClears, SendFails
    <2> QED
      BY <1>21, <2>1, <2>2, ZenonT(40) DEF HandlerStep, HandlerSends, HandlerClears, Swap, Window, Slots, callers, reader
  <1>22. ASSUME UNCHANGED vars PROVE Typed'
    BY <1>22 DEF vars, callers, reader, handler
  <1> QED
    BY <1>1, <1>2, <1>3, <1>4, <1>5, <1>6, <1>7, <1>8, <1>9, <1>10, <1>11, <1>12, <1>13, <1>14,
       <1>15, <1>16, <1>17, <1>18, <1>19, <1>20, <1>21, <1>22, Zenon
       DEF Next, CallerStep, ReaderStep

-----------------------------------------------------------------------------
LEMMA SameUnanswered ==
  ASSUME UNCHANGED <<sent, rpc, rmsg>>
  PROVE  Handled' = Handled /\ Unanswered' = Unanswered
  BY DEF Unanswered, Handled

\* What is kept of a caller and of its slot keeps the slot sound, and what a
\* caller awaits.
Kept(c) ==
  /\ pc'[c] = pc[c] /\ rid'[c] = rid[c] /\ req'[c] = req[c] /\ ctx'[rid[c]] = ctx[rid[c]]
  /\ Pending(rid[c])' <=> Pending(rid[c])

LEMMA SlotCarries ==
  ASSUME NEW c \in Callers, Kept(c), SlotSound(c, ctx[rid[c]])
  PROVE  SlotSound(c, ctx[rid[c]])'
  BY DEF Kept, SlotSound

LEMMA SlotsCarry ==
  ASSUME SlotsSound, \A c \in Callers : Owner(c)' => (Owner(c) /\ Kept(c)) \/ SlotSound(c, ctx[rid[c]])'
  PROVE  SlotsSound'
  <1> SUFFICES ASSUME NEW c \in Callers, Owner(c)' PROVE SlotSound(c, ctx[rid[c]])'
    BY DEF SlotsSound
  <1>1. CASE Owner(c) /\ Kept(c)
    BY <1>1, SlotCarries DEF SlotsSound
  <1> QED
    BY <1>1

LEMMA AwaitsCarry ==
  ASSUME Connected, conn' = "up", rpc' \notin {"broadcast", "giveup", "reconnect"},
         \A c \in Callers : \/ Kept(c)
                            \/ Awaits(c, ctx[rid[c]])' => Pending(rid[c])'
  PROVE  Connected'
  <1> SUFFICES ASSUME NEW c \in Callers, Awaits(c, ctx[rid[c]])' PROVE Pending(rid[c])'
    BY DEF Connected
  <1>1. CASE Kept(c)
    <2>1. Awaits(c, ctx[rid[c]])
      BY <1>1 DEF Kept, Awaits
    <2> QED
      BY <1>1, <2>1 DEF Kept, Connected
  <1> QED
    BY <1>1

\* Owners may leave and commands may be answered.
LEMMA ExclusiveCarries ==
  ASSUME Exclusive, Unanswered' \subseteq Unanswered, sent' \cap Handled' = {},
         \A c \in Callers : Owner(c)' => Owner(c) /\ rid'[c] = rid[c] /\ req'[c] = req[c],
         \A c \in Callers : Owner(c)' => rid[c] \in used',
         \A m \in Unanswered' : m.rid \in used'
  PROVE  Exclusive'
  <1>1. \A c \in Callers : Owner(c)' => rid'[c] \in used'
    OBVIOUS
  <1>2. \A c, d \in Callers : Owner(c)' /\ Owner(d)' /\ rid'[c] = rid'[d] => c = d
    BY DEF Exclusive
  <1>3. \A m \in Unanswered', c \in Callers : Owner(c)' /\ rid'[c] = m.rid => req'[c] = m.req
    BY DEF Exclusive
  <1>4. \A m, n \in Unanswered' : m.rid = n.rid => m = n
    BY Zenon DEF Exclusive
  <1> QED
    BY <1>1, <1>2, <1>3, <1>4 DEF Exclusive

\* Where a used rid is found.
Found(r) ==
  \/ \E c \in Callers : Holds(c, r)
  \/ ctx[r].status = "TIMEDOUT" /\ \/ \E m \in sent : m.rid = r
                                   \/ rpc = "check" /\ rmsg.rid = r
  \/ rpc = "clear" /\ rmsg.rid = r

LEMMA FoundCarries ==
  ASSUME NoSlotLost, ~ raced, breaks = 0, \A r \in used' : (r \in used => Found(r)) => Found(r)'
  PROVE  NoSlotLost'
  BY DEF NoSlotLost, Found

\* Steps of a caller c, seen by the others.
OthersKept(c) ==
  /\ \A d \in Callers : d # c => /\ pc'[d] = pc[d] /\ rid'[d] = rid[d]
                                /\ req'[d] = req[d] /\ res'[d] = res[d]
  /\ UNCHANGED <<conn, rpc, rmsg, hpc, hrid, hseen, breaks>>

ResultIsOwn(c) == res[c].kind \in {"zero", "answer"} => res[c] = Answer(req[c])

\* A step of a caller that owns no slot, before and after.
LEMMA BystanderStep ==
  ASSUME Typed, Sound, ~ raced, ~ raced', NEW c \in Callers, OthersKept(c), UNCHANGED <<used, ctx, sent>>,
         ~ Owner(c), ~ Owner(c)', ResultIsOwn(c)'
  PROVE  Sound'
  <1>1. Handled' = Handled /\ Unanswered' = Unanswered
    BY SameUnanswered DEF OthersKept
  <1>2. \A d \in Callers : Owner(d)' => Owner(d) /\ d # c
    BY Zenon DEF Owner, OthersKept
  <1>3. Exclusive'
    <2>1. \A d \in Callers : Owner(d)' => rid[d] \in used'
      BY <1>1, <1>2, Zenon DEF OthersKept, Sound, Exclusive
    <2>2. /\ sent' \cap Handled' = {} /\ Unanswered' \subseteq Unanswered
          /\ \A m \in Unanswered' : m.rid \in used'
      BY <1>1, <1>2, Zenon DEF OthersKept, Sound, Exclusive
    <2> QED
      BY <1>1, <1>2, <2>1, <2>2, ExclusiveCarries, Zenon DEF OthersKept, Sound
  <1>4. ReaderSound'
    BY <1>2, Zenon DEF OthersKept, Sound, ReaderSound, Owner
  <1>8. \A d \in Callers : d # c => Kept(d)
    BY <1>1, Zenon DEF OthersKept, Kept, Pending
  <1>5. SlotsSound'
    BY <1>2, <1>8, SlotsCarry DEF Sound
  <1>6. AnswerMatches'
    BY Zenon DEF OthersKept, Sound, AnswerMatches, ResultIsOwn
  <1>7. breaks' = 0 => Connected'
    <2>1. ~ Awaits(c, ctx[rid[c]])'
      BY Zenon DEF Awaits, Owner
    <2> QED
      BY <1>8, <2>1, AwaitsCarry, Zenon DEF OthersKept, Sound, Connected
  <1>9. breaks' = 0 => NoSlotLost'
    <2>1. \A d \in Callers, r \in used : Holds(d, r) => Holds(d, r)'
      BY Zenon DEF OthersKept, Holds, Owner
    <2>2. \A r \in used : Found(r) => Found(r)'
      BY <2>1, Zenon DEF OthersKept, Found
    <2> QED
      BY <2>2, FoundCarries DEF OthersKept, Sound
  <1> QED
    BY <1>3, <1>4, <1>5, <1>6, <1>7, <1>9, Zenon DEF Sound

\* A step of the owner of a slot, which it keeps.
LEMMA OwnerStep ==
  ASSUME Typed, Sound, ~ raced, ~ raced', NEW c \in Callers, OthersKept(c), UNCHANGED <<used, sent>>,
         Owner(c), Owner(c)', rid'[c] = rid[c], req'[c] = req[c], ResultIsOwn(c)',
         \A r \in Rids : r # rid[c] => ctx'[r] = ctx[r],
         SlotSound(c, ctx[rid[c]])',
         rpc \in {"store", "post"} /\ rmsg.rid = rid[c] =>
           pc'[c] = "wait" /\ ctx'[rid[c]].resp = ctx[rid[c]].resp,
         rpc \in {"broadcast", "giveup", "reconnect"} => pc'[c] # "send",
         breaks = 0 /\ Awaits(c, ctx[rid[c]])' => Pending(rid[c])
  PROVE  Sound'
  <1>1. Handled' = Handled /\ Unanswered' = Unanswered
    BY SameUnanswered, Zenon DEF OthersKept
  <1>2. \A d \in Callers : Owner(d)' <=> Owner(d)
    BY Zenon DEF Owner, OthersKept
  <1>3. \A d \in Callers : rid'[d] = rid[d] /\ req'[d] = req[d] /\ rid[d] \in Rids
    BY Zenon DEF OthersKept, Typed, TypeOK
  <1>4. \A d \in Callers : d # c /\ Owner(d) => rid[d] # rid[c] /\ ctx'[rid[d]] = ctx[rid[d]]
    BY <1>3, Zenon DEF Sound, Exclusive
  <1>5. Exclusive'
    <2>1. \A d \in Callers : Owner(d)' => rid[d] \in used'
      BY <1>1, <1>2, <1>3, Zenon DEF Sound, Exclusive
    <2>2. /\ sent' \cap Handled' = {} /\ Unanswered' \subseteq Unanswered
          /\ \A m \in Unanswered' : m.rid \in used'
      BY <1>1, <1>2, <1>3, Zenon DEF Sound, Exclusive
    <2> QED
      BY <1>1, <1>2, <1>3, <2>1, <2>2, ExclusiveCarries, Zenon DEF Sound
  <1>6. ReaderSound'
    <2>1. rpc = "post" => ctx'[rmsg.rid].resp = Answer(rmsg.req)
      BY Zenon DEF Sound, ReaderSound, Typed, TypeOK, Messages
    <2> QED
      BY <1>2, <1>3, <2>1, ZenonT(40) DEF OthersKept, Sound, ReaderSound
  <1>11. \A d \in Callers : d # c /\ Owner(d) => Kept(d)
    BY <1>1, <1>4, Zenon DEF OthersKept, Kept, Pending
  <1>7. SlotsSound'
    BY <1>2, <1>11, SlotsCarry, Zenon DEF Sound
  <1>8. AnswerMatches'
    BY Zenon DEF OthersKept, Sound, AnswerMatches, ResultIsOwn
  <1>9. breaks' = 0 => Connected'
    <2>1. \A d \in Callers : Awaits(d, ctx[rid[d]])' => Owner(d)
      BY <1>2, Zenon DEF Awaits, Owner
    <2>2. Pending(rid[c]) => Pending(rid[c])'
      BY <1>1, Zenon DEF Pending
    <2> QED
      BY <1>11, <2>1, <2>2, AwaitsCarry, Zenon DEF OthersKept, Sound, Connected
  <1>10. breaks' = 0 => NoSlotLost'
    <2>1. \A d \in Callers, r \in used : Holds(d, r) => Holds(d, r)'
      BY <1>2, <1>3, Zenon DEF Holds, Owner
    <2>2. Holds(c, rid[c])'
      BY Zenon DEF Holds, Owner
    <2>3. \A r \in used : r # rid[c] => ctx'[r] = ctx[r]
      BY Zenon DEF Typed, TypeOK
    <2>4. \A r \in used : Found(r) => Found(r)'
      BY <2>1, <2>2, <2>3 DEF OthersKept, Found
    <2> QED
      BY <2>4, FoundCarries, Zenon DEF OthersKept, Sound
  <1> QED
    BY <1>5, <1>6, <1>7, <1>8, <1>9, <1>10, Zenon DEF Sound

-----------------------------------------------------------------------------
(* The steps of the threads that call emp_send_and_wait_response() keep    *)
(* the invariant, unless they hit a window.                                *)

\* A caller takes a rid: its slot has no owner and nothing to be answered.
LEMMA LookupTakes ==
  ASSUME Typed, Sound, ~ raced, ~ raced', NEW c \in Callers, LookupSwap(c), rid[c] \notin used
  PROVE  Sound'
  <1>1. /\ OthersKept(c) /\ UNCHANGED <<ctx, sent>> /\ used' = used \cup {rid[c]}
        /\ rid'[c] = rid[c] /\ res'[c] = res[c] /\ req'[c] = req[c]
        /\ pc[c] = "cas" /\ pc'[c] = "init"
    BY Functions, Zenon DEF LookupSwap, Swap, Window, OthersKept, reader, handler
  <1>2. Handled' = Handled /\ Unanswered' = Unanswered
    BY <1>1, SameUnanswered DEF OthersKept
  <1>3. \A d \in Callers : (Owner(d)' <=> Owner(d) \/ d = c) /\ rid'[d] = rid[d] /\ req'[d] = req[d]
    BY <1>1 DEF OthersKept, Owner
  <1>4. /\ \A d \in Callers : Owner(d) => rid[d] # rid[c]
        /\ \A m \in Unanswered : m.rid # rid[c]
    BY DEF Sound, Exclusive
  <1>5. Exclusive'
    <2>1. \A d \in Callers : Owner(d)' => rid'[d] \in used'
      BY <1>1, <1>3, Zenon DEF Sound, Exclusive
    <2>2. \A d, e \in Callers : Owner(d)' /\ Owner(e)' /\ rid'[d] = rid'[e] => d = e
      BY <1>3, <1>4, ZenonT(40) DEF Sound, Exclusive
    <2>3. \A m \in Unanswered' : m.rid \in used'
      BY <1>1, <1>2, Zenon DEF Sound, Exclusive
    <2>4. \A m \in Unanswered', d \in Callers : Owner(d)' /\ rid'[d] = m.rid => req'[d] = m.req
      <3> SUFFICES ASSUME NEW m \in Unanswered', NEW d \in Callers, Owner(d)', rid'[d] = m.rid
                   PROVE  req'[d] = m.req
        BY Zenon
      <3>1. m \in Unanswered /\ rid[d] = m.rid /\ d # c
        BY <1>2, <1>3, <1>4, Zenon
      <3>2. Owner(d) /\ req'[d] = req[d]
        BY <1>3, <3>1, Zenon
      <3> QED
        BY <3>1, <3>2, Zenon DEF Sound, Exclusive
    <2>5. /\ \A m, n \in Unanswered' : m.rid = n.rid => m = n
          /\ sent' \cap Handled' = {}
      BY <1>1, <1>2, Zenon DEF Sound, Exclusive
    <2> QED
      BY <2>1, <2>2, <2>3, <2>4, <2>5, Zenon DEF Exclusive
  <1>6. ReaderSound'
    <2>1. rpc \in {"store", "post", "clear"} => rmsg.rid # rid[c]
      BY <1>4 DEF Sound, ReaderSound, Unanswered, Handled
    <2> QED
      BY <1>1, <1>3, <2>1 DEF OthersKept, Sound, ReaderSound
  <1>11. \A d \in Callers : d # c => Kept(d)
    BY <1>1, <1>2 DEF OthersKept, Kept, Pending
  <1>7. SlotsSound'
    <2>1. SlotSound(c, ctx[rid[c]])'
      BY <1>1, <1>2, <1>4, ZenonT(40) DEF SlotSound, Pending
    <2> QED
      BY <1>3, <1>11, <2>1, SlotsCarry DEF Sound
  <1>8. AnswerMatches'
    BY <1>1, SMTT(30) DEF OthersKept, Sound, AnswerMatches
  <1>9. breaks' = 0 => Connected'
    <2>1. ~ Awaits(c, ctx[rid[c]])'
      BY <1>1 DEF Awaits
    <2> QED
      BY <1>1, <1>11, <2>1, AwaitsCarry, Zenon DEF OthersKept, Sound, Connected
  <1>10. breaks' = 0 => NoSlotLost'
    <2>1. \A d \in Callers, r \in used : Holds(d, r) => Holds(d, r)'
      BY <1>1 DEF OthersKept, Holds
    <2>2. Holds(c, rid[c])'
      BY <1>1 DEF Holds
    <2>3. \A r \in used' : (r \in used => Found(r)) => Found(r)'
      BY <1>1, <2>1, <2>2 DEF OthersKept, Found
    <2> QED
      BY <1>1, <2>3, FoundCarries DEF OthersKept, Sound
  <1> QED
    BY <1>5, <1>6, <1>7, <1>8, <1>9, <1>10 DEF Sound

\* A command is sent, or not.
LEMMA SoundSend ==
  ASSUME Typed, Sound, ~ raced, ~ raced', NEW c \in Callers, Send(c)
  PROVE  Sound'
  <1>1. /\ Owner(c) /\ Owner(c)' /\ rid'[c] = rid[c] /\ req'[c] = req[c]
        /\ pc[c] = "send" /\ rid[c] \in Rids
        /\ OthersKept(c) /\ UNCHANGED <<used, ctx>>
    BY Functions, Zenon DEF Send, Owner, OthersKept, reader
  <1>2. /\ ~ Pending(rid[c])
        /\ ctx[rid[c]].status = "ALLOCATED" /\ ctx[rid[c]].sem = 0
    BY <1>1 DEF Sound, SlotsSound, SlotSound
  <1>3. rpc \in {"store", "post"} => rmsg.rid # rid[c]
    BY <1>1 DEF Sound, ReaderSound
  <1>4. CASE UNCHANGED sent /\ (conn # "up" \/ pc'[c] = "free")
    <2>1. pc'[c] \in {"wait", "free"} /\ ResultIsOwn(c)'
      BY <1>4, Functions DEF Send, Sound, AnswerMatches, ResultIsOwn, Error
    <2>2. SlotSound(c, ctx[rid[c]])'
      BY <1>1, <1>2, <1>4, <2>1, SameUnanswered, Zenon DEF OthersKept, SlotSound, Pending
    <2>3. breaks = 0 => ~ Awaits(c, ctx[rid[c]])'
      BY <1>4 DEF Sound, Connected, Awaits
    <2> QED
      BY <1>1, <1>3, <1>4, <2>1, <2>2, <2>3, OwnerStep
  <1>5. CASE conn = "up" /\ pc'[c] = "wait"
    <2> DEFINE m == [rid |-> rid[c], req |-> req[c]]
    <2>1. sent' = sent \cup {m} /\ pc'[c] = "wait" /\ res'[c] = res[c]
      BY <1>5, Functions, Zenon DEF Send
    <2>2. Handled' = Handled /\ Unanswered' = Unanswered \cup {m}
      BY <1>1, <2>1 DEF OthersKept, Unanswered, Handled
    <2>3. m.rid = rid[c] /\ m.req = req[c]
      OBVIOUS
    <2>4. \A n \in Unanswered : n.rid # rid[c]
      BY <1>2 DEF Pending
    <2> HIDE DEF m
    <2>5. \A d \in Callers : (Owner(d)' <=> Owner(d)) /\ rid'[d] = rid[d] /\ req'[d] = req[d]
      BY <1>1 DEF OthersKept, Owner
    <2>6. \A d \in Callers : Owner(d) /\ rid[d] = rid[c] => d = c
      BY <1>1, ZenonT(40) DEF Sound, Exclusive
    <2>7. Exclusive'
      <3>1. sent' \cap Handled' = {}
        BY <2>1, <2>2, <2>3, <2>4, Zenon DEF Sound, Exclusive, Unanswered
      <3> QED
        BY <1>1, <2>2, <2>3, <2>4, <2>5, <2>6, <3>1 DEF Sound, Exclusive
    <2>8. ReaderSound'
      <3>1. rpc \notin {"broadcast", "giveup", "reconnect"}
        BY <1>5, Zenon DEF Sound, ReaderSound
      <3>2. rpc = "clear" => rmsg.rid # rid[c]
        BY <1>1, Zenon DEF Sound, ReaderSound
      <3> QED
        BY <1>1, <1>3, <2>1, <2>3, <2>5, <3>1, <3>2, Zenon DEF OthersKept, Sound, ReaderSound
    <2>9. SlotsSound'
      <3>1. \A d \in Callers : d # c /\ Owner(d) => (Pending(rid[d])' <=> Pending(rid[d]))
        BY <2>2, <2>3, <2>5, <2>6 DEF Pending
      <3>2. SlotSound(c, ctx[rid[c]])'
        BY <1>1, <1>2, <2>1, Zenon DEF SlotSound
      <3>3. \A d \in Callers : d # c /\ Owner(d) => Kept(d)
        BY <1>1, <3>1, Zenon DEF OthersKept, Kept
      <3> QED
        BY <2>5, <3>2, <3>3, SlotsCarry DEF Sound
    <2>10. AnswerMatches'
      BY <1>1, <2>1, Zenon DEF OthersKept, Sound, AnswerMatches
    <2>11. breaks' = 0 => Connected'
      <3>1. \A d \in Callers : Pending(rid[d]) \/ d = c => Pending(rid[d])'
        BY <2>2, <2>3, <2>5, Zenon DEF Pending
      <3>2. \A d \in Callers : d # c => (Awaits(d, ctx[rid[d]])' <=> Awaits(d, ctx[rid[d]]))
        BY <1>1, Zenon DEF OthersKept, Awaits
      <3> QED
        BY <1>1, <3>1, <3>2, Zenon DEF OthersKept, Sound, Connected
    <2>12. breaks' = 0 => NoSlotLost'
      <3>1. \A d \in Callers, r \in used : Holds(d, r) => Holds(d, r)'
        BY <2>5, Zenon DEF Holds, Owner
      <3>2. \A r \in used : Found(r) => Found(r)'
        BY <1>1, <2>1, <3>1 DEF OthersKept, Found
      <3> QED
        BY <1>1, <3>2, FoundCarries, Zenon DEF OthersKept, Sound
    <2> QED
      BY <2>7, <2>8, <2>9, <2>10, <2>11, <2>12 DEF Sound
  <1> QED
    BY <1>4, <1>5, Functions, Zenon DEF Send

\* A caller that timed out leaves its slot to the late answer.
LEMMA ReturnLeaves ==
  ASSUME Typed, Sound, ~ raced, ~ raced', NEW c \in Callers, Return(c), ctx[rid[c]].status = "TIMEDOUT"
  PROVE  Sound'
  <1>1. /\ OthersKept(c) /\ UNCHANGED <<used, ctx, sent>>
        /\ rid'[c] = rid[c] /\ res'[c] = res[c] /\ req'[c] = req[c]
        /\ pc[c] = "status" /\ pc'[c] = "idle"
    BY Functions, Zenon DEF Return, OthersKept, reader, handler
  <1>2. Handled' = Handled /\ Unanswered' = Unanswered
    BY <1>1, SameUnanswered DEF OthersKept
  <1>3. \A d \in Callers : (Owner(d)' <=> Owner(d) /\ d # c) /\ rid'[d] = rid[d] /\ req'[d] = req[d]
    BY <1>1 DEF OthersKept, Owner
  <1>5. Exclusive'
    <2>1. \A d \in Callers : Owner(d)' => rid[d] \in used'
      BY <1>1, <1>2, <1>3 DEF Sound, Exclusive
    <2>2. /\ sent' \cap Handled' = {} /\ Unanswered' \subseteq Unanswered
          /\ \A m \in Unanswered' : m.rid \in used'
      BY <1>1, <1>2, <1>3, Zenon DEF Sound, Exclusive
    <2> QED
      BY <1>1, <1>2, <1>3, <2>1, <2>2, ExclusiveCarries, Zenon DEF Sound
  <1>6. ReaderSound'
    BY <1>1, <1>3, ZenonT(40) DEF OthersKept, Sound, ReaderSound
  <1>4. \A d \in Callers : d # c => Kept(d)
    BY <1>1, <1>2 DEF OthersKept, Kept, Pending
  <1>7. SlotsSound'
    BY <1>3, <1>4, SlotsCarry DEF Sound
  <1>8. AnswerMatches'
    BY <1>1, Zenon DEF OthersKept, Sound, AnswerMatches
  <1>9. breaks' = 0 => Connected'
    <2>1. ~ Awaits(c, ctx[rid[c]])'
      BY <1>1 DEF Awaits
    <2> QED
      BY <1>1, <1>4, <2>1, AwaitsCarry, Zenon DEF OthersKept, Sound, Connected
  <1>10. breaks' = 0 => NoSlotLost'
    <2>1. breaks = 0 => \E m \in Unanswered : m.rid = rid[c]
      BY <1>1 DEF Sound, Connected, Awaits, Pending
    <2>2. rpc \in {"store", "post"} => rmsg.rid # rid[c]
      BY <1>1 DEF Sound, ReaderSound, Owner
    <2>3. breaks = 0 => (\E m \in sent : m.rid = rid[c]) \/ (rpc = "check" /\ rmsg.rid = rid[c])
      BY <2>1, <2>2, Zenon DEF Unanswered, Handled
    <2>4. \A d \in Callers, r \in used : d # c /\ Holds(d, r) => Holds(d, r)'
      BY <1>1 DEF OthersKept, Holds
    <2>5. \A r \in used : Holds(c, r) => r = rid[c]
      BY DEF Holds
    <2>6. ASSUME breaks = 0 PROVE \A r \in used : Found(r) => Found(r)'
      BY <1>1, <2>3, <2>4, <2>5, <2>6, Zenon DEF OthersKept, Found
    <2> QED
      BY <1>1, <2>6, FoundCarries, Zenon DEF OthersKept, Sound
  <1> QED
    BY <1>5, <1>6, <1>7, <1>8, <1>9, <1>10 DEF Sound

\* The bit of a rid is cleared by its owner.
LEMMA FreeSwapFrees ==
  ASSUME Typed, Sound, ~ raced, ~ raced', NEW c \in Callers, FreeSwap(c)
  PROVE  Sound'
  <1>1. /\ OthersKept(c) /\ UNCHANGED <<ctx, sent>> /\ used' = used \ {rid[c]}
        /\ rid'[c] = rid[c] /\ res'[c] = res[c] /\ req'[c] = req[c]
        /\ pc[c] = "clear" /\ pc'[c] = "idle"
    BY Functions, ZenonT(40) DEF FreeSwap, Swap, Window, OthersKept, reader, handler
  <1>2. Handled' = Handled /\ Unanswered' = Unanswered
    BY <1>1, SameUnanswered, ZenonT(40) DEF OthersKept
  <1>3. \A d \in Callers : (Owner(d)' <=> Owner(d) /\ d # c) /\ rid'[d] = rid[d] /\ req'[d] = req[d]
    BY <1>1, Zenon DEF OthersKept, Owner
  <1>4. /\ \A d \in Callers : Owner(d) /\ d # c => rid[d] # rid[c]
        /\ \A m \in Unanswered : m.rid # rid[c]
    BY <1>1, Zenon DEF Sound, Exclusive, SlotsSound, SlotSound, Pending, Owner
  <1>5. Exclusive'
    <2>1. \A d \in Callers : Owner(d)' => rid[d] \in used'
      BY <1>1, <1>2, <1>3, <1>4, Zenon DEF Sound, Exclusive
    <2>2. /\ sent' \cap Handled' = {} /\ Unanswered' \subseteq Unanswered
          /\ \A m \in Unanswered' : m.rid \in used'
      BY <1>1, <1>2, <1>3, <1>4, Zenon DEF Sound, Exclusive
    <2> QED
      BY <1>1, <1>2, <1>3, <1>4, <2>1, <2>2, ExclusiveCarries, Zenon DEF Sound
  <1>6. ReaderSound'
    <2>1. rpc = "clear" => rmsg.rid # rid[c]
      BY <1>1, Zenon DEF Sound, ReaderSound, Owner
    <2> QED
      BY <1>1, <1>3, <2>1, ZenonT(40) DEF OthersKept, Sound, ReaderSound
  <1>11. \A d \in Callers : d # c => Kept(d)
    BY <1>1, <1>2, Zenon DEF OthersKept, Kept, Pending
  <1>7. SlotsSound'
    BY <1>3, <1>11, SlotsCarry, Zenon DEF Sound
  <1>8. AnswerMatches'
    BY <1>1, Zenon DEF OthersKept, Sound, AnswerMatches
  <1>9. breaks' = 0 => Connected'
    <2>1. ~ Awaits(c, ctx[rid[c]])'
      BY <1>1, Zenon DEF Awaits
    <2> QED
      BY <1>1, <1>11, <2>1, AwaitsCarry, Zenon DEF OthersKept, Sound, Connected
  <1>10. breaks' = 0 => NoSlotLost'
    <2>1. \A d \in Callers, r \in used' : Holds(d, r) => Holds(d, r)'
      BY <1>1, <1>3, Zenon DEF OthersKept, Holds
    <2>2. \A r \in used' : r \in used /\ Found(r) => Found(r)'
      BY <1>1, <2>1, Zenon DEF OthersKept, Found
    <2> QED
      BY <1>1, <2>2, FoundCarries, Zenon DEF OthersKept, Sound
  <1> QED
    BY <1>5, <1>6, <1>7, <1>8, <1>9, <1>10 DEF Sound

-----------------------------------------------------------------------------
\* The steps of a caller.
LEMMA SoundCaller ==
  ASSUME Typed, Sound, ~ raced, ~ raced', NEW c \in Callers, Call(c) \/ CallerStep(c)
  PROVE  Sound'
  <1>0. ResultIsOwn(c) /\ rid[c] \in Rids
    BY DEF ResultIsOwn, Sound, AnswerMatches, Typed, TypeOK
  <1>1. CASE Call(c)
    <2>1. OthersKept(c) /\ UNCHANGED <<used, ctx, sent>>
      BY <1>1, Functions, Zenon DEF Call, OthersKept, reader, handler
    <2>2. ~ Owner(c) /\ ~ Owner(c)' /\ ResultIsOwn(c)'
      BY <1>1, Functions DEF Call, Owner, ResultIsOwn, Error
    <2> QED
      BY <2>1, <2>2, BystanderStep, Zenon
  <1>2. CASE LookupRead(c)
    <2>1. OthersKept(c) /\ UNCHANGED <<used, ctx, sent>>
      BY <1>2, Functions DEF LookupRead, OthersKept, reader, handler
    <2>2. ~ Owner(c) /\ ~ Owner(c)' /\ ResultIsOwn(c)'
      BY <1>0, <1>2, Functions, Zenon DEF LookupRead, Owner, ResultIsOwn
    <2> QED
      BY <2>1, <2>2, BystanderStep
  <1>3. CASE LookupSwap(c) /\ rid[c] \in used
    <2>1. OthersKept(c) /\ UNCHANGED <<used, ctx, sent>>
      BY <1>3, Functions, ZenonT(40) DEF LookupSwap, Swap, Window, OthersKept, reader, handler
    <2>2. ~ Owner(c) /\ ~ Owner(c)' /\ ResultIsOwn(c)'
      BY <1>0, <1>3, Functions DEF LookupSwap, Owner, ResultIsOwn, Error
    <2> QED
      BY <2>1, <2>2, BystanderStep
  <1>4. CASE LookupSwap(c) /\ rid[c] \notin used
    BY <1>4, LookupTakes, ZenonT(40)
  <1>5. CASE InitSlot(c)
    <2>1. OthersKept(c) /\ UNCHANGED <<used, sent>>
      BY <1>5, Functions DEF InitSlot, OthersKept, reader, handler
    <2>2. /\ Owner(c) /\ Owner(c)' /\ rid'[c] = rid[c] /\ req'[c] = req[c] /\ ResultIsOwn(c)'
          /\ pc[c] = "init" /\ pc'[c] = "send"
      BY <1>0, <1>5, Functions DEF InitSlot, Owner, ResultIsOwn
    <2>3. /\ \A r \in Rids : r # rid[c] => ctx'[r] = ctx[r]
          /\ ctx'[rid[c]].status = "ALLOCATED" /\ ctx'[rid[c]].sem = 0
      BY <1>0, <1>5, Functions DEF InitSlot
    <2>4. SlotSound(c, ctx[rid[c]])'
      BY <1>5, <2>2, <2>3, SameUnanswered, ZenonT(40) DEF InitSlot, reader, Sound, SlotsSound, SlotSound, Pending
    <2>5. rpc \in {"store", "post"} => rmsg.rid # rid[c]
      BY <2>2, Zenon DEF Sound, ReaderSound
    <2>6. rpc \notin {"broadcast", "giveup", "reconnect"}
      BY <1>5 DEF InitSlot, Window, Sound, ReaderSound
    <2>7. ~ Awaits(c, ctx[rid[c]])'
      BY <2>2 DEF Awaits
    <2> QED
      BY <2>1, <2>2, <2>3, <2>4, <2>5, <2>6, <2>7, OwnerStep
  <1>6. CASE Send(c)
    BY <1>6, SoundSend, SMTT(30)
  <1>7. CASE Wake(c)
    <2>1. OthersKept(c) /\ UNCHANGED <<used, sent>>
      BY <1>7, Functions DEF Wake, OthersKept, reader, handler
    <2>2. /\ Owner(c) /\ Owner(c)' /\ rid'[c] = rid[c] /\ req'[c] = req[c] /\ ResultIsOwn(c)'
          /\ pc[c] = "wait" /\ pc'[c] = "return"
      BY <1>0, <1>7, Functions DEF Wake, Owner, ResultIsOwn
    <2>3. /\ \A r \in Rids : r # rid[c] => ctx'[r] = ctx[r]
          /\ ctx'[rid[c]].status = ctx[rid[c]].status /\ ctx'[rid[c]].resp = ctx[rid[c]].resp
      BY <1>0, <1>7, Functions, SMTT(30) DEF Wake
    <2>4. /\ ctx[rid[c]].status \in {"ALLOCATED", "ERROR"} /\ ~ Pending(rid[c])
          /\ ctx[rid[c]].resp \in {Answer(req[c]), Error("CLOSED")}
      <3>1. ctx[rid[c]].sem # 0
        BY <1>7, <1>0, Functions DEF Wake
      <3> QED
        BY <2>2, <3>1 DEF Sound, SlotsSound, SlotSound
    <2>5. SlotSound(c, ctx[rid[c]])'
      BY <1>7, <2>2, <2>3, <2>4, SameUnanswered, Zenon DEF Wake, reader, SlotSound, Pending
    <2>6. rpc \in {"store", "post"} => rmsg.rid # rid[c]
      BY <2>4, Zenon DEF Pending, Unanswered, Handled
    <2>7. ~ Awaits(c, ctx[rid[c]])'
      BY <2>2, <2>3, <2>4, Zenon DEF Awaits
    <2> QED
      BY <2>1, <2>2, <2>3, <2>5, <2>6, <2>7, OwnerStep, Zenon
  <1>8. CASE Expire(c)
    <2>1. OthersKept(c) /\ UNCHANGED <<used, sent, ctx>>
      BY <1>8, Functions, Zenon DEF Expire, OthersKept, reader, handler
    <2>2. /\ Owner(c) /\ Owner(c)' /\ rid'[c] = rid[c] /\ req'[c] = req[c] /\ ResultIsOwn(c)'
          /\ pc[c] = "wait" /\ ctx[rid[c]].sem = 0 /\ pc'[c] = "expired"
      BY <1>0, <1>8, Functions, Zenon DEF Expire, Owner, ResultIsOwn
    <2>3. rpc \in {"store", "post"} => rmsg.rid # rid[c]
      BY <1>8, Zenon DEF Expire, Window
    <2>4. SlotSound(c, ctx[rid[c]])'
      BY <2>2, Zenon DEF SlotSound
    <2>5. breaks = 0 => Pending(rid[c])
      BY <2>2, ZenonT(40) DEF Sound, Connected, Awaits
    <2> QED
      BY <2>1, <2>2, <2>3, <2>4, <2>5, OwnerStep, Zenon
  <1>9. CASE MarkTimedOut(c)
    <2>1. OthersKept(c) /\ UNCHANGED <<used, sent>>
      BY <1>9, Functions DEF MarkTimedOut, OthersKept, reader, handler
    <2>2. /\ Owner(c) /\ Owner(c)' /\ rid'[c] = rid[c] /\ req'[c] = req[c] /\ ResultIsOwn(c)'
          /\ pc[c] = "expired" /\ pc'[c] = "return"
      BY <1>0, <1>9, Functions DEF MarkTimedOut, Owner, ResultIsOwn
    <2>3. /\ \A r \in Rids : r # rid[c] => ctx'[r] = ctx[r]
          /\ ctx'[rid[c]].status = "TIMEDOUT" /\ ctx'[rid[c]].resp = Error("TIMEOUT")
      BY <1>0, <1>9, Functions DEF MarkTimedOut
    <2>4. SlotSound(c, ctx[rid[c]])'
      BY <2>2, <2>3, Zenon DEF SlotSound
    <2>5. rpc \in {"store", "post"} => rmsg.rid # rid[c]
      BY <2>2, Zenon DEF Sound, ReaderSound
    <2>6. breaks = 0 => Pending(rid[c])
      BY <2>2, Zenon DEF Sound, Connected, Awaits
    <2> QED
      BY <2>1, <2>2, <2>3, <2>4, <2>5, <2>6, OwnerStep, Zenon
  <1>10. CASE ReadResult(c)
    <2>1. OthersKept(c) /\ UNCHANGED <<used, sent, ctx>>
      BY <1>10, Functions, Zenon DEF ReadResult, OthersKept, reader, handler
    <2>2. /\ Owner(c) /\ Owner(c)' /\ rid'[c] = rid[c] /\ req'[c] = req[c]
          /\ pc[c] = "return" /\ pc'[c] = "status" /\ res'[c] = ctx[rid[c]].resp
      BY <1>10, Functions, Zenon DEF ReadResult, Owner
    <2>3. SlotSound(c, ctx[rid[c]])
      BY <2>2, Zenon DEF Sound, SlotsSound
    <2>4. ResultIsOwn(c)'
      <3>1. res'[c] \in {Answer(req'[c]), Error("CLOSED"), Error("TIMEOUT")}
        BY <2>2, <2>3, Zenon DEF SlotSound
      <3>2. \A e \in {"CLOSED", "TIMEOUT"} : Error(e).kind \notin {"zero", "answer"}
        BY DEF Error
      <3> QED
        BY <3>1, <3>2, Zenon DEF ResultIsOwn
    <2>5. SlotSound(c, ctx[rid[c]])'
      BY <1>10, <2>1, <2>2, <2>3, SameUnanswered, Zenon DEF ReadResult, reader, SlotSound, Pending
    <2>6. rpc \in {"store", "post"} => rmsg.rid # rid[c]
      BY <2>2, Zenon DEF Sound, ReaderSound
    <2>7. breaks = 0 /\ Awaits(c, ctx[rid[c]])' => Pending(rid[c])
      BY <2>1, <2>2, Zenon DEF Sound, Connected, Awaits
    <2> QED
      BY <2>1, <2>2, <2>4, <2>5, <2>6, <2>7, OwnerStep, Zenon
  <1>11. CASE Return(c) /\ ctx[rid[c]].status # "TIMEDOUT"
    <2>1. OthersKept(c) /\ UNCHANGED <<used, sent, ctx>>
      BY <1>11, Functions, Zenon DEF Return, OthersKept, reader, handler
    <2>2. /\ Owner(c) /\ Owner(c)' /\ rid'[c] = rid[c] /\ req'[c] = req[c] /\ ResultIsOwn(c)'
          /\ pc[c] = "status" /\ pc'[c] = "free"
      BY <1>0, <1>11, Functions, Zenon DEF Return, Owner, ResultIsOwn
    <2>3. ~ Pending(rid[c])
      BY <1>11, <2>2, Zenon DEF Sound, SlotsSound, SlotSound
    <2>4. SlotSound(c, ctx[rid[c]])'
      BY <1>11, <2>2, <2>3, SameUnanswered, Zenon DEF Return, reader, SlotSound, Pending
    <2>5. rpc \in {"store", "post"} => rmsg.rid # rid[c]
      BY <2>2, Zenon DEF Sound, ReaderSound
    <2>6. ~ Awaits(c, ctx[rid[c]])'
      BY <2>2, Zenon DEF Awaits
    <2> QED
      BY <2>1, <2>2, <2>4, <2>5, <2>6, OwnerStep, Zenon
  <1>12. CASE Return(c) /\ ctx[rid[c]].status = "TIMEDOUT"
    BY <1>12, ReturnLeaves, Zenon
  <1>13. CASE Free(c)
    <2>1. OthersKept(c) /\ UNCHANGED <<used, sent>>
      BY <1>13, Functions, Zenon DEF Free, OthersKept, reader, handler
    <2>2. /\ Owner(c) /\ Owner(c)' /\ rid'[c] = rid[c] /\ req'[c] = req[c] /\ ResultIsOwn(c)'
          /\ pc[c] = "free" /\ pc'[c] = "clear"
      BY <1>0, <1>13, Functions DEF Free, Owner, ResultIsOwn
    <2>3. \A r \in Rids : r # rid[c] => ctx'[r] = ctx[r]
      BY <1>13, Functions, Zenon DEF Free, Wipe
    <2>4. ~ Pending(rid[c])
      BY <2>2, Zenon DEF Sound, SlotsSound, SlotSound
    <2>5. SlotSound(c, ctx[rid[c]])'
      BY <1>13, <2>2, <2>4, SameUnanswered, Zenon DEF Free, reader, SlotSound, Pending
    <2>6. rpc \in {"store", "post"} => rmsg.rid # rid[c]
      BY <2>2, ZenonT(40) DEF Sound, ReaderSound
    <2>7. ~ Awaits(c, ctx[rid[c]])'
      BY <2>2, Zenon DEF Awaits
    <2> QED
      BY <2>1, <2>2, <2>3, <2>5, <2>6, <2>7, OwnerStep, Zenon
  <1>14. CASE FreeSwap(c)
    BY <1>14, FreeSwapFrees
  <1> QED
    BY <1>1, <1>2, <1>3, <1>4, <1>5, <1>6, <1>7, <1>8, <1>9, <1>10, <1>11, <1>12, <1>13, <1>14, Zenon
       DEF CallerStep

-----------------------------------------------------------------------------
(* The steps of the reader thread, of the handler and of the agent.        *)

\* Steps of the reader, the handler and the agent: the callers stay where they
\* are, and so do the rids they own.
LEMMA SameOwners ==
  ASSUME UNCHANGED callers
  PROVE  /\ \A c \in Callers : Owner(c)' <=> Owner(c)
         /\ \A c \in Callers, r \in Rids : Holds(c, r)' <=> Holds(c, r)
         /\ UNCHANGED <<pc, rid, req, res>>
  BY DEF callers, Owner, Holds

LEMMA SoundGets ==
  ASSUME Typed, Sound, ~ raced, NEW m \in sent, ReaderGets(m) PROVE Sound'
  <1>1. /\ UNCHANGED <<used, ctx, conn, hpc, hrid, hseen, breaks, raced, pc, rid, req, res>>
        /\ sent' = sent \ {m} /\ rmsg' = m /\ rpc' = "check" /\ rpc = "recv"
        /\ \A c \in Callers : Owner(c)' <=> Owner(c)
    BY SameOwners DEF ReaderGets, handler
  <1>2. Handled' = {m} /\ Unanswered' = Unanswered
    BY <1>1, SMTT(30) DEF Handled, Unanswered
  <1>3. Exclusive'
    <2>1. \A c \in Callers : Owner(c)' => rid[c] \in used'
      BY <1>1, <1>2, Zenon DEF Sound, Exclusive
    <2>2. /\ sent' \cap Handled' = {} /\ Unanswered' \subseteq Unanswered
          /\ \A x \in Unanswered' : x.rid \in used'
      BY <1>1, <1>2, Zenon DEF Sound, Exclusive
    <2> QED
      BY <1>1, <1>2, <2>1, <2>2, ExclusiveCarries, ZenonT(40) DEF Sound
  <1>4. ReaderSound'
    BY <1>1, Zenon DEF Sound, ReaderSound
  <1>9. \A c \in Callers : Kept(c)
    BY <1>1, <1>2, Zenon DEF Kept, Pending
  <1>5. SlotsSound'
    BY <1>1, <1>9, SlotsCarry, Zenon DEF Sound
  <1>6. AnswerMatches'
    BY <1>1, ZenonT(40) DEF Sound, AnswerMatches
  <1>7. breaks' = 0 => Connected'
    BY <1>1, <1>9, AwaitsCarry DEF Sound, Connected
  <1>8. breaks' = 0 => NoSlotLost'
    <2>1. \A c \in Callers, r \in used : Holds(c, r) => Holds(c, r)'
      BY <1>1, Zenon DEF Holds
    <2>2. \A r \in used : Found(r) => Found(r)'
      BY <1>1, <2>1 DEF Found
    <2> QED
      BY <1>1, <2>2, FoundCarries DEF Sound
  <1> QED
    BY <1>3, <1>4, <1>5, <1>6, <1>7, <1>8 DEF Sound

LEMMA SoundChecks ==
  ASSUME Typed, Sound, ~ raced, ~ raced', ReaderChecks PROVE Sound'
  <1> DEFINE r == rmsg.rid
  <1>1. /\ UNCHANGED <<used, conn, hpc, hrid, hseen, breaks, pc, rid, req, res, sent, rmsg>>
        /\ rpc = "check" /\ r \in Rids /\ rmsg \in Messages
        /\ \A c \in Callers : Owner(c)' <=> Owner(c)
    BY SameOwners, Zenon DEF ReaderChecks, handler, Typed, TypeOK, Messages
  <1>2. Handled = {rmsg} /\ rmsg \in Unanswered /\ rmsg \notin sent
    BY <1>1 DEF Handled, Unanswered, Sound, Exclusive
  <1>3. \A c \in Callers : Owner(c) /\ rid[c] = r => pc[c] = "wait"
    <2> SUFFICES ASSUME NEW c \in Callers, Owner(c), rid[c] = r PROVE pc[c] = "wait"
      OBVIOUS
    <2>1. pc[c] \notin {"expired", "return", "status"}
      BY <1>1, ZenonT(40) DEF ReaderChecks, Window, Expiring
    <2>2. pc[c] \notin {"init", "send", "free", "clear"}
      BY <1>2 DEF Sound, SlotsSound, SlotSound, Pending
    <2> QED
      BY <2>1, <2>2 DEF Owner
  <1>4. \A c \in Callers : Owner(c) /\ rid[c] = r => ctx[r].status = "ALLOCATED" /\ ctx[r].sem = 0
    <2> SUFFICES ASSUME NEW c \in Callers, Owner(c), rid[c] = r
                 PROVE  ctx[r].status = "ALLOCATED" /\ ctx[r].sem = 0
      OBVIOUS
    <2>1. pc[c] = "wait" /\ SlotSound(c, ctx[rid[c]])
      BY <1>3 DEF Sound, SlotsSound
    <2> QED
      BY <1>2, <2>1 DEF SlotSound, Pending
  <1>5. CASE ctx[r].status = "ALLOCATED"
    <2>1. rpc' = "store" /\ ctx' = ctx
      BY <1>5 DEF ReaderChecks
    <2>2. Handled' = Handled /\ Unanswered' = Unanswered
      BY <1>1, <2>1, Zenon DEF Handled, Unanswered
    <2>3. Exclusive'
      <3>1. \A c \in Callers : Owner(c)' => rid[c] \in used'
        BY <1>1, <2>2, Zenon DEF Sound, Exclusive
      <3>2. /\ sent' \cap Handled' = {} /\ Unanswered' \subseteq Unanswered
            /\ \A m \in Unanswered' : m.rid \in used'
        BY <1>1, <2>2, Zenon DEF Sound, Exclusive
      <3> QED
        BY <1>1, <2>2, <3>1, <3>2, ExclusiveCarries, Zenon DEF Sound
    <2>4. ReaderSound'
      BY <1>1, <1>3, <2>1, Zenon DEF Sound, ReaderSound
    <2>9. \A c \in Callers : Kept(c)
      BY <1>1, <2>1, <2>2, Zenon DEF Kept, Pending
    <2>5. SlotsSound'
      BY <1>1, <2>9, SlotsCarry, Zenon DEF Sound
    <2>6. AnswerMatches'
      BY <1>1 DEF Sound, AnswerMatches
    <2>7. breaks' = 0 => Connected'
      BY <1>1, <2>1, <2>9, AwaitsCarry, Zenon DEF Sound, Connected
    <2>8. breaks' = 0 => NoSlotLost'
      <3>1. \A c \in Callers, s \in used : Holds(c, s) => Holds(c, s)'
        BY <1>1 DEF Holds
      <3>2. \A s \in used : Found(s) => Found(s)'
        BY <1>1, <1>5, <2>1, <3>1, Zenon DEF Found
      <3> QED
        BY <1>1, <3>2, FoundCarries, Zenon DEF Sound
    <2> QED
      BY <2>3, <2>4, <2>5, <2>6, <2>7, <2>8 DEF Sound
  <1>6. CASE ctx[r].status # "ALLOCATED"
    <2>1. /\ \/ rpc' = "clear" /\ ctx[r].status = "TIMEDOUT"
             \/ rpc' = "recv" /\ ctx[r].status # "TIMEDOUT"
          /\ \A s \in Rids : s # r => ctx'[s] = ctx[s]
      BY <1>1, <1>6, Zenon DEF ReaderChecks, Wipe, Typed, TypeOK
    <2>2. Handled' = {} /\ Unanswered' = sent
      BY <1>1, <2>1, Zenon DEF Handled, Unanswered
    <2>3. \A c \in Callers : Owner(c) => rid[c] # r /\ ctx'[rid[c]] = ctx[rid[c]]
      BY <1>4, <1>6, <2>1, Zenon DEF Typed, TypeOK
    <2>4. \A n \in sent : n.rid # r /\ n \in Unanswered
      BY <1>2, Zenon DEF Sound, Exclusive, Unanswered
    <2>5. Exclusive'
      <3>1. \A c \in Callers : Owner(c)' => rid[c] \in used'
        BY <1>1, <2>2, <2>4 DEF Sound, Exclusive
      <3>2. /\ sent' \cap Handled' = {} /\ Unanswered' \subseteq Unanswered
            /\ \A m \in Unanswered' : m.rid \in used'
        BY <1>1, <2>2, <2>4, Zenon DEF Sound, Exclusive
      <3> QED
        BY <1>1, <2>2, <2>4, <3>1, <3>2, ExclusiveCarries, Zenon DEF Sound
    <2>6. ReaderSound'
      BY <1>1, <1>2, <2>1, <2>3, <2>4, Zenon DEF Sound, ReaderSound, Exclusive
    <2>7. \A c \in Callers : Owner(c) => (Pending(rid[c])' <=> Pending(rid[c]))
      BY <1>1, <1>2, <2>2, <2>3, <2>4, Zenon DEF Pending, Unanswered
    <2>12. \A c \in Callers : Owner(c) => Kept(c)
      BY <1>1, <2>3, <2>7 DEF Kept
    <2>8. SlotsSound'
      BY <1>1, <2>12, SlotsCarry, Zenon DEF Sound
    <2>9. AnswerMatches'
      BY <1>1 DEF Sound, AnswerMatches
    <2>10. breaks' = 0 => Connected'
      <3>1. \A c \in Callers : Awaits(c, ctx[rid[c]])' => Owner(c)
        BY <1>1 DEF Awaits, Owner
      <3> QED
        BY <1>1, <2>1, <2>12, <3>1, AwaitsCarry, Zenon DEF Sound, Connected
    <2>11. breaks' = 0 => NoSlotLost'
      <3>1. \A c \in Callers, s \in used : Holds(c, s) => Holds(c, s)'
        BY <1>1 DEF Holds
      <3>2. \A s \in used : s # r => ctx'[s] = ctx[s]
        BY <2>1, Zenon DEF Typed, TypeOK
      <3>3. \A s \in used : s # r /\ Found(s) => Found(s)'
        BY <1>1, <3>1, <3>2 DEF Found
      <3>4. r \in used /\ Found(r) => Found(r)'
        <4>1. CASE rpc' = "clear"
          BY <1>1, <4>1, Zenon DEF Found
        <4>2. CASE ctx[r].status # "TIMEDOUT"
          BY <1>1, <3>1, <4>2 DEF Found
        <4> QED
          BY <2>1, <4>1, <4>2, Zenon
      <3> QED
        BY <1>1, <3>3, <3>4, FoundCarries, Zenon DEF Sound
    <2> QED
      BY <2>5, <2>6, <2>8, <2>9, <2>10, <2>11 DEF Sound
  <1> QED
    BY <1>5, <1>6, Zenon

LEMMA SoundStores ==
  ASSUME Typed, Sound, ~ raced, ReaderStores PROVE Sound'
  <1> DEFINE r == rmsg.rid
  <1>1. /\ UNCHANGED <<used, conn, hpc, hrid, hseen, breaks, raced, pc, rid, req, res, sent, rmsg>>
        /\ rpc = "store" /\ rpc' = "post" /\ r \in Rids
        /\ \A c \in Callers : Owner(c)' <=> Owner(c)
    BY SameOwners DEF ReaderStores, handler, Typed, Messages
  <1>2. /\ \A s \in Rids : ctx'[s].status = ctx[s].status /\ ctx'[s].sem = ctx[s].sem
        /\ \A s \in Rids : s # r => ctx'[s] = ctx[s]
        /\ ctx'[r].resp = Answer(rmsg.req)
    BY <1>1 DEF ReaderStores, Typed, TypeOK
  <1>3. Handled' = Handled /\ Unanswered' = Unanswered /\ rmsg \in Unanswered
    BY <1>1 DEF Handled, Unanswered
  <1>4. Exclusive'
    <2>1. \A c \in Callers : Owner(c)' => rid[c] \in used'
      BY <1>1, <1>3, Zenon DEF Sound, Exclusive
    <2>2. /\ sent' \cap Handled' = {} /\ Unanswered' \subseteq Unanswered
          /\ \A m \in Unanswered' : m.rid \in used'
      BY <1>1, <1>3, ZenonT(40) DEF Sound, Exclusive
    <2> QED
      BY <1>1, <1>3, <2>1, <2>2, ExclusiveCarries, Zenon DEF Sound
  <1>5. ReaderSound'
    BY <1>1, <1>2 DEF Sound, ReaderSound
  <1>6. SlotsSound'
    <2> SUFFICES ASSUME NEW c \in Callers, Owner(c) PROVE SlotSound(c, ctx[rid[c]])'
      BY <1>1 DEF SlotsSound
    <2>1. rid[c] \in Rids /\ SlotSound(c, ctx[rid[c]])
      BY Zenon DEF Sound, SlotsSound, Typed, TypeOK
    <2>2. CASE rid[c] # r
      BY <1>1, <1>2, <1>3, <2>1, <2>2, Zenon DEF SlotSound, Pending
    <2>3. CASE rid[c] = r
      <3>1. pc[c] = "wait" /\ Pending(rid[c])
        BY <1>1, <1>3, <2>3, Zenon DEF Sound, ReaderSound, Pending
      <3> QED
        BY <1>1, <1>2, <2>1, <3>1, Zenon DEF SlotSound
    <2> QED
      BY <2>2, <2>3, Zenon
  <1>7. AnswerMatches'
    BY <1>1, Zenon DEF Sound, AnswerMatches
  <1>8. breaks' = 0 => Connected'
    <2>1. \A c \in Callers : Awaits(c, ctx[rid[c]])' => Awaits(c, ctx[rid[c]])
      BY <1>1, <1>2, ZenonT(40) DEF Awaits, Typed, TypeOK
    <2>2. \A c \in Callers : Pending(rid[c])' <=> Pending(rid[c])
      BY <1>1, <1>3 DEF Pending
    <2> QED
      BY <1>1, <2>1, <2>2, Zenon DEF Sound, Connected
  <1>9. breaks' = 0 => NoSlotLost'
    <2>1. \A c \in Callers, s \in used : Holds(c, s) => Holds(c, s)'
      BY <1>1, Zenon DEF Holds
    <2>2. \A s \in used : ctx'[s].status = ctx[s].status
      BY <1>2, Zenon DEF Typed, TypeOK
    <2>3. \A s \in used : Found(s) => Found(s)'
      BY <1>1, <2>1, <2>2 DEF Found
    <2> QED
      BY <1>1, <2>3, FoundCarries DEF Sound
  <1> QED
    BY <1>4, <1>5, <1>6, <1>7, <1>8, <1>9 DEF Sound

LEMMA SoundPosts ==
  ASSUME Typed, Sound, ~ raced, ReaderPosts PROVE Sound'
  <1> DEFINE r == rmsg.rid
  <1>1. /\ UNCHANGED <<used, conn, hpc, hrid, hseen, breaks, raced, pc, rid, req, res, sent, rmsg>>
        /\ rpc = "post" /\ rpc' = "recv" /\ r \in Rids
        /\ \A c \in Callers : Owner(c)' <=> Owner(c)
    BY SameOwners DEF ReaderPosts, handler, Typed, Messages
  <1>2. /\ \A s \in Rids : ctx'[s].status = ctx[s].status /\ ctx'[s].resp = ctx[s].resp
        /\ \A s \in Rids : s # r => ctx'[s] = ctx[s]
        /\ ctx[r].sem \in Nat /\ ctx'[r].sem = ctx[r].sem + 1
    BY <1>1 DEF ReaderPosts, Typed, TypeOK
  <1>3. Handled' = {} /\ Handled = {rmsg} /\ Unanswered' = sent /\ rmsg \in Unanswered
    BY <1>1, Zenon DEF Handled, Unanswered
  <1>4. \A n \in sent : n.rid # r /\ n \in Unanswered
    BY <1>3 DEF Sound, Exclusive, Unanswered
  <1>5. Exclusive'
    <2>1. \A c \in Callers : Owner(c)' => rid[c] \in used'
      BY <1>1, <1>3, <1>4, Zenon DEF Sound, Exclusive
    <2>2. /\ sent' \cap Handled' = {} /\ Unanswered' \subseteq Unanswered
          /\ \A m \in Unanswered' : m.rid \in used'
      BY <1>1, <1>3, <1>4, Zenon DEF Sound, Exclusive
    <2> QED
      BY <1>1, <1>3, <1>4, <2>1, <2>2, ExclusiveCarries, Zenon DEF Sound
  <1>6. ReaderSound'
    BY <1>1, Zenon DEF Sound, ReaderSound
  <1>7. \A c \in Callers : Owner(c) /\ rid[c] = r =>
          pc[c] = "wait" /\ ctx[r].resp = Answer(req[c]) /\ ~ Pending(rid[c])'
    BY <1>1, <1>3, <1>4, Zenon DEF Sound, ReaderSound, Exclusive, Pending
  <1>8. \A c \in Callers : rid[c] # r => (Pending(rid[c])' <=> Pending(rid[c]))
    BY <1>1, <1>3, <1>4, Zenon DEF Pending, Unanswered
  <1>9. SlotsSound'
    <2> SUFFICES ASSUME NEW c \in Callers, Owner(c) PROVE SlotSound(c, ctx[rid[c]])'
      BY <1>1, Zenon DEF SlotsSound
    <2>1. rid[c] \in Rids /\ SlotSound(c, ctx[rid[c]])
      BY DEF Sound, SlotsSound, Typed, TypeOK
    <2>2. CASE rid[c] # r
      BY <1>1, <1>2, <1>8, <2>1, <2>2, Zenon DEF SlotSound
    <2>3. CASE rid[c] = r
      <3>1. ctx'[r].sem # 0
        BY <1>2
      <3> QED
        BY <1>1, <1>2, <1>7, <2>1, <2>3, <3>1, Zenon DEF SlotSound
    <2> QED
      BY <2>2, <2>3
  <1>10. AnswerMatches'
    BY <1>1, Zenon DEF Sound, AnswerMatches
  <1>11. breaks' = 0 => Connected'
    <2>1. \A c \in Callers : Awaits(c, ctx[rid[c]])' => rid[c] # r /\ Awaits(c, ctx[rid[c]])
      <3> SUFFICES ASSUME NEW c \in Callers, Awaits(c, ctx[rid[c]])'
                   PROVE  rid[c] # r /\ Awaits(c, ctx[rid[c]])
        OBVIOUS
      <3>1. rid[c] \in Rids /\ pc'[c] = pc[c] /\ rid'[c] = rid[c]
        BY <1>1, Zenon DEF Typed, TypeOK
      <3>2. ctx'[r].sem # 0
        BY <1>2
      <3>3. rid[c] # r
        <4>1. SUFFICES ASSUME rid[c] = r PROVE FALSE
          OBVIOUS
        <4>2. Owner(c)
          BY <3>1, Zenon DEF Awaits, Owner
        <4>3. pc[c] = "wait"
          BY <1>7, <4>1, <4>2, Zenon
        <4> QED
          BY <3>1, <3>2, <4>1, <4>3, Zenon DEF Awaits
      <3>4. ctx'[rid[c]] = ctx[rid[c]]
        BY <1>2, <3>1, <3>3, Zenon
      <3> QED
        BY <3>1, <3>3, <3>4, Zenon DEF Awaits
    <2> QED
      BY <1>1, <1>8, <2>1, Zenon DEF Sound, Connected
  <1>12. breaks' = 0 => NoSlotLost'
    <2>1. \A c \in Callers, s \in used : Holds(c, s) => Holds(c, s)'
      BY <1>1, Zenon DEF Holds
    <2>2. \A s \in used : ctx'[s].status = ctx[s].status
      BY <1>2, Zenon DEF Typed, TypeOK
    <2>3. \A s \in used : Found(s) => Found(s)'
      BY <1>1, <2>1, <2>2, Zenon DEF Found
    <2> QED
      BY <1>1, <2>3, FoundCarries, Zenon DEF Sound
  <1> QED
    BY <1>5, <1>6, <1>9, <1>10, <1>11, <1>12 DEF Sound

LEMMA SoundClears ==
  ASSUME Typed, Sound, ~ raced, ~ raced', ReaderClears PROVE Sound'
  <1>1. /\ UNCHANGED <<ctx, conn, hpc, hrid, hseen, breaks, pc, rid, req, res, sent, rmsg>>
        /\ rpc = "clear" /\ rpc' = "recv" /\ used' = used \ {rmsg.rid}
        /\ \A c \in Callers : Owner(c)' <=> Owner(c)
    BY SameOwners, Zenon DEF ReaderClears, Swap, Window, handler, Typed, TypeOK
  <1>2. Handled' = {} /\ Handled = {} /\ Unanswered' = sent /\ Unanswered = sent
    BY <1>1, Zenon DEF Handled, Unanswered
  <1>3. /\ \A c \in Callers : Owner(c) => rid[c] # rmsg.rid
        /\ \A n \in sent : n.rid # rmsg.rid
    BY <1>1, Zenon DEF Sound, ReaderSound
  <1>4. Exclusive'
    <2>1. \A c \in Callers : Owner(c)' => rid[c] \in used'
      BY <1>1, <1>2, <1>3, Zenon DEF Sound, Exclusive
    <2>2. /\ sent' \cap Handled' = {} /\ Unanswered' \subseteq Unanswered
          /\ \A m \in Unanswered' : m.rid \in used'
      BY <1>1, <1>2, <1>3 DEF Sound, Exclusive
    <2> QED
      BY <1>1, <1>2, <1>3, <2>1, <2>2, ExclusiveCarries, Zenon DEF Sound
  <1>5. ReaderSound'
    BY <1>1 DEF Sound, ReaderSound
  <1>10. \A c \in Callers : Kept(c)
    BY <1>1, <1>2, Zenon DEF Kept, Pending
  <1>6. SlotsSound'
    BY <1>1, <1>10, SlotsCarry, Zenon DEF Sound
  <1>7. AnswerMatches'
    BY <1>1, Zenon DEF Sound, AnswerMatches
  <1>8. breaks' = 0 => Connected'
    BY <1>1, <1>10, AwaitsCarry, Zenon DEF Sound, Connected
  <1>9. breaks' = 0 => NoSlotLost'
    <2>1. \A c \in Callers, s \in used : Holds(c, s) => Holds(c, s)'
      BY <1>1, Zenon DEF Holds
    <2>2. \A s \in used' : s \in used /\ Found(s) => Found(s)'
      BY <1>1, <2>1, Zenon DEF Found
    <2> QED
      BY <1>1, <2>2, FoundCarries, Zenon DEF Sound
  <1> QED
    BY <1>4, <1>5, <1>6, <1>7, <1>8, <1>9 DEF Sound

LEMMA SoundBreak ==
  ASSUME Typed, Sound, ~ raced, Break PROVE Sound'
  <1>1. /\ UNCHANGED <<used, ctx, hpc, hrid, hseen, raced, pc, rid, req, res, rpc, rmsg>>
        /\ conn = "up" /\ sent' \subseteq sent /\ breaks' # 0
        /\ \A c \in Callers : Owner(c)' <=> Owner(c)
    BY SameOwners DEF Break, reader, handler, Typed, TypeOK
  <1>2. Handled' = Handled /\ Unanswered' \subseteq Unanswered
    BY <1>1, Zenon DEF Handled, Unanswered
  <1>3. Exclusive'
    <2>1. \A c \in Callers : Owner(c)' => rid[c] \in used'
      BY <1>1, <1>2, Zenon DEF Sound, Exclusive
    <2>2. /\ sent' \cap Handled' = {} /\ Unanswered' \subseteq Unanswered
          /\ \A m \in Unanswered' : m.rid \in used'
      BY <1>1, <1>2, Zenon DEF Sound, Exclusive
    <2> QED
      BY <1>1, <1>2, <2>1, <2>2, ExclusiveCarries, Zenon DEF Sound
  <1>4. ReaderSound'
    BY <1>1, Zenon DEF Sound, ReaderSound
  <1>5. SlotsSound'
    BY <1>1, <1>2, ZenonT(40) DEF Sound, SlotsSound, SlotSound, Pending
  <1>6. AnswerMatches'
    BY <1>1 DEF Sound, AnswerMatches
  <1> QED
    BY <1>1, <1>3, <1>4, <1>5, <1>6, Zenon DEF Sound

\* The end of the connection, up to the reconnection.
LEMMA SoundNotice ==
  ASSUME Typed, Sound, ~ raced, ~ raced', Notice \/ Closes \/ Reconnect PROVE Sound'
  <1>1. /\ UNCHANGED <<used, ctx, hpc, hrid, hseen, breaks, pc, rid, req, res, sent, rmsg>>
        /\ rpc \in {"recv", "broadcast", "giveup", "reconnect"}
        /\ rpc' \in {"recv", "broadcast", "giveup", "reconnect", "exit"}
        /\ \A c \in Callers : Owner(c)' <=> Owner(c)
    BY SameOwners, Zenon DEF Notice, Closes, Reconnect, handler
  <1>2. Handled' = Handled /\ Unanswered' = Unanswered
    BY <1>1 DEF Handled, Unanswered
  <1>3. breaks # 0
    BY Zenon DEF Notice, Closes, Reconnect, Sound, Connected
  <1>4. Exclusive'
    <2>1. \A c \in Callers : Owner(c)' => rid[c] \in used'
      BY <1>1, <1>2, Zenon DEF Sound, Exclusive
    <2>2. /\ sent' \cap Handled' = {} /\ Unanswered' \subseteq Unanswered
          /\ \A m \in Unanswered' : m.rid \in used'
      BY <1>1, <1>2 DEF Sound, Exclusive
    <2> QED
      BY <1>1, <1>2, <2>1, <2>2, ExclusiveCarries, Zenon DEF Sound
  <1>5. rpc' \in {"broadcast", "giveup", "reconnect"} => sent' = {} /\ conn' = "down" /\ \A c \in Callers : pc'[c] # "send"
    <2>1. CASE Notice
      BY <1>1, <2>1, Zenon DEF Notice, Window
    <2>2. CASE Closes \/ Reconnect
      BY <1>1, <2>2 DEF Closes, Reconnect, Sound, ReaderSound
    <2> QED
      BY <2>1, <2>2, Zenon
  <1>6. ReaderSound'
    BY <1>1, <1>5, Zenon DEF Sound, ReaderSound
  <1>9. \A c \in Callers : Kept(c)
    BY <1>1, <1>2, Zenon DEF Kept, Pending
  <1>7. SlotsSound'
    BY <1>1, <1>9, SlotsCarry, Zenon DEF Sound
  <1>8. AnswerMatches'
    BY <1>1, Zenon DEF Sound, AnswerMatches
  <1> QED
    BY <1>1, <1>3, <1>4, <1>6, <1>7, <1>8, Zenon DEF Sound

LEMMA SoundBroadcast ==
  ASSUME Typed, Sound, ~ raced, ~ raced', Broadcast PROVE Sound'
  <1>1. /\ UNCHANGED <<used, conn, hpc, hrid, hseen, breaks, pc, rid, req, res, sent, rpc, rmsg>>
        /\ rpc \in {"broadcast", "giveup"} /\ slot \in Rids
        /\ \A c \in Callers : Owner(c)' <=> Owner(c)
    <2>1. slot \in Rids
      BY EmpAssumption DEF Broadcast, Typed, TypeOK, Rids
    <2>2. UNCHANGED callers /\ \A c \in Callers : Owner(c)' <=> Owner(c)
      BY SameOwners, Zenon DEF Broadcast
    <2> QED
      BY <2>1, <2>2, Zenon DEF Broadcast, handler, callers
  <1>2. Handled' = Handled /\ Unanswered' = Unanswered /\ Unanswered = {}
    BY <1>1, Zenon DEF Handled, Unanswered, Sound, ReaderSound
  <1>3. /\ \A s \in Rids : s # slot => ctx'[s] = ctx[s]
        /\ \/ ctx'[slot] = ctx[slot]
           \/ /\ ctx'[slot].status = "ERROR" /\ ctx'[slot].resp = Error("CLOSED")
              /\ ctx'[slot].sem # 0
    BY <1>1 DEF Broadcast, Typed, TypeOK
  <1>4. breaks # 0
    BY <1>1, Zenon DEF Sound, Connected
  <1>5. Exclusive'
    <2>1. \A c \in Callers : Owner(c)' => rid[c] \in used'
      BY <1>1, <1>2, Zenon DEF Sound, Exclusive
    <2>2. /\ sent' \cap Handled' = {} /\ Unanswered' \subseteq Unanswered
          /\ \A m \in Unanswered' : m.rid \in used'
      BY <1>1, <1>2, Zenon DEF Sound, Exclusive
    <2> QED
      BY <1>1, <1>2, <2>1, <2>2, ExclusiveCarries, Zenon DEF Sound
  <1>6. ReaderSound'
    BY <1>1, Zenon DEF Sound, ReaderSound
  <1>7. SlotsSound'
    <2> SUFFICES ASSUME NEW c \in Callers, Owner(c) PROVE SlotSound(c, ctx[rid[c]])'
      BY <1>1, Zenon DEF SlotsSound
    <2>1. rid[c] \in Rids /\ SlotSound(c, ctx[rid[c]]) /\ pc[c] # "send"
      BY <1>1, Zenon DEF Sound, SlotsSound, ReaderSound, Typed, TypeOK
    <2>2. CASE ctx'[rid[c]] = ctx[rid[c]]
      BY <1>1, <1>2, <2>1, <2>2, Zenon DEF SlotSound, Pending
    <2>3. CASE rid[c] = slot /\ ctx'[slot] # ctx[slot]
      <3>1. pc[c] \notin {"expired", "return", "status"}
        BY <2>3, Zenon DEF Broadcast, Window, Expiring
      <3> QED
        BY <1>1, <1>2, <1>3, <2>1, <2>3, <3>1, Zenon DEF SlotSound, Pending
    <2> QED
      BY <1>3, <2>1, <2>2, <2>3, Zenon
  <1>8. AnswerMatches'
    BY <1>1, Zenon DEF Sound, AnswerMatches
  <1> QED
    BY <1>1, <1>4, <1>5, <1>6, <1>7, <1>8, Zenon DEF Sound

\* A command of the agent: the slot that may be wiped is not used.
LEMMA SoundHandler ==
  ASSUME Typed, Sound, ~ raced, ~ raced', HandlerStep \/ \E r \in Rids : AgentCommand(r)
  PROVE  Sound'
  <1>1. /\ UNCHANGED <<conn, breaks, pc, rid, req, res, sent, rpc, rmsg>>
        /\ \A c \in Callers : Owner(c)' <=> Owner(c)
    BY SameOwners DEF HandlerStep, HandlerSends, HandlerClears, AgentCommand, reader
  <1>2. used' = used /\ \A r \in used : ctx'[r] = ctx[r]
    <2>1. CASE HandlerSends
      BY <2>1, Zenon DEF HandlerSends, Wipe, Window, Typed, TypeOK
    <2>2. CASE HandlerClears
      BY <2>2, Zenon DEF HandlerClears, Swap, Window, Sound, ReaderSound
    <2>3. CASE \E r \in Rids : AgentCommand(r)
      BY <2>3 DEF AgentCommand
    <2> QED
      BY <2>1, <2>2, <2>3 DEF HandlerStep
  <1>3. hpc' = "clear" => hrid' \notin hseen'
    BY Zenon DEF HandlerStep, HandlerSends, HandlerClears, AgentCommand, Window
  <1>4. Handled' = Handled /\ Unanswered' = Unanswered
    BY <1>1, SameUnanswered, SMTT(30)
  <1>5. \A c \in Callers : Owner(c) => ctx'[rid[c]] = ctx[rid[c]]
    BY <1>2, ZenonT(40) DEF Sound, Exclusive
  <1>6. Exclusive'
    <2>1. \A c \in Callers : Owner(c)' => rid[c] \in used'
      BY <1>1, <1>2, <1>4, Zenon DEF Sound, Exclusive
    <2>2. /\ sent' \cap Handled' = {} /\ Unanswered' \subseteq Unanswered
          /\ \A m \in Unanswered' : m.rid \in used'
      BY <1>1, <1>2, <1>4, Zenon DEF Sound, Exclusive
    <2> QED
      BY <1>1, <1>2, <1>4, <2>1, <2>2, ExclusiveCarries, Zenon DEF Sound
  <1>7. ReaderSound'
    <2>1. rpc = "post" => ctx'[rmsg.rid] = ctx[rmsg.rid]
      BY <1>2, Zenon DEF Sound, Exclusive, Unanswered, Handled
    <2> QED
      BY <1>1, <1>2, <1>3, <2>1, Zenon DEF Sound, ReaderSound
  <1>12. \A c \in Callers : Owner(c) => Kept(c)
    BY <1>1, <1>4, <1>5, Zenon DEF Kept, Pending
  <1>8. SlotsSound'
    BY <1>1, <1>12, SlotsCarry, Zenon DEF Sound
  <1>9. AnswerMatches'
    BY <1>1, Zenon DEF Sound, AnswerMatches
  <1>10. breaks' = 0 => Connected'
    <2>1. \A c \in Callers : Awaits(c, ctx[rid[c]])' => Owner(c)
      BY <1>1, Zenon DEF Awaits, Owner
    <2> QED
      BY <1>1, <1>12, <2>1, AwaitsCarry, Zenon DEF Sound, Connected
  <1>11. breaks' = 0 => NoSlotLost'
    <2>1. \A c \in Callers, s \in used : Holds(c, s) => Holds(c, s)'
      BY <1>1, ZenonT(40) DEF Holds
    <2>2. \A s \in used : Found(s) => Found(s)'
      BY <1>1, <1>2, <2>1, Zenon DEF Found
    <2> QED
      BY <1>1, <1>2, <2>2, FoundCarries, Zenon DEF Sound
  <1> QED
    BY <1>6, <1>7, <1>8, <1>9, <1>10, <1>11, Zenon DEF Sound

-----------------------------------------------------------------------------
LEMMA IInvInit == Init => IInv
  <1>1. Init => Typed
    BY TypedInit
  <1>2. ASSUME Init PROVE Sound
    <2>1. Unanswered = {} /\ Handled = {}
      BY <1>2, Zenon DEF Init, Unanswered, Handled
    <2>2. \A c \in Callers : pc[c] = "idle" /\ res[c] = Error("none")
      BY <1>2, Zenon DEF Init
    <2>3. Exclusive /\ SlotsSound
      BY <2>1, <2>2, Zenon DEF Exclusive, SlotsSound, Owner
    <2>4. ReaderSound
      BY <1>2, ZenonT(40) DEF Init, ReaderSound
    <2>5. AnswerMatches
      BY <2>2 DEF AnswerMatches, Error
    <2>6. Connected /\ NoSlotLost
      <3>1. \A c \in Callers : \A x : ~ Awaits(c, x)
        BY <2>2, Zenon DEF Awaits
      <3>2. used = {} /\ conn = "up" /\ rpc = "recv"
        BY <1>2, Zenon DEF Init
      <3> QED
        BY <3>1, <3>2, Zenon DEF Connected, NoSlotLost
    <2> QED
      BY <2>3, <2>4, <2>5, <2>6, Zenon DEF Sound
  <1> QED
    BY <1>1, <1>2 DEF IInv

\* A window that was hit stays hit.
LEMMA RacedStays == [Next]_vars /\ raced => raced'
  BY ZenonT(40) DEF Next, CallerStep, ReaderStep, HandlerStep, Call, LookupRead, LookupSwap, InitSlot, Send, Wake,
         Expire, Interrupt, MarkTimedOut, ReadResult, Return, Free, FreeSwap, ReaderGets, ReaderChecks,
         ReaderStores, ReaderPosts, ReaderClears, Break, Notice, Broadcast, Closes, Reconnect, AgentCommand,
         HandlerSends, HandlerClears, Swap, Window, vars

LEMMA IInvNext == IInv /\ [Next]_vars => IInv'
  <1> SUFFICES ASSUME IInv, [Next]_vars PROVE IInv'
    OBVIOUS
  <1>1. Typed /\ Typed'
    BY TypedNext DEF IInv
  <1>2. ASSUME ~ raced' PROVE Sound'
    <2>1. ~ raced /\ Sound
      BY <1>2, RacedStays DEF IInv
    <2>2. CASE UNCHANGED vars
      <3>1. UNCHANGED <<used, ctx, conn, hpc, hrid, hseen, breaks, raced, pc, rid, req, res, sent, rpc, rmsg>>
        BY <2>2 DEF vars, callers, reader, handler
      <3>2. Handled' = Handled /\ Unanswered' = Unanswered
        BY <3>1, SameUnanswered, Zenon
      <3>3. \A c \in Callers : Kept(c) /\ (Owner(c)' <=> Owner(c))
        BY <3>1, <3>2, Zenon DEF Kept, Owner, Pending
      <3>4. Exclusive' /\ ReaderSound'
        BY <2>1, <3>1, <3>2, <3>3, Zenon DEF Sound, Exclusive, ReaderSound
      <3>5. SlotsSound'
        BY <2>1, <3>3, SlotsCarry, Zenon DEF Sound
      <3>6. AnswerMatches' /\ NoSlotLost'
        BY <2>1, <3>1, ZenonT(40) DEF Sound, AnswerMatches, NoSlotLost, Holds
      <3>7. breaks' = 0 => Connected'
        BY <2>1, <3>1, <3>3, AwaitsCarry, Zenon DEF Sound, Connected
      <3> QED
        BY <2>1, <3>1, <3>4, <3>5, <3>6, <3>7, Zenon DEF Sound
    <2>3. CASE \E c \in Callers : Call(c) \/ CallerStep(c)
      BY <1>1, <1>2, <2>1, <2>3, SoundCaller
    <2>4. CASE \E c \in Callers : Interrupt(c)
      BY <1>2, <2>4, Zenon DEF Interrupt, Window
    <2>5. CASE ReaderStep
      BY <1>1, <1>2, <2>1, <2>5, SoundChecks, SoundStores, SoundPosts, SoundClears, SoundNotice,
         SoundBroadcast DEF ReaderStep
    <2>6. CASE HandlerStep \/ \E r \in Rids : AgentCommand(r)
      BY <1>1, <1>2, <2>1, <2>6, SoundHandler
    <2>7. CASE Break \/ \E m \in sent : ReaderGets(m)
      BY <1>1, <2>1, <2>7, SoundBreak, SoundGets
    <2> QED
      BY <2>2, <2>3, <2>4, <2>5, <2>6, <2>7 DEF Next
  <1> QED
    BY <1>1, <1>2 DEF IInv

LEMMA IInvOwn == IInv => AnswersAreOwn
  <1> SUFFICES ASSUME IInv PROVE AnswersAreOwn
    OBVIOUS
  <1>1. RidExclusive
    BY DEF IInv, Typed, Sound, Exclusive, RidExclusive, Holds, Owner, Unanswered
  <1>2. AnswerMatches
    BY DEF IInv, Sound, AnswerMatches
  <1>3. NoSlotLost
    BY DEF IInv, Sound, NoSlotLost
  <1> QED
    BY <1>1, <1>2, <1>3 DEF AnswersAreOwn

\* emp.c without a lock, for any number of threads and slots: as long as none of
\* its windows is hit, a request id has one owner, what a call returns is the
\* answer to its own command, and no slot is lost.
THEOREM AnswersAreOwnThm == Spec => []AnswersAreOwn
  <1>1. Init => IInv
    BY IInvInit
  <1>2. IInv /\ [Next]_vars => IInv'
    BY IInvNext
  <1>3. IInv => AnswersAreOwn
    BY IInvOwn
  <1> QED
    BY <1>1, <1>2, <1>3, PTL DEF Spec
=============================================================================
