------------------------- MODULE LeaseContractProofs -------------------------
(***************************************************************************)
(* What module LeaseContract promises, proved for any callers and any      *)
(* number of packets.  The enum of states that several tasks share is the  *)
(* point: each task keeps to its part of it, TaskStates, which is closed   *)
(* under whatever the handlers of module SwapStates may lead to.           *)
(***************************************************************************)
EXTENDS LeaseContract, TLAPS

----------------------------------------------------------------------------
(* The swap of each task *)

\* The part of the states of a swap that a task gets to
TaskStates(task) ==
    CASE task = "BuyAsset" -> OutRemoteStates
      [] task = "BuyLpn" -> OutLocalStates
      [] task \in SaleTasks -> OutLocalStates \ {"TransferOut"}
      [] task = "ClosingTransferIn" -> {"TransferInInit", "TransferInFinish"}

\* A response is stored by the states that expect one only
SwapsIn(names) ==
    {s \in [in : names, resp : BOOLEAN] : s.resp => s.in # "TransferInFinish"}

Leases == {"Init", "OpenedActive", "PaidActive"} \cup FinalStates \cup SwapTasks

(***************************************************************************)
(* The inductive invariant.                                                *)
(***************************************************************************)
StateInv ==
    /\ at \in Leases
    /\ at \notin SwapTasks => swap = NoSwap
    /\ at \in SwapTasks => swap \in SwapsIn(TaskStates(at))
    /\ packets \in 0 .. MaxPackets
    /\ notified = IF at \in FinalStates THEN 1 ELSE 0

CallInv ==
    call \in [msg : Calls, from : Senders \cup {Network},
              result : {"Ok", "Refused", "Ignored"}]

ContractInv == StateInv /\ CallInv

\* What the states of out_local::State may lead to
LocalNext(name) ==
    CASE name = "TransferOut"      -> {"TransferOut", "SwapExactIn"}
      [] name = "SwapExactIn"      -> {"SwapExactIn", "TransferInInit"}
      [] name = "TransferInInit"   -> {"TransferInInit", "TransferInFinish"}
      [] name = "TransferInFinish" -> {"TransferInInit", "TransferInFinish"}

\* What the states of out_remote::State may lead to
RemoteNext(name) ==
    CASE name = "OpenIca"     -> {"OpenIca", "TransferOut"}
      [] name = "TransferOut" -> {"TransferOut", "SwapExactIn"}
      [] name = "SwapExactIn" -> {"SwapExactIn"}

\* The states entered anew, with no response stored
Entered(names) == {Swap(name) : name \in names}

(***************************************************************************)
(* Every handler of a state leads to its finish or to states of LocalNext. *)
(***************************************************************************)
LEMMA LocalHandlers ==
    ASSUME NEW name \in OutLocalStates, NEW msg \in Messages
    PROVE  LocalHandler(name)[msg] \subseteq Entered(LocalNext(name)) \cup {Finished}
<1>1. CASE name = "TransferOut"
  BY <1>1 DEF LocalHandler, LocalNext, Entered, TransferOutHandler, Unsupported,
              Messages
<1>2. CASE name = "SwapExactIn"
  BY <1>2 DEF LocalHandler, LocalNext, Entered, SwapExactInLocalHandler,
              Unsupported, Messages
<1>3. CASE name = "TransferInInit"
  BY <1>3 DEF LocalHandler, LocalNext, Entered, TransferInInitHandler,
              Unsupported, Messages
<1>4. CASE name = "TransferInFinish"
  BY <1>4 DEF LocalHandler, LocalNext, Entered, TransferInFinishHandler,
              TryComplete, Unsupported, Messages
<1> QED
  BY <1>1, <1>2, <1>3, <1>4 DEF OutLocalStates

(***************************************************************************)
(* The same of out_remote::State.                                          *)
(***************************************************************************)
LEMMA RemoteHandlers ==
    ASSUME NEW name \in OutRemoteStates, NEW msg \in Messages
    PROVE  RemoteHandler(name)[msg] \subseteq Entered(RemoteNext(name)) \cup {Finished}
<1>1. CASE name = "OpenIca"
  BY <1>1 DEF RemoteHandler, RemoteNext, Entered, IcaConnectorHandler, Unsupported,
              Messages
<1>2. CASE name = "TransferOut"
  BY <1>2 DEF RemoteHandler, RemoteNext, Entered, TransferOutHandler, Unsupported,
              Messages
<1>3. CASE name = "SwapExactIn"
  BY <1>3 DEF RemoteHandler, RemoteNext, Entered, SwapExactInRemoteHandler,
              Unsupported, Messages
<1> QED
  BY <1>1, <1>2, <1>3 DEF OutRemoteStates

\* What a call to a swap, or an answer to it, may lead to
Reached(names, s) == {Delivery(s), Finished} \cup Entered(names)

\* The messages that a state of a swap is handed over
Handed == Answers \cup {"TimeAlarm", "Heal"}

(***************************************************************************)
(* A response is stored where one is expected, and its delivery does what  *)
(* the handler of the response does, or stores it again.                   *)
(***************************************************************************)
LEMMA LocalOutcomes ==
    ASSUME NEW s \in SwapsIn(OutLocalStates), NEW msg \in Handed,
           NEW next \in LocalAnswers(s, msg) \cup LocalCalls(s, msg)
    PROVE  /\ next \in Reached(LocalNext(s.in), s)
           /\ next = Delivery(s) => s.in # "TransferInFinish"
<1> DEFINE handler == LocalHandler(s.in)
<1>1. /\ s.in \in OutLocalStates /\ s.resp \in BOOLEAN
      /\ s.resp => s.in # "TransferInFinish"
      /\ msg \in Messages
      /\ "Response" \in Messages
  BY DEF SwapsIn, Handed, Answers, Messages
<1>2. \A m \in Messages : handler[m] \subseteq Entered(LocalNext(s.in)) \cup {Finished}
  BY <1>1, LocalHandlers
<1>3. s.in = "TransferInFinish" => handler.Response = {}
  BY DEF LocalHandler, TransferInFinishHandler, Unsupported, Messages
<1>4. ResponseDelivery(s, handler)[msg] \subseteq handler.Response
  BY <1>1 DEF ResponseDelivery, ResponseDeliveryAdapter, Unsupported, Messages,
              Handed, Answers
<1>5. Forward(s, handler) \subseteq handler.Response \cup {Delivery(s)}
      /\ (handler.Response = {} => Forward(s, handler) = {})
  BY DEF Forward, ResponseDelivery, ResponseDeliveryAdapter, Unsupported, Messages
<1>6. next \in handler[msg] \cup handler.Response \cup Forward(s, handler)
  BY <1>1, <1>4 DEF LocalAnswers, LocalCalls
<1>7. \A x \in Entered(LocalNext(s.in)) \cup {Finished} : x # Delivery(s)
  BY <1>1 DEF Entered, Swap, Finished, Delivery
<1> QED
  BY <1>1, <1>2, <1>3, <1>5, <1>6, <1>7 DEF Reached

(***************************************************************************)
(* The same of out_remote::State, where the answer may be to the opening   *)
(* of the account, too.                                                    *)
(***************************************************************************)
LEMMA RemoteOutcomes ==
    ASSUME NEW s \in SwapsIn(OutRemoteStates), NEW msg \in Handed,
           NEW next \in RemoteAnswers(s, msg) \cup RemoteCalls(s, msg)
    PROVE  next \in Reached(RemoteNext(s.in), s)
<1> DEFINE handler == RemoteHandler(s.in)
<1>1. /\ s.in \in OutRemoteStates /\ s.resp \in BOOLEAN
      /\ msg \in Messages
      /\ "Response" \in Messages /\ "OpenAck" \in Messages
  BY DEF SwapsIn, Handed, Answers, Messages
<1>2. \A m \in Messages : handler[m] \subseteq Entered(RemoteNext(s.in)) \cup {Finished}
  BY <1>1, RemoteHandlers
<1>3. ResponseDelivery(s, handler)[msg] \subseteq handler.Response
  BY <1>1 DEF ResponseDelivery, ResponseDeliveryAdapter, Unsupported, Messages,
              Handed, Answers
<1>4. ICAOpenResponseDelivery(s, handler)[msg] \subseteq handler.OpenAck
  BY <1>1 DEF ICAOpenResponseDelivery, ICAOpenDeliveryAdapter, Unsupported,
              Messages, Handed, Answers
<1>5. Forward(s, handler) \subseteq handler.Response \cup {Delivery(s)}
  BY DEF Forward, ResponseDelivery, ResponseDeliveryAdapter, Unsupported, Messages
<1>6. ForwardIca(s, handler) \subseteq handler.OpenAck \cup {Delivery(s)}
  BY DEF ForwardIca, ICAOpenResponseDelivery, ICAOpenDeliveryAdapter, Unsupported,
         Messages
<1>7. next \in handler[msg] \cup handler.Response \cup handler.OpenAck
                \cup Forward(s, handler) \cup ForwardIca(s, handler)
  BY <1>1, <1>3, <1>4 DEF RemoteAnswers, RemoteCalls, RemoteDelivery
<1> QED
  BY <1>1, <1>2, <1>5, <1>6, <1>7 DEF Reached

(***************************************************************************)
(* Storing a response and entering another state stay within a part of the *)
(* states.                                                                 *)
(***************************************************************************)
LEMMA ReachedIn ==
    ASSUME NEW part, NEW names \in SUBSET part, NEW s \in SwapsIn(part),
           NEW next \in Reached(names, s), next # Finished,
           next = Delivery(s) => s.in # "TransferInFinish"
    PROVE  next \in SwapsIn(part)
<1>1. CASE next = Delivery(s)
  <2>1. s \in [in : part, resp : BOOLEAN]
    BY DEF SwapsIn
  <2>2. /\ Delivery(s) \in [in : part, resp : BOOLEAN]
        /\ Delivery(s).in = s.in
    BY <2>1 DEF Delivery
  <2> QED
    BY <1>1, <2>2 DEF SwapsIn
<1>2. CASE next \in Entered(names)
  <2>1. PICK name \in names : next = [in |-> name, resp |-> FALSE]
    BY <1>2 DEF Entered, Swap
  <2> QED
    BY <2>1 DEF SwapsIn
<1> QED
  BY <1>1, <1>2 DEF Reached

(***************************************************************************)
(* A task keeps to its part of the states.                                 *)
(***************************************************************************)
LEMMA TaskKeepsStates ==
    ASSUME at \in SwapTasks, swap \in SwapsIn(TaskStates(at)), NEW msg \in Handed,
           NEW next \in AnswerTo(msg) \cup CallTo(msg), next # Finished
    PROVE  next \in SwapsIn(TaskStates(at))
<1>1. CASE at \in RemoteOutTasks
  <2>1. TaskStates(at) = OutRemoteStates
    BY <1>1 DEF TaskStates, RemoteOutTasks, SaleTasks
  <2>2. next \in Reached(RemoteNext(swap.in), swap)
    BY <1>1, <2>1, RemoteOutcomes DEF AnswerTo, CallTo
  <2>3. swap.in \in OutRemoteStates
        /\ RemoteNext(swap.in) \subseteq OutRemoteStates
    BY <2>1 DEF SwapsIn, RemoteNext, OutRemoteStates
  <2> QED
    BY <2>1, <2>2, <2>3, ReachedIn DEF OutRemoteStates
<1>2. CASE at \in LocalOutTasks
  <2>1. /\ at \notin RemoteOutTasks
        /\ TaskStates(at) \subseteq OutLocalStates
        /\ \A name \in TaskStates(at) : LocalNext(name) \subseteq TaskStates(at)
    BY <1>2 DEF TaskStates, RemoteOutTasks, LocalOutTasks, SaleTasks,
                OutLocalStates, LocalNext
  <2>2. /\ swap \in SwapsIn(OutLocalStates)
        /\ swap.in \in TaskStates(at)
        /\ swap \in [in : TaskStates(at), resp : BOOLEAN]
    BY <2>1 DEF SwapsIn
  <2>3. /\ next \in Reached(LocalNext(swap.in), swap)
        /\ next = Delivery(swap) => swap.in # "TransferInFinish"
    BY <2>1, <2>2, LocalOutcomes DEF AnswerTo, CallTo
  <2> QED
    BY <2>1, <2>2, <2>3, ReachedIn
<1> QED
  BY <1>1, <1>2 DEF SwapTasks

----------------------------------------------------------------------------
(* The steps *)

\* What every call does to the lease: it stays sound and in order
Sound == StateInv' /\ [Lifecycle!Next]_at

(***************************************************************************)
(* A refused or an ignored call does nothing.                              *)
(***************************************************************************)
LEMMA SameIsSound ==
    ASSUME StateInv, UNCHANGED <<at, swap, packets, notified>>
    PROVE  Sound
BY DEF Sound, StateInv

(***************************************************************************)
(* Each task begins within its part of the states.                         *)
(***************************************************************************)
LEMMA TasksBegin ==
    ASSUME NEW task \in SwapTasks
    PROVE  Task[task].start \in SwapsIn(TaskStates(task))
<1>1. ASSUME NEW name, NEW names, name \in names
      PROVE  Swap(name) \in SwapsIn(names)
  BY <1>1 DEF Swap, SwapsIn
<1>2. CASE task = "BuyAsset"
  <2>1. Task[task].start = Swap("OpenIca")
    BY <1>2 DEF Task, BuyAsset, OpenIcaAccount
  <2>2. "OpenIca" \in TaskStates(task)
    BY <1>2 DEF TaskStates, SaleTasks, OutRemoteStates
  <2> QED
    BY <1>1, <2>1, <2>2
<1>3. CASE task = "BuyLpn"
  <2>1. Task[task].start = Swap("TransferOut")
    BY <1>3 DEF Task, BuyLpn
  <2>2. "TransferOut" \in TaskStates(task)
    BY <1>3 DEF TaskStates, SaleTasks, OutLocalStates
  <2> QED
    BY <1>1, <2>1, <2>2
<1>4. CASE task \in SaleTasks
  <2>1. Task[task].start = Swap("SwapExactIn")
    BY <1>4 DEF Task, SaleTasks, SellAsset, PartialLiquidation, FullLiquidation,
                PartialClose, FullClose
  <2>2. "SwapExactIn" \in TaskStates(task)
    BY <1>4 DEF TaskStates, SaleTasks, OutLocalStates
  <2> QED
    BY <1>1, <2>1, <2>2
<1>5. CASE task = "ClosingTransferIn"
  <2>1. Task[task].start = Swap("TransferInInit")
    BY <1>5 DEF Task, ClosingTransferIn
  <2>2. "TransferInInit" \in TaskStates(task)
    BY <1>5 DEF TaskStates, SaleTasks
  <2> QED
    BY <1>1, <2>1, <2>2
<1> QED
  BY <1>2, <1>3, <1>4, <1>5 DEF SwapTasks, RemoteOutTasks, LocalOutTasks

(***************************************************************************)
(* Each task finishes in a state that may come past it.                    *)
(***************************************************************************)
LEMMA TasksFinish ==
    ASSUME NEW task \in SwapTasks
    PROVE  Task[task].finish \subseteq Lifecycle!Successors[task]
<1> USE DEF Task, Lifecycle!Successors, Lifecycle!AfterPayment
<1>1. CASE task = "BuyAsset"
  BY <1>1 DEF BuyAsset, BuyAssetFinish
<1>2. CASE task = "BuyLpn"
  BY <1>2 DEF BuyLpn, RepayFinish
<1>3. CASE task \in {"PartialLiquidation", "PartialClose"}
  BY <1>3 DEF SellAsset, PartialLiquidation, PartialClose, RepayToGoOn, RepayFinish
<1>4. CASE task \in {"FullLiquidation", "FullClose"}
  BY <1>4 DEF SellAsset, FullLiquidation, FullClose, RepayToClose
<1>5. CASE task = "ClosingTransferIn"
  BY <1>5 DEF ClosingTransferIn
<1> QED
  BY <1>1, <1>2, <1>3, <1>4, <1>5
     DEF SwapTasks, RemoteOutTasks, LocalOutTasks, SaleTasks

(***************************************************************************)
(* A lease that is over has nothing to come, and the others go to states   *)
(* of a lease only.                                                        *)
(***************************************************************************)
LEMMA SuccessorsAreLeases ==
    ASSUME NEW state \in Leases, NEW next \in Lifecycle!Successors[state]
    PROVE  next \in Leases /\ state \notin FinalStates
BY DEF Leases, FinalStates, SwapTasks, RemoteOutTasks, LocalOutTasks, SaleTasks,
       Lifecycle!Successors, Lifecycle!AfterPayment

(***************************************************************************)
(* The tasks that end the lease are the ones that notify the leaser, each  *)
(* with one message; the others neither end it nor notify.                 *)
(***************************************************************************)
LEMMA TasksNotify ==
    ASSUME NEW task \in SwapTasks, NEW state \in Task[task].finish
    PROVE  Task[task].finalizer_msgs = IF state \in FinalStates THEN 1 ELSE 0
<1> USE DEF Task, FinalStates
<1>1. CASE task = "BuyAsset"
  BY <1>1 DEF BuyAsset, BuyAssetFinish
<1>2. CASE task = "BuyLpn"
  BY <1>2 DEF BuyLpn, RepayFinish
<1>3. CASE task \in {"PartialLiquidation", "PartialClose"}
  BY <1>3 DEF SellAsset, PartialLiquidation, PartialClose, RepayToGoOn, RepayFinish
<1>4. CASE task \in {"FullLiquidation", "FullClose"}
  BY <1>4 DEF SellAsset, FullLiquidation, FullClose, RepayToClose
<1>5. CASE task = "ClosingTransferIn"
  BY <1>5 DEF ClosingTransferIn
<1> QED
  BY <1>1, <1>2, <1>3, <1>4, <1>5
     DEF SwapTasks, RemoteOutTasks, LocalOutTasks, SaleTasks

(***************************************************************************)
(* Outside of a swap nothing ends a lease.                                 *)
(***************************************************************************)
LEMMA OnlyTasksEnd ==
    ASSUME NEW state \in Leases, state \notin SwapTasks,
           NEW next \in Lifecycle!Successors[state]
    PROVE  next \notin FinalStates
BY DEF Leases, FinalStates, SwapTasks, RemoteOutTasks, LocalOutTasks, SaleTasks,
       Lifecycle!Successors, Lifecycle!AfterPayment

(***************************************************************************)
(* Entering a state that may come next, the leaser notified of the last.   *)
(***************************************************************************)
LEMMA EnterIsSound ==
    ASSUME StateInv, NEW next \in Lifecycle!Successors[at],
           NEW left \in 0 .. MaxPackets, Enter(next, left),
           notified' = notified + IF next \in FinalStates THEN 1 ELSE 0
    PROVE  Sound
<1>1. next \in Leases /\ at \notin FinalStates
  BY SuccessorsAreLeases DEF StateInv
<1>2. /\ at' = next
      /\ swap' = IF next \in SwapTasks THEN Task[next].start ELSE NoSwap
      /\ packets' = Sent(left, swap') /\ packets' <= MaxPackets
  BY DEF Enter
<1>3. packets' \in 0 .. MaxPackets
  BY <1>2, ContractAssumption DEF Sent
<1>4. notified' = IF at' \in FinalStates THEN 1 ELSE 0
  BY <1>1, <1>2 DEF StateInv
<1>5. /\ at' \notin SwapTasks => swap' = NoSwap
      /\ at' \in SwapTasks => swap' \in SwapsIn(TaskStates(at'))
  BY <1>2, TasksBegin
<1> QED
  BY <1>1, <1>2, <1>3, <1>4, <1>5 DEF Sound, StateInv, Lifecycle!Next

LEMMA NoSwapThere ==
    /\ "Init" \notin SwapTasks /\ "OpenedActive" \notin SwapTasks
    /\ "PaidActive" \notin SwapTasks
BY DEF SwapTasks, RemoteOutTasks, LocalOutTasks, SaleTasks

LEMMA GoIsSound ==
    ASSUME StateInv, at \notin SwapTasks, NEW next \in Lifecycle!Successors[at],
           NEW left \in 0 .. MaxPackets, Go(next, left)
    PROVE  Sound
<1>1. next \notin FinalStates /\ notified \in Nat
  BY OnlyTasksEnd DEF StateInv
<1>2. Enter(next, left) /\ notified' = notified + IF next \in FinalStates THEN 1 ELSE 0
  BY <1>1 DEF Go
<1> QED
  BY <1>2, EnterIsSound

(***************************************************************************)
(* The swap goes on, or past its finish.                                   *)
(***************************************************************************)
LEMMA AdvanceIsSound ==
    ASSUME StateInv, at \in SwapTasks, NEW msg \in Handed,
           NEW next \in AnswerTo(msg) \cup CallTo(msg),
           NEW left \in 0 .. MaxPackets, Advance(next, left)
    PROVE  Sound
<1>1. CASE next = Finished
  <2>1. PICK state \in Task[at].finish : Enter(state, left)
    BY <1>1 DEF Advance, Finish
  <2>2. state \in Lifecycle!Successors[at]
    BY <2>1, TasksFinish
  <2>3. notified' = notified + IF state \in FinalStates THEN 1 ELSE 0
    BY <1>1, <2>1, TasksNotify DEF Advance, Finish
  <2> QED
    BY <2>1, <2>2, <2>3, EnterIsSound
<1>2. CASE next # Finished
  <2>1. /\ swap' = next /\ packets' = Sent(left, next) /\ packets' <= MaxPackets
        /\ at' = at /\ notified' = notified
    BY <1>2 DEF Advance
  <2>2. next \in SwapsIn(TaskStates(at))
    BY <1>2, TaskKeepsStates DEF StateInv
  <2>3. packets' \in 0 .. MaxPackets
    BY <2>1, ContractAssumption DEF Sent
  <2> QED
    BY <2>1, <2>2, <2>3 DEF Sound, StateInv
<1> QED
  BY <1>1, <1>2

----------------------------------------------------------------------------
(* The calls *)

(***************************************************************************)
(* A call that the swap handles or refuses.                                *)
(***************************************************************************)
LEMMA SwapCallIsSound ==
    ASSUME StateInv, at \in SwapTasks, NEW msg \in Handed, NEW from,
           SwapCall(msg, from, CallTo(msg), packets)
    PROVE  Sound
<1>1. CASE \E next \in CallTo(msg) : Advance(next, packets)
  BY <1>1, AdvanceIsSound DEF StateInv
<1>2. CASE Refuse(msg, from)
  BY <1>2, SameIsSound DEF Refuse
<1> QED
  BY <1>1, <1>2 DEF SwapCall

(***************************************************************************)
(* What a payment, a close or an alarm leads an opened lease to may come   *)
(* past an opened one.                                                     *)
(***************************************************************************)
LEMMA FromOpened ==
    RepayFinish \cup {"BuyLpn"} \cup CustomerClose \cup StartSwap
        \subseteq Lifecycle!Successors["OpenedActive"]
BY DEF RepayFinish, CustomerClose, StartSwap, Lifecycle!Successors,
       Lifecycle!AfterPayment

LEMMA GoFromOpened ==
    ASSUME StateInv, at = "OpenedActive",
           NEW next \in RepayFinish \cup {"BuyLpn"} \cup CustomerClose \cup StartSwap,
           Go(next, packets)
    PROVE  Sound
BY FromOpened, NoSwapThere, GoIsSound DEF StateInv

LEMMA TryOnAlarmIsSound ==
    ASSUME StateInv, at = "OpenedActive", NEW msg, NEW from, TryOnAlarm(msg, from)
    PROVE  Sound
<1>1. CASE \E next \in StartSwap : Go(next, packets)
  BY <1>1, GoFromOpened
<1>2. CASE UNCHANGED <<at, swap, packets, notified>>
  BY <1>2, SameIsSound
<1> QED
  BY <1>1, <1>2 DEF TryOnAlarm

(***************************************************************************)
(* Every call of ExecuteMsg.                                               *)
(***************************************************************************)
LEMMA ExecuteIsSound ==
    ASSUME StateInv, NEW from \in Senders, Execute(from)
    PROVE  Sound
<1>1. CASE Repay(from)
  <2>1. CASE at = "OpenedActive"
                /\ \E next \in RepayFinish \cup {"BuyLpn"} : Go(next, packets)
    BY <2>1, GoFromOpened
  <2>2. CASE Refuse("Repay", from)
    BY <2>2, SameIsSound DEF Refuse
  <2> QED
    BY <1>1, <2>1, <2>2 DEF Repay
<1>2. CASE ChangeClosePolicy(from)
  BY <1>2, SameIsSound DEF ChangeClosePolicy, Refuse
<1>3. CASE ClosePosition(from)
  <2>1. CASE at = "OpenedActive" /\ \E next \in CustomerClose : Go(next, packets)
    BY <2>1, GoFromOpened
  <2>2. CASE Refuse("ClosePosition", from)
    BY <2>2, SameIsSound DEF Refuse
  <2> QED
    BY <1>3, <2>1, <2>2 DEF ClosePosition
<1>4. CASE Close(from)
  <2>1. CASE at = "PaidActive" /\ Go("ClosingTransferIn", packets)
    <3>1. "ClosingTransferIn" \in Lifecycle!Successors[at]
      BY <2>1 DEF Lifecycle!Successors
    <3> QED
      BY <2>1, <3>1, NoSwapThere, GoIsSound DEF StateInv
  <2>2. CASE Refuse("Close", from)
    BY <2>2, SameIsSound DEF Refuse
  <2> QED
    BY <1>4, <2>1, <2>2 DEF Close
<1>5. CASE TimeAlarm(from)
  <2>1. CASE at = "OpenedActive" /\ TryOnAlarm("TimeAlarm", from)
    BY <2>1, TryOnAlarmIsSound
  <2>2. CASE Refuse("TimeAlarm", from) \/ IgnoreMsg("TimeAlarm", from)
    BY <2>2, SameIsSound DEF Refuse, IgnoreMsg
  <2>3. CASE /\ at \in SwapTasks
             /\ SwapCall("TimeAlarm", from, CallTo("TimeAlarm"), packets)
    BY <2>3, SwapCallIsSound DEF Handed
  <2> QED
    BY <1>5, <2>1, <2>2, <2>3 DEF TimeAlarm
<1>6. CASE PriceAlarm(from)
  <2>1. CASE at = "OpenedActive" /\ TryOnAlarm("PriceAlarm", from)
    BY <2>1, TryOnAlarmIsSound
  <2>2. CASE Refuse("PriceAlarm", from) \/ IgnoreMsg("PriceAlarm", from)
    BY <2>2, SameIsSound DEF Refuse, IgnoreMsg
  <2> QED
    BY <1>6, <2>1, <2>2 DEF PriceAlarm
<1>7. CASE DexCallback(from)
  BY <1>7, SameIsSound DEF DexCallback, Refuse
<1>8. CASE Heal(from)
  <2>1. CASE ActiveHeal
    BY <2>1, GoFromOpened DEF ActiveHeal
  <2>2. CASE ClosedHeal \/ LiquidatedHeal \/ Refuse("Heal", from)
    BY <2>2, SameIsSound DEF ClosedHeal, LiquidatedHeal, Refuse
  <2>3. CASE /\ at \in SwapTasks
             /\ SwapCall("Heal", from, CallTo("Heal"), packets)
    BY <2>3, SwapCallIsSound DEF Handed
  <2> QED
    BY <1>8, <2>1, <2>2, <2>3 DEF Heal
<1> QED
  BY <1>1, <1>2, <1>3, <1>4, <1>5, <1>6, <1>7, <1>8 DEF Execute

(***************************************************************************)
(* The lease gets instantiated, and the network answers.                   *)
(***************************************************************************)
LEMMA InstantiateIsSound ==
    ASSUME StateInv, Instantiate
    PROVE  Sound
<1>1. at = "Init" /\ Go("BuyAsset", packets)
  BY DEF Instantiate, RequestLoanReply
<1>2. "BuyAsset" \in Lifecycle!Successors[at]
  BY <1>1 DEF Lifecycle!Successors
<1> QED
  BY <1>1, <1>2, NoSwapThere, GoIsSound DEF StateInv

LEMMA SudoIsSound ==
    ASSUME StateInv, NEW msg \in Answers, Sudo(msg)
    PROVE  Sound
<1>1. packets - 1 \in 0 .. MaxPackets
  BY ContractAssumption DEF Sudo, StateInv
<1>2. CASE /\ at \in SwapTasks
           /\ \E next \in AnswerTo(msg) : Advance(next, packets - 1)
  BY <1>1, <1>2, AdvanceIsSound DEF Handed
<1>3. CASE packets' = packets - 1 /\ UNCHANGED <<at, swap, notified>>
  BY <1>1, <1>3 DEF Sound, StateInv
<1> QED
  BY <1>2, <1>3 DEF Sudo

(***************************************************************************)
(* What the steps tell of the calls.                                       *)
(***************************************************************************)
LEMMA NextCalls ==
    ASSUME Next
    PROVE  CallInv'
<1>1. ASSUME NEW msg \in Calls, NEW from \in Senders \cup {Network},
             NEW result \in {"Ok", "Refused", "Ignored"}, Outcome(msg, from, result)
      PROVE  CallInv'
  BY <1>1 DEF Outcome, CallInv
<1>2. CASE Instantiate
  BY <1>1, <1>2 DEF Instantiate, Calls, Senders
<1>3. ASSUME NEW msg \in Answers, Sudo(msg)
      PROVE  CallInv'
  BY <1>1, <1>3 DEF Sudo, Calls
<1>4. ASSUME NEW from \in Senders, Execute(from)
      PROVE  CallInv'
  <2>1. \E msg \in Calls, result \in {"Ok", "Refused", "Ignored"} :
            Outcome(msg, from, result)
    BY <1>4 DEF Execute, Repay, ChangeClosePolicy, ClosePosition, Close, TimeAlarm,
                PriceAlarm, DexCallback, Heal, TryOnAlarm, SwapCall, Refuse,
                IgnoreMsg, Calls
  <2> QED
    BY <1>1, <2>1
<1> QED
  BY <1>2, <1>3, <1>4 DEF Next

LEMMA NextIsSound ==
    ASSUME StateInv, [Next]_vars
    PROVE  Sound
<1>1. CASE Instantiate
  BY <1>1, InstantiateIsSound
<1>2. CASE \E from \in Senders : Execute(from)
  BY <1>2, ExecuteIsSound
<1>3. CASE \E msg \in Answers : Sudo(msg)
  BY <1>3, SudoIsSound
<1>4. CASE UNCHANGED vars
  BY <1>4, SameIsSound DEF vars
<1> QED
  BY <1>1, <1>2, <1>3, <1>4 DEF Next

----------------------------------------------------------------------------
(* The theorems *)

(***************************************************************************)
(* The invariant is one: whatever the callers and the network do, each     *)
(* task of a lease keeps to its part of the states of a swap.              *)
(***************************************************************************)
THEOREM Invariance == Spec => []ContractInv
<1>1. Init => ContractInv
  BY ContractAssumption
     DEF Init, ContractInv, StateInv, CallInv, Leases, SwapTasks, RemoteOutTasks,
         LocalOutTasks, SaleTasks, FinalStates, Calls, Senders
<1>2. ContractInv /\ [Next]_vars => ContractInv'
  BY NextIsSound, NextCalls DEF ContractInv, Sound, CallInv, vars
<1> QED
  BY <1>1, <1>2, PTL DEF Spec

(***************************************************************************)
(* The types of the contract's state.                                      *)
(***************************************************************************)
THEOREM TypeCorrect == Spec => []TypeOK
<1>1. ContractInv => TypeOK
  <2> SUFFICES ASSUME ContractInv PROVE TypeOK
    OBVIOUS
  <2>1. CASE at \in RemoteOutTasks
    BY <2>1 DEF ContractInv, StateInv, CallInv, TypeOK, Leases, SwapTasks, SwapsIn,
                TaskStates, SaleTasks, RemoteOutTasks
  <2>2. CASE at \in LocalOutTasks
    <3>1. TaskStates(at) \subseteq OutLocalStates
      BY <2>2 DEF TaskStates, LocalOutTasks, SaleTasks, OutLocalStates
    <3> QED
      BY <2>2, <3>1 DEF ContractInv, StateInv, CallInv, TypeOK, Leases, SwapTasks,
                        SwapsIn
  <2>3. CASE at \notin SwapTasks
    BY <2>3 DEF ContractInv, StateInv, CallInv, TypeOK, Leases
  <2> QED
    BY <2>1, <2>2, <2>3 DEF SwapTasks
<1> QED
  BY <1>1, Invariance, PTL

(***************************************************************************)
(* No query stops at `unreachable!`, InProgressTrx of SellAsset and of     *)
(* TransferIn, and it tells of something in progress just while a swap is. *)
(***************************************************************************)
THEOREM QueriesAnswered == Spec => []QueryAnswers
<1>1. ContractInv => QueryAnswers
  <2> SUFFICES ASSUME StateInv PROVE QueryAnswers
    BY DEF ContractInv
  <2> USE DEF StateInv
  <2>1. ASSUME at \in SwapTasks
        PROVE  swap.in \in TaskStates(at) /\ swap.in # "None" /\ swap # NoSwap
    BY <2>1 DEF SwapsIn, TaskStates, NoSwap, Swap, OutLocalStates, OutRemoteStates,
                SwapTasks, RemoteOutTasks, LocalOutTasks, SaleTasks
  <2>2. CASE at = "BuyAsset"
    <3>1. StateResponse.in_progress = OpeningTrx(swap.in)
      BY <2>2 DEF StateResponse, SaleTasks, FinalStates
    <3>2. swap.in \in OutRemoteStates /\ swap # NoSwap
      BY <2>1, <2>2 DEF TaskStates, SaleTasks, SwapTasks, RemoteOutTasks
    <3> QED
      BY <3>1, <3>2 DEF QueryAnswers, Unreachable, OpeningTrx, OutRemoteStates
  <2>3. CASE at = "BuyLpn"
    <3>1. StateResponse.in_progress = RepayTrx(swap.in)
      BY <2>3 DEF StateResponse, SaleTasks, FinalStates
    <3>2. swap.in \in OutLocalStates /\ swap # NoSwap
      BY <2>1, <2>3 DEF TaskStates, SaleTasks, SwapTasks, LocalOutTasks
    <3> QED
      BY <3>1, <3>2 DEF QueryAnswers, Unreachable, RepayTrx, OutLocalStates
  <2>4. CASE at \in SaleTasks
    <3>1. StateResponse.in_progress = PositionCloseTrx(swap.in)
      BY <2>4 DEF StateResponse, SaleTasks, FinalStates
    <3>2. swap.in \in OutLocalStates \ {"TransferOut"} /\ swap # NoSwap
      BY <2>1, <2>4 DEF TaskStates, SaleTasks, SwapTasks, LocalOutTasks
    <3> QED
      BY <3>1, <3>2 DEF QueryAnswers, Unreachable, PositionCloseTrx, OutLocalStates
  <2>5. CASE at = "ClosingTransferIn"
    <3>1. StateResponse.in_progress = ClosingTrx(swap.in)
      BY <2>5 DEF StateResponse, SaleTasks, FinalStates
    <3>2. swap.in \in {"TransferInInit", "TransferInFinish"} /\ swap # NoSwap
      BY <2>1, <2>5 DEF TaskStates, SaleTasks, SwapTasks, LocalOutTasks
    <3> QED
      BY <3>1, <3>2 DEF QueryAnswers, Unreachable, ClosingTrx
  <2>6. CASE at \notin SwapTasks
    BY <2>6 DEF QueryAnswers, StateResponse, Unreachable, Leases, FinalStates,
                SwapTasks, RemoteOutTasks, LocalOutTasks, SaleTasks
  <2> QED
    BY <2>2, <2>3, <2>4, <2>5, <2>6 DEF SwapTasks, RemoteOutTasks, LocalOutTasks
<1> QED
  BY <1>1, Invariance, PTL

(***************************************************************************)
(* The leaser is told of the end of a lease once, with the step that ends  *)
(* it.                                                                     *)
(***************************************************************************)
THEOREM NotifiedOnce == Spec => []LeaserNotifiedOnce
<1>1. ContractInv => LeaserNotifiedOnce
  BY DEF ContractInv, StateInv, LeaserNotifiedOnce
<1> QED
  BY <1>1, Invariance, PTL

(***************************************************************************)
(* The contract implements the lifecycle that module LeaseLifecycle        *)
(* promises: a step of the contract is one of the lifecycle or none.       *)
(***************************************************************************)
THEOREM ImplementsLifecycle == Spec => LifecycleKept
<1>1. Init => Lifecycle!Init
  BY DEF Init, Lifecycle!Init
<1>2. ContractInv /\ [Next]_vars => [Lifecycle!Next]_at
  BY NextIsSound DEF ContractInv, Sound
<1> QED
  BY <1>1, <1>2, Invariance, PTL DEF Spec, LifecycleKept, Lifecycle!Spec

(***************************************************************************)
(* A stranger may repay, have the lease account for what it has received,  *)
(* or have a swap retried, and nothing else.                               *)
(***************************************************************************)
THEOREM StrangersRetry == Spec => StrangersOnlyRetry
<1> DEFINE Kept == call'.from \in Strangers /\ call'.result = "Ok" =>
                      \/ call'.msg = "Repay"
                      \/ call'.msg = "Heal"
                      \/ call'.msg = "TimeAlarm" /\ swap.in # "None"
<1>1. ContractInv /\ [Next]_vars => [Kept]_vars
  <2> SUFFICES ASSUME StateInv, Next PROVE Kept
    BY DEF ContractInv
  <2>1. CASE Instantiate \/ \E msg \in Answers : Sudo(msg)
    BY <2>1, ContractAssumption DEF Instantiate, Sudo, Outcome
  <2>2. ASSUME NEW from \in Senders, Execute(from)
        PROVE  Kept
    <3>1. CASE Repay(from)
      BY <3>1 DEF Repay, Refuse, Outcome
    <3>2. CASE ChangeClosePolicy(from) \/ ClosePosition(from) \/ Close(from)
      BY <3>2, ContractAssumption
         DEF ChangeClosePolicy, ClosePosition, Close, Refuse, Outcome
    <3>3. CASE TimeAlarm(from)
      <4>1. ASSUME at \in SwapTasks PROVE swap.in # "None"
        BY <4>1 DEF StateInv, SwapsIn, TaskStates, OutLocalStates, OutRemoteStates,
                    SwapTasks, RemoteOutTasks, LocalOutTasks, SaleTasks
      <4> QED
        BY <3>3, <4>1, ContractAssumption
           DEF TimeAlarm, TryOnAlarm, SwapCall, IgnoreMsg, Refuse, Outcome
    <3>4. CASE PriceAlarm(from)
      BY <3>4, ContractAssumption
         DEF PriceAlarm, TryOnAlarm, IgnoreMsg, Refuse, Outcome
    <3>5. CASE DexCallback(from)
      BY <3>5 DEF DexCallback, Refuse, Outcome
    <3>6. CASE Heal(from)
      BY <3>6 DEF Heal, SwapCall, Refuse, Outcome
    <3> QED
      BY <2>2, <3>1, <3>2, <3>3, <3>4, <3>5, <3>6 DEF Execute
  <2> QED
    BY <2>1, <2>2 DEF Next
<1> QED
  BY <1>1, Invariance, PTL DEF Spec, StrangersOnlyRetry
=============================================================================
