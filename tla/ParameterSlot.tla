---------------------------- MODULE ParameterSlot ----------------------------
(***************************************************************************)
(* The triple buffer that carries the latest value of an effect's settings *)
(* from the UI thread to the audio callback                                *)
(* (src/sa-engine/include/sa/engine/ParameterSlot.h).                      *)
(*                                                                         *)
(* Each thread owns the index of one slot; the third slot is named by      *)
(* state_, together with a bit that says whether it has been collected.    *)
(* Both sides swap their slot for the published one with one atomic        *)
(* exchange.  A value is several machine words, copied one at a time and   *)
(* in any order, so that a slot written while it is read would be seen as  *)
(* a torn value.                                                           *)
(*                                                                         *)
(* fetch() first looks at state_ with a relaxed load, which may return an  *)
(* old value: `freshSeen` is what that load returns, and it catches up at  *)
(* an arbitrary moment (SeePublish).  The exchanges always act on the      *)
(* newest state_, and being acquire and release they order the copies, so  *)
(* the contents of a slot need no view of their own.                       *)
(***************************************************************************)
EXTENDS Naturals

CONSTANTS
  Value,    \* the values that can be published
  Default,  \* a default-constructed T
  Word,     \* the words a T is copied in
  Nothing   \* for the mailbox: no value is waiting

ASSUME DefaultAssumption == Default \in Value
ASSUME NothingAssumption == Nothing \notin Value
ASSUME WordAssumption == Word # {}

VARIABLES
  slots,        \* slots_: for every slot, the value each of its words comes from
  writeSlot,    \* writeSlot_, the writer's
  readSlot,     \* readSlot_, the reader's
  state,        \* state_: a slot, plus kFreshBit when nobody has collected it
  freshSeen,    \* what the reader's relaxed load of the fresh bit returns
  writer,       \* the writer: where it is in publish(), its value and the words left
  reader,       \* the reader: where it is in fetch() and the words left
  destination   \* the object fetch() copies into

slotVars == <<slots, writeSlot, readSlot, state, freshSeen, writer, reader, destination>>

Slot == 0..2
kFreshBit == 4
kInitialPublished == 2
kSlotMask(word) == word % 4
IsFresh(word) == word >= kFreshBit

\* A value of which every word is `value`'s.
Whole(value) == [w \in Word |-> value]

SlotInit ==
  /\ slots = [s \in Slot |-> Whole(Default)]
  /\ writeSlot = 0
  /\ readSlot = 1
  /\ state = kInitialPublished
  /\ freshSeen = FALSE
  /\ writer = [pc |-> "idle", value |-> Default, left |-> {}]
  /\ reader = [pc |-> "idle", left |-> {}]
  /\ destination = Whole(Default)
-----------------------------------------------------------------------------
(* publish(value), on the UI thread.                                       *)

PublishBegin(value) ==
  /\ writer.pc = "idle"
  /\ writer' = [pc |-> "copy", value |-> value, left |-> Word]
  /\ UNCHANGED <<slots, writeSlot, readSlot, state, freshSeen, reader, destination>>

PublishCopy(w) ==
  /\ writer.pc = "copy"
  /\ w \in writer.left
  /\ slots' = [slots EXCEPT ![writeSlot][w] = writer.value]
  /\ writer' = [writer EXCEPT !.left = @ \ {w}]
  /\ UNCHANGED <<writeSlot, readSlot, state, freshSeen, reader, destination>>

PublishExchange ==
  /\ writer.pc = "copy"
  /\ writer.left = {}
  /\ state' = writeSlot + kFreshBit
  /\ writeSlot' = kSlotMask(state)
  /\ writer' = [writer EXCEPT !.pc = "idle"]
  /\ UNCHANGED <<slots, readSlot, freshSeen, reader, destination>>
-----------------------------------------------------------------------------
(* fetch(destination), on the audio thread.  A call that does not see the  *)
(* fresh bit returns false and changes nothing.                            *)

\* A bug: the fresh bit is not looked at, so an old value is collected again.
FetchBegin_Unchecked ==
  /\ reader.pc = "idle"
  /\ reader' = [reader EXCEPT !.pc = "exchange"]
  /\ UNCHANGED <<slots, writeSlot, readSlot, state, freshSeen, writer, destination>>

FetchBegin ==
  /\ reader.pc = "idle"
  /\ freshSeen
  /\ reader' = [reader EXCEPT !.pc = "exchange"]
  /\ UNCHANGED <<slots, writeSlot, readSlot, state, freshSeen, writer, destination>>

\* A bug: the published slot is read where it is, and stays published.
FetchExchange_NoSwap ==
  /\ reader.pc = "exchange"
  /\ state' = kSlotMask(state)
  /\ readSlot' = kSlotMask(state)
  /\ freshSeen' = FALSE
  /\ reader' = [pc |-> "copy", left |-> Word]
  /\ UNCHANGED <<slots, writeSlot, writer, destination>>

\* The reader sees its own exchange, so its view is up to date after it.
FetchExchange ==
  /\ reader.pc = "exchange"
  /\ state' = readSlot
  /\ readSlot' = kSlotMask(state)
  /\ freshSeen' = FALSE
  /\ reader' = [pc |-> "copy", left |-> Word]
  /\ UNCHANGED <<slots, writeSlot, writer, destination>>

FetchCopy(w) ==
  /\ reader.pc = "copy"
  /\ w \in reader.left
  /\ destination' = [destination EXCEPT ![w] = slots[readSlot][w]]
  /\ reader' = [reader EXCEPT !.left = @ \ {w}]
  /\ UNCHANGED <<slots, writeSlot, readSlot, state, freshSeen, writer>>

FetchReturn ==
  /\ reader.pc = "copy"
  /\ reader.left = {}
  /\ reader' = [reader EXCEPT !.pc = "idle"]
  /\ UNCHANGED <<slots, writeSlot, readSlot, state, freshSeen, writer, destination>>

SeePublish ==
  /\ freshSeen # IsFresh(state)
  /\ freshSeen' = IsFresh(state)
  /\ UNCHANGED <<slots, writeSlot, readSlot, state, writer, reader, destination>>
-----------------------------------------------------------------------------
Publish == (\E value \in Value : PublishBegin(value))
           \/ (\E w \in Word : PublishCopy(w)) \/ PublishExchange
Fetch == FetchBegin \/ FetchExchange \/ (\E w \in Word : FetchCopy(w)) \/ FetchReturn

SlotNext == Publish \/ Fetch \/ SeePublish

SlotSpec == SlotInit /\ [][SlotNext]_slotVars

(* The audio callback calls fetch() on every block and a call always       *)
(* returns; a store to state_ becomes visible in finite time; a publish    *)
(* that has begun ends.  The user may stop publishing, so nothing makes a  *)
(* publish begin.                                                          *)
SlotFairness ==
  /\ WF_slotVars(Fetch)
  /\ WF_slotVars(SeePublish)
  /\ WF_slotVars((\E w \in Word : PublishCopy(w)) \/ PublishExchange)
-----------------------------------------------------------------------------
\* Every variable keeps its type.
SlotTypeOK ==
  /\ slots \in [Slot -> [Word -> Value]]
  /\ writeSlot \in Slot
  /\ readSlot \in Slot
  /\ state \in Slot \union {kFreshBit + s : s \in Slot}
  /\ freshSeen \in BOOLEAN
  /\ writer \in [pc : {"idle", "copy"}, value : Value, left : SUBSET Word]
  /\ reader \in [pc : {"idle", "exchange", "copy"}, left : SUBSET Word]
  /\ destination \in [Word -> Value]

\* The writer's slot, the reader's slot and the slot named by state_ are always
\* a permutation of {0, 1, 2}: no slot is written and read at the same time.
SlotsArePermuted ==
  /\ writeSlot # readSlot
  /\ kSlotMask(state) # writeSlot
  /\ kSlotMask(state) # readSlot

\* Between two fetches the destination holds one published value, never words
\* of two of them, whatever the writer did while it was copied.
NoTornValue == reader.pc # "copy" => \E value \in Value : destination = Whole(value)

(* The mailbox this implements.  A publish takes effect at its exchange,   *)
(* and so does a fetch, although the copy comes after it.                  *)
ValueOf(content) == CHOOSE value \in Value : content = Whole(value)
Waiting == IF IsFresh(state) THEN ValueOf(slots[kSlotMask(state)]) ELSE Nothing
Received == ValueOf(IF reader.pc = "copy" THEN slots[readSlot] ELSE destination)

Box == INSTANCE Mailbox WITH waiting <- Waiting, received <- Received

\* publish() and fetch() are a mailbox that keeps the newest value: a fetch
\* returns what was published last, whole, and only once.
ImplementsMailbox == Box!Spec

\* Once the user lets go of the control, the callback ends up with the value
\* published last.  The published slot is the newest one while it is fresh, the
\* reader's own slot afterwards.
\* The words of `value` are the last the writer published, and it is at rest.
AtRestWith(value) == writer.pc = "idle" /\ writer.value = value
LastValueArrives ==
  \A value \in Value :
    <>[]AtRestWith(value) => <>[](destination = Whole(value))
=============================================================================
