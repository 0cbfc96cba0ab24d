---------------------------- MODULE PreviewStage ----------------------------
(***************************************************************************)
(* The stage that lets an effect be heard while it is adjusted             *)
(* (src/sa-engine/include/sa/engine/PreviewStage.h), with the equaliser's  *)
(* processor in it (EqPreview.h).                                          *)
(*                                                                         *)
(* The control thread publishes whole settings into a ParameterSlot, here  *)
(* the Mailbox it implements.  The audio thread collects them at the start *)
(* of a piece of a block and fades over to them, running two processors.   *)
(* A piece is one step: after its fetch it touches only its own state.     *)
(*                                                                         *)
(* Audio is abstracted to what it is made of: a sample says with which     *)
(* weight each setting, or the untouched signal, is heard in it.           *)
(***************************************************************************)
EXTENDS Naturals, Sequences

CONSTANTS
  Settings,        \* the processor's settings (designed coefficients)
  DefaultSettings, \* Settings{}
  Sections,        \* for each of Settings, its number of filter sections
  Dry,             \* the untouched signal, heard while bypassed
  NothingFresh,         \* the slot holds nothing fresh
  CrossfadeFrames, \* the crossfade lengths prepare() may compute
  BlockSizes,      \* the maxBlockFrames prepare() may be given
  MaxFrames,       \* bound: the longest block
  MaxRefused       \* bound: blocks of a wrong channel count

ASSUME SettingsAssumption ==
  /\ DefaultSettings \in Settings
  /\ Dry \notin Settings
  /\ Sections \in [Settings -> Nat]
ASSUME SizesAssumption ==
  /\ CrossfadeFrames \subseteq Nat \ {0}
  /\ BlockSizes \subseteq Nat \ {0}
  /\ MaxFrames \in Nat /\ MaxRefused \in Nat

Published == [processor : Settings, bypassed : BOOLEAN]
Path == Settings \union {Dry}

VARIABLES
  pending,         \* pending_, the control thread's mirror of what it published
  waiting,         \* the value in slot_ that has not been collected
  collected,       \* collected_, where fetch() puts a value
  stage,           \* the audio thread's state, see Stage
  prepared,        \* prepared_
  crossfadeFrames, \* crossfadeFrames_
  maxBlockFrames,  \* maxBlockFrames_
  left,            \* frames of the block in flight still to be processed
  refusedBlocks,   \* refusedBlocks_
  heard            \* the samples of the last piece, after the last one before it

previewVars == <<pending, waiting, collected, stage, prepared, crossfadeFrames,
          maxBlockFrames, left, refusedBlocks, heard>>

DefaultPublished == [processor |-> DefaultSettings, bypassed |-> TRUE]

slot_ == INSTANCE Mailbox WITH Value <- Published, Nothing <- NothingFresh,
                               Default <- DefaultPublished,
                               received <- collected

\* A processor: the settings it is configured with, and whether its filters
\* hold no state, the state of the audio just heard, or that of older audio.
Processor == [config : Settings, memory : {"rest", "current", "old"}]

Stage == [active : Published, target : Published, activeIndex : {0, 1},
          processors : [{0, 1} -> Processor], fadeRemaining : Nat,
          firstBlock : BOOLEAN]

Shorter(a, b) == IF a < b THEN a ELSE b

PreviewInit ==
  /\ pending = DefaultPublished
  /\ slot_!Init
  /\ stage = [active |-> DefaultPublished, target |-> DefaultPublished,
              activeIndex |-> 0,
              processors |-> [i \in {0, 1} |-> [config |-> DefaultSettings, memory |-> "rest"]],
              fadeRemaining |-> 0, firstBlock |-> TRUE]
  /\ prepared = FALSE
  /\ crossfadeFrames \in CrossfadeFrames
  /\ maxBlockFrames = 0
  /\ left = 0
  /\ refusedBlocks = 0
  /\ heard = <<>>
-----------------------------------------------------------------------------
(* reset(): clears filter state and adopts a change already collected.     *)

incomingIndex(s) == 1 - s.activeIndex

Cleared(p) == [p EXCEPT !.memory = "rest"]

\* A bug: the change being faded in is abandoned.
ResetStage_Abandons(s) ==
  [s EXCEPT !.fadeRemaining = 0, !.firstBlock = TRUE,
            !.processors = [i \in {0, 1} |-> Cleared(s.processors[i])]]

\* A bug: the settings are adopted but the processor that runs them is not.
ResetStage_KeepsIndex(s) ==
  [s EXCEPT !.active = IF s.fadeRemaining > 0 THEN s.target ELSE @,
            !.fadeRemaining = 0, !.firstBlock = TRUE,
            !.processors = [i \in {0, 1} |-> Cleared(s.processors[i])]]

ResetStage(s) ==
  [s EXCEPT !.active = IF s.fadeRemaining > 0 THEN s.target ELSE @,
            !.activeIndex = IF s.fadeRemaining > 0 THEN incomingIndex(s) ELSE @,
            !.fadeRemaining = 0,
            !.firstBlock = TRUE,
            !.processors = [i \in {0, 1} |-> Cleared(s.processors[i])]]

\* A seek: on the audio thread, or on the control thread between two blocks.
ResetPreview ==
  /\ left = 0
  /\ stage' = ResetStage(stage)
  /\ heard' = <<>>
  /\ UNCHANGED <<pending, waiting, collected, prepared, crossfadeFrames,
                 maxBlockFrames, left, refusedBlocks>>
-----------------------------------------------------------------------------
(* The control thread.                                                     *)

\* With no block in flight.  Whatever was published for the previous shape is
\* superseded.
Prepare(fade, blockFrames) ==
  /\ left = 0
  /\ crossfadeFrames' = fade
  /\ maxBlockFrames' = blockFrames
  /\ pending' = DefaultPublished
  /\ slot_!Publish(DefaultPublished)
  /\ prepared' = TRUE
  \* active_ is replaced before reset(), which a running fade then overrides.
  /\ stage' = ResetStage([stage EXCEPT !.active = DefaultPublished])
  /\ heard' = <<>>
  /\ UNCHANGED <<left, refusedBlocks>>

ControlUnchanged == UNCHANGED <<stage, prepared, crossfadeFrames, maxBlockFrames,
                                left, refusedBlocks, heard>>

\* publish(settings): bypass is left as it is.
PublishSettings(settings) ==
  /\ pending' = [pending EXCEPT !.processor = settings]
  /\ slot_!Publish(pending')
  /\ ControlUnchanged

SetBypassed(bypassed) ==
  /\ pending' = [pending EXCEPT !.bypassed = bypassed]
  /\ slot_!Publish(pending')
  /\ ControlUnchanged
-----------------------------------------------------------------------------
(* The audio thread.                                                       *)

\* configure(): the filters keep their state when their number does not change.
Configured(p, settings) ==
  [config |-> settings,
   memory |-> IF Sections[settings] = Sections[p.config] THEN p.memory ELSE "rest"]

\* takeUp(incoming): nothing, an outright adoption, or the start of a fade.
TakeUp(s, incoming) ==
  IF incoming = s.active THEN s
  ELSE IF s.firstBlock \/ (s.active.bypassed /\ incoming.bypassed) THEN
    [s EXCEPT !.active = incoming,
              !.processors[s.activeIndex] = Configured(Cleared(@), incoming.processor)]
  ELSE
    [s EXCEPT !.target = incoming,
              !.processors[incomingIndex(s)] =
                 Configured(s.processors[s.activeIndex], incoming.processor),
              !.fadeRemaining = crossfadeFrames]

\* What the active processor, and the incoming one, make of the signal.
ActivePath(s) == IF s.active.bypassed THEN Dry ELSE s.processors[s.activeIndex].config
IncomingPath(s) == IF s.target.bypassed THEN Dry ELSE s.processors[incomingIndex(s)].config

\* A sample in which the incoming path has `weight` and the active one the rest.
Mix(s, weight) ==
  [p \in Path |-> (IF p = ActivePath(s) THEN crossfadeFrames - weight ELSE 0)
                  + (IF p = IncomingPath(s) THEN weight ELSE 0)]

\* A processor that runs holds the state of what is heard; the state of one that
\* does not falls behind.
Ran(s, i) ==
  \/ i = s.activeIndex /\ ~s.active.bypassed
  \/ i = incomingIndex(s) /\ ~s.target.bypassed /\ s.fadeRemaining > 0
Aged(p) == IF p.memory = "current" THEN [p EXCEPT !.memory = "old"] ELSE p
Exercised(s) ==
  [s EXCEPT !.processors =
     [i \in {0, 1} |-> IF Ran(s, i) THEN [s.processors[i] EXCEPT !.memory = "current"]
                       ELSE Aged(s.processors[i])]]

\* The stage after `count` frames of crossfade, adopting the target at its end.
Faded(s, count) ==
  IF s.fadeRemaining = 0 THEN s
  ELSE IF s.fadeRemaining > count THEN [s EXCEPT !.fadeRemaining = @ - count]
  ELSE [s EXCEPT !.fadeRemaining = 0, !.activeIndex = incomingIndex(s), !.active = s.target]

Sound(s, count) ==
  [i \in 1..count |->
     IF i <= s.fadeRemaining THEN Mix(s, crossfadeFrames - s.fadeRemaining + i)
     ELSE Mix(Faded(s, count), 0)]

\* A bug: a change arriving during a fade is taken up at once.
CanCollect_MidFade == waiting # NothingFresh
CanCollect == stage.fadeRemaining = 0 /\ waiting # NothingFresh

LastOf(samples) == IF samples = <<>> THEN <<>> ELSE <<samples[Len(samples)]>>

\* processPiece(): collect a change unless one is being faded in, then run.
ProcessPiece(s) ==
  LET count == Shorter(maxBlockFrames, left)
      running == [s EXCEPT !.firstBlock = FALSE]
  IN /\ heard' = LastOf(heard) \o Sound(running, count)
     /\ stage' = Faded(Exercised(running), count)
     /\ left' = left - count
     /\ UNCHANGED <<pending, prepared, crossfadeFrames, maxBlockFrames, refusedBlocks>>

PieceWithChange ==
  /\ left > 0
  /\ CanCollect
  /\ slot_!Collect
  /\ ProcessPiece(TakeUp(stage, waiting))

PieceWithout ==
  /\ left > 0
  /\ ~CanCollect
  /\ ProcessPiece(stage)
  /\ UNCHANGED <<waiting, collected>>

ProcessBegin(frames) ==
  /\ prepared
  /\ left = 0
  /\ left' = frames
  /\ UNCHANGED <<pending, waiting, collected, stage, prepared, crossfadeFrames,
                 maxBlockFrames, refusedBlocks, heard>>

\* A block of another channel count passes through untouched and is counted.
ProcessRefused ==
  /\ prepared
  /\ left = 0
  /\ refusedBlocks < MaxRefused
  /\ refusedBlocks' = refusedBlocks + 1
  /\ stage' = [stage EXCEPT !.processors = [i \in {0, 1} |-> Aged(stage.processors[i])]]
  /\ heard' = <<>>
  /\ UNCHANGED <<pending, waiting, collected, prepared, crossfadeFrames,
                 maxBlockFrames, left>>
-----------------------------------------------------------------------------
Control ==
  \/ \E fade \in CrossfadeFrames, frames \in BlockSizes : Prepare(fade, frames)
  \/ \E settings \in Settings : PublishSettings(settings)
  \/ \E bypassed \in BOOLEAN : SetBypassed(bypassed)

Process ==
  \/ \E frames \in 1..MaxFrames : ProcessBegin(frames)
  \/ PieceWithChange
  \/ PieceWithout

PreviewNext == Control \/ Process \/ ProcessRefused \/ ResetPreview

PreviewSpec == PreviewInit /\ [][PreviewNext]_previewVars

(* While the stream runs the device asks for block after block.            *)
PreviewFairness == WF_previewVars(Process)
-----------------------------------------------------------------------------
\* Every variable keeps its type, and a fade is never longer than a crossfade.
PreviewTypeOK ==
  /\ pending \in Published
  /\ waiting \in Published \union {NothingFresh}
  /\ collected \in Published
  /\ stage \in Stage
  /\ stage.fadeRemaining <= crossfadeFrames
  /\ prepared \in BOOLEAN
  /\ crossfadeFrames \in CrossfadeFrames
  /\ maxBlockFrames \in BlockSizes \union {0}
  /\ left \in 0..MaxFrames
  /\ refusedBlocks \in 0..MaxRefused
  /\ heard \in Seq([Path -> Nat])

Apart(a, b) == IF a > b THEN a - b ELSE b - a

\* No click: from one sample to the next no setting's weight moves by more than
\* one part of the crossfade, within a piece and from piece to piece, however
\* the changes and the bypass arrive.
NoStepInOutput ==
  \A k \in 1..(Len(heard) - 1) : \A p \in Path : Apart(heard[k][p], heard[k + 1][p]) <= 1

\* Outside a fade, what is heard is exactly what the stage says is active: the
\* processor that runs is configured with those settings, and bypassed means the
\* input, bit for bit.
PlaysTheActiveSettings ==
  stage.fadeRemaining = 0 /\ heard # <<>> =>
    LET path == IF stage.active.bypassed THEN Dry ELSE stage.active.processor
    IN heard[Len(heard)] = [p \in Path |-> IF p = path THEN crossfadeFrames ELSE 0]

\* A curve is heard whole or on its way to the next, and never anything else.
CurvesPlayWhole == NoStepInOutput /\ PlaysTheActiveSettings

\* A drag faster than the fade still converges: once the user stops, the stage
\* ends up with the settings published last, whatever fades and seeks came
\* between.
Converges ==
  \A value \in Published :
    <>[](prepared /\ pending = value) => <>[](stage.active = value /\ stage.fadeRemaining = 0)
=============================================================================
