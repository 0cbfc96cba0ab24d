---------------------------- MODULE DeviceManager -----------------------------
(* Opening a device (sa-device: AudioDeviceManager): the list that was taken   *)
(* when the backends were last asked, devices that come, go and refuse between *)
(* two attempts, and the order in which openOrFallback tries them. Rates are   *)
(* ordered as their logarithms are, so that the distance between two of them   *)
(* is the one the code takes.                                                  *)
EXTENDS Integers, Sequences, FiniteSets, FiniteSetsExt, SequencesExt

CONSTANTS
  Lists,           \* what the backends may find, in the order they give it
  NullId,          \* the null device's, which always opens
  Asked,           \* the configurations asked for
  kMinBufferFrames, kMaxBufferFrames, kDefaultBufferFrames, kSampleRate48000

VARIABLES
  connected,       \* the devices there are, in the order the backends give them
  willing,         \* those of them whose driver would open them now
  devices,         \* devices_
  call             \* the call in progress: what it was given, tried and got

NoRate == 0
ASSUME ListsAssumption ==
  \A list \in Lists :
    /\ list \in Seq([id : STRING \ {""}, inputs : Nat, outputs : Nat, rates : Seq(Int \ {NoRate}), block : Int, isDefault : BOOLEAN])
    /\ \A i, j \in DOMAIN list : list[i].id = list[j].id => i = j
    /\ \A i \in DOMAIN list : list[i].id = NullId => list[i].outputs > 0
ASSUME AskedAssumption == Asked \subseteq [rate : Int, inputs : Nat, outputs : Nat, block : Int]
ASSUME FramesAssumption == /\ {kMinBufferFrames, kMaxBufferFrames, kDefaultBufferFrames} \subseteq Int
                           /\ kMinBufferFrames <= kMaxBufferFrames

managerVars == <<connected, willing, devices, call>>
NoCall == [stage |-> "none"]
-------------------------------------------------------------------------------
(* What a device can be asked for.                                             *)

clampChannels(requested, available) == Max({0, Min({requested, available})})
clampBufferFrames(requested, deviceDefault) ==
  LET frames == CASE requested > 0 -> requested
                  [] requested <= 0 /\ deviceDefault > 0 -> deviceDefault
                  [] OTHER -> kDefaultBufferFrames
  IN Max({kMinBufferFrames, Min({frames, kMaxBufferFrames})})

Distance(a, b) == IF a < b THEN b - a ELSE a - b
closestSampleRate(device, preferred) ==
  CASE device.rates = <<>> -> preferred
    [] device.rates # <<>> /\ preferred = NoRate -> device.rates[1]
    [] OTHER -> device.rates[CHOOSE i \in DOMAIN device.rates : \A j \in DOMAIN device.rates :
                  LET mine == Distance(device.rates[i], preferred)  its == Distance(device.rates[j], preferred)
                  IN mine < its \/ (mine = its /\ i <= j)]
supportsSampleRate(device, rate) == rate # NoRate /\ (device.rates = <<>> \/ rate \in Range(device.rates))
negotiateConfig(device, asked) ==
  LET rate == IF supportsSampleRate(device, asked.rate) THEN asked.rate ELSE closestSampleRate(device, asked.rate)
  IN [inputs |-> clampChannels(asked.inputs, device.inputs), outputs |-> clampChannels(asked.outputs, device.outputs),
      block |-> clampBufferFrames(asked.block, device.block), rate |-> IF rate = NoRate THEN kSampleRate48000 ELSE rate]
isValid(config) == config.inputs > 0 \/ config.outputs > 0
-------------------------------------------------------------------------------
(* Which one is next.                                                          *)

FirstOf(indices) == Min(indices)
ByDefault == {i \in DOMAIN devices : devices[i].isDefault}
Playing == {i \in DOMAIN devices : devices[i].outputs > 0}
\* 0 where there is none.
defaultIndex == CASE ByDefault # {} -> FirstOf(ByDefault)
                  [] ByDefault = {} /\ Playing # {} -> FirstOf(Playing)
                  [] OTHER -> IF devices = <<>> THEN 0 ELSE 1

\* The one of that id; the default one, if that is another; and the others.
Named(id) == {i \in DOMAIN devices : devices[i].id = id /\ \A j \in 1..i - 1 : devices[j].id # id}
Preferred(id) == {i \in DOMAIN devices : i = defaultIndex /\ devices[i].id # id}
Others(id) == {i \in DOMAIN devices : i # defaultIndex /\ devices[i].id # id}
\* What is tried, one group after the other and each from its first.
\* Mutant: the loop begins behind the default device.
openOrFallback_OnlyLater(id) == <<Named(id), Preferred(id), {i \in Others(id) : i > defaultIndex}>>
openOrFallback(id) == <<Named(id), Preferred(id), Others(id)>>
openDefault == <<{i \in DOMAIN devices : i = defaultIndex}>>
-------------------------------------------------------------------------------
(* The manager and the machine.                                                *)

Hardware == UNION {Range(list) : list \in Lists}

refresh == /\ call.stage = "none"
           /\ devices' = connected /\ UNCHANGED <<connected, willing, call>>

\* Somebody plugs one in, pulls it out, or takes it for himself and gives it back.
changeHardware ==
  /\ \E d \in Hardware : d.id # NullId /\
       \/ /\ connected' \in {list \in Lists : Range(list) = IF d \in Range(connected) THEN Range(connected) \ {d}
                                                                                    ELSE Range(connected) \cup {d}}
          /\ willing' = willing \ {d}
       \/ /\ d \in Range(connected) /\ UNCHANGED connected
          /\ willing' = IF d \in willing THEN willing \ {d} ELSE willing \cup {d}
  /\ UNCHANGED <<devices, call>>

\* A device by its id, the default one, or whatever opens.
open ==
  /\ call.stage = "none"
  /\ \E asked \in Asked, id \in {d.id : d \in Hardware} \cup {"", "gone"}, way \in {"open", "openDefault", "openOrFallback"} :
       call' = [stage |-> "trying", asked |-> asked, id |-> id, way |-> way, tried |-> <<>>, opened |-> <<>>,
                left |-> CASE way = "openOrFallback" -> openOrFallback(id)
                           [] way = "openDefault" -> openDefault
                           [] OTHER -> <<Named(id)>>]
  /\ UNCHANGED <<connected, willing, devices>>

Groups == {k \in DOMAIN call.left : call.left[k] # {}}
\* The driver is only asked for something that makes sense.
openAt ==
  /\ call.stage = "trying" /\ call.opened = <<>> /\ Groups # {}
  /\ LET group == FirstOf(Groups)
         index == FirstOf(call.left[group])
         effective == negotiateConfig(devices[index], call.asked)
         opens == isValid(effective) /\ devices[index] \in willing
     IN call' = [call EXCEPT !.tried = Append(@, index), !.left[group] = @ \ {index},
                             !.opened = IF opens THEN <<effective>> ELSE <<>>]
  /\ UNCHANGED <<connected, willing, devices>>

answer ==
  /\ call.stage = "trying" /\ (call.opened # <<>> \/ Groups = {})
  /\ call' = NoCall /\ UNCHANGED <<connected, willing, devices>>

\* A manager may be given other backends than the platform's and the null one.
ManagerInit ==
  connected \in Lists /\ willing = Range(connected) /\ devices = connected /\ call = NoCall
ManagerNext == refresh \/ changeHardware \/ open \/ openAt \/ answer
-------------------------------------------------------------------------------
(* What the caller may rely on.                                                *)

\* What a device grants: no more channels than it has, as many as were asked for if
\* it has them, a block in range, a rate it has and the one asked for if it is one.
Granted(device, asked, got) ==
  /\ got.outputs <= device.outputs /\ got.inputs <= device.inputs
  /\ got.outputs = asked.outputs \/ got.outputs = device.outputs
  /\ got.block \in kMinBufferFrames..kMaxBufferFrames
  /\ device.rates = <<>> \/ got.rate \in Range(device.rates)
  /\ supportsSampleRate(device, asked.rate) => got.rate = asked.rate

\* The one that was remembered, or the default one.
TriesFirst(index, id) == IF \E i \in DOMAIN devices : devices[i].id = id THEN devices[index].id = id ELSE index = defaultIndex

\* openOrFallback asks no device twice, and refuses only when every device of the
\* list has been asked -- so never where the null device is among them and the
\* caller wants to be heard -- starting with the one that was remembered, then
\* the default; and what opens has what its device has and was asked for
\* (openOrFallback, negotiateConfig: "Only fails when nothing at all will open").
FallsBackOnSomething ==
  call.stage = "trying" =>
    /\ IsInjective(call.tried)
    /\ call.way = "openOrFallback" /\ call.opened = <<>> /\ Groups = {} =>
         /\ Range(call.tried) = DOMAIN devices
         /\ call.asked.outputs = 0 \/ \A i \in DOMAIN devices : devices[i].id # NullId
    /\ call.way = "openOrFallback" /\ call.tried # <<>> => TriesFirst(call.tried[1], call.id)
    /\ call.opened # <<>> => Granted(devices[Last(call.tried)], call.asked, call.opened[1])
===============================================================================
