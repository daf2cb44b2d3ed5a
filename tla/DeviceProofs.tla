---------------------------- MODULE DeviceProofs ----------------------------
(***************************************************************************)
(* Proofs about DeviceCommand for any settings and any number of commands, *)
(* changes, reports and lost connections: its types, and that commands add *)
(* up.  The invariant relates the known state to what is due, and what was *)
(* composed before a session start to what was due then.  The second part  *)
(* is about DeviceValues, for any messages and values of the cloud: the    *)
(* capacity and the remaining energy follow what was told last, and the    *)
(* circuits shown add up to the power that was told.  The third part is    *)
(* about HexMessage: what is written into a message is read from it.       *)
(***************************************************************************)
EXTENDS DeviceCommand, DeviceValues, HexMessage, SequenceTheorems, FiniteSetTheorems,
        WellFoundedInduction, TLAPS

Known == [values : [Settings -> 0..1], mask : Bytes]
Commands == [byte : Bytes, values : [Settings -> 0..1]]
Messages == [kind : {"set"}, byte : Bytes] \cup [kind : {"ask"}]
Reports == [byte : Bytes, version : Nat, after : Nat, pending : BOOLEAN]
Tasks == {AtRest} \cup [at : {"pause"}]
         \cup [at : {"connect"}, command : Commands, basis : Bytes \X BOOLEAN]

CommandTypeOK ==
  /\ held \in Bytes /\ due \in Bytes
  /\ version \in Nat /\ published \in Nat
  /\ known # Unknown => known \in Known /\ lastMask \in Bytes
  /\ lastMask = Unknown \/ lastMask \in Bytes
  /\ wire \in Seq(Messages) /\ air \in Seq(Reports)
  /\ entity \in [Settings -> Tasks]
  /\ behind \in BOOLEAN /\ missed \in BOOLEAN /\ linked \in BOOLEAN
  /\ changes \in Nat /\ reports \in Nat /\ losses \in Nat

\* The known state is what is due, unless it is too old.
KnownIsDue ==
  known # Unknown /\ ~behind
  => /\ \A s \in Settings : known.values[s] = due[s]
     /\ known.mask[Rest] = due[Rest]
     /\ lastMask[Rest] = due[Rest]

\* A composed command carries what was due, except for its own setting.
ComposedFromBasis ==
  \A s \in Settings :
    entity[s].at = "connect"
    => /\ known \in Known
       /\ \A t \in Settings :
            entity[s].command.byte[t] = entity[s].command.values[t]
       /\ ~entity[s].basis[2]
          => \A f \in Flags \ {s} :
               entity[s].command.byte[f] = entity[s].basis[1][f]

CommandInv == CommandTypeOK /\ KnownIsDue /\ ComposedFromBasis

----------------------------------------------------------------------------
(* Values *)

\* A byte of flags is not the value of an unknown one.
LEMMA ByteIsKnown == ASSUME NEW b \in Bytes PROVE b # Unknown
<1>1. DOMAIN b = Flags /\ Rest \in Flags
  BY DEF Bytes, Flags
<1>2. DOMAIN Unknown = 1..0
  BY DEF Unknown
<1> QED
  BY <1>1, <1>2

\* A known state is not the value of an unknown one.
LEMMA StateIsKnown == ASSUME NEW k \in Known PROVE k # Unknown
<1>1. DOMAIN k = {"values", "mask"}
  BY DEF Known
<1>2. DOMAIN Unknown = 1..0
  BY DEF Unknown
<1> QED
  BY <1>1, <1>2

\* Merging settings into a byte gives a byte with these settings.
LEMMA MergedByte ==
  ASSUME NEW b \in Bytes, NEW v \in [Settings -> 0..1]
  PROVE  /\ Merged(b, v) \in Bytes
         /\ \A s \in Settings : Merged(b, v)[s] = v[s]
         /\ Merged(b, v)[Rest] = b[Rest]
<1> QED
  BY CommandAssumption DEF Merged, Bytes, Flags

\* What is generated has the settings given and the rest of the last report.
LEMMA GeneratedByte ==
  ASSUME lastMask \in Bytes, NEW v \in [Settings -> 0..1]
  PROVE  /\ Generated(v) \in Bytes
         /\ \A s \in Settings : Generated(v)[s] = v[s]
         /\ Generated(v)[Rest] = lastMask[Rest]
<1> QED
  BY ByteIsKnown, MergedByte DEF Generated

\* The mock has the settings given; its other flags were known before.
LEMMA MockedState ==
  ASSUME known \in Known, lastMask \in Bytes, NEW v \in [Settings -> 0..1]
  PROVE  /\ Mocked(v) \in Known
         /\ Mocked(v).values = v
         /\ Mocked(v).mask[Rest] \in {known.mask[Rest], lastMask[Rest]}
<1>1. Merged(lastMask, v) \in Bytes
      /\ Merged(lastMask, v)[Rest] = lastMask[Rest]
  BY MergedByte
<1> QED
  BY <1>1 DEF Mocked, Known

----------------------------------------------------------------------------
(* The steps *)

LEMMA InitCommandInv == CommandInit => CommandInv
<1> SUFFICES ASSUME CommandInit PROVE CommandInv
  OBVIOUS
<1>1. CommandTypeOK
  <2>1. entity \in [Settings -> Tasks]
    BY DEF CommandInit, Tasks
  <2>2. wire \in Seq(Messages) /\ air \in Seq(Reports)
    BY DEF CommandInit
  <2> QED
    BY <2>1, <2>2 DEF CommandInit, CommandTypeOK
<1>2. KnownIsDue
  BY DEF CommandInit, KnownIsDue
<1>3. ComposedFromBasis
  BY DEF CommandInit, ComposedFromBasis, AtRest
<1> QED
  BY <1>1, <1>2, <1>3 DEF CommandInv

\* Publishing a command that agrees with itself and, where it is fresh, with
\* what is due.
LEMMA PublishKeeps ==
  ASSUME CommandInv, NEW s \in Settings, NEW c \in Commands,
         known \in Known, Publish(s, c),
         \A t \in Settings : c.byte[t] = c.values[t],
         ComposedFresh(s) => c.byte[Rest] = due[Rest],
         UNCHANGED <<held, version, lastMask, air, linked, missed, changes,
                     reports, losses>>
  PROVE  CommandInv'
<1> USE DEF CommandInv
<1>1. lastMask \in Bytes
  BY StateIsKnown DEF CommandTypeOK
<1>2. /\ known' \in Known
      /\ known'.values = c.values
      /\ known'.mask[Rest] \in {known.mask[Rest], lastMask[Rest]}
  BY <1>1, MockedState DEF Publish, Commands
<1>3. CommandTypeOK'
  <2>1. wire' \in Seq(Messages)
    <3>1. [kind |-> "set", byte |-> c.byte] \in Messages
      BY DEF Commands, Messages
    <3> QED
      BY <3>1, AppendProperties DEF Publish, CommandTypeOK
  <2>2. entity' \in [Settings -> Tasks]
    BY DEF Publish, CommandTypeOK, Tasks
  <2>3. behind' \in BOOLEAN /\ due' \in Bytes /\ published' \in Nat
    BY DEF Publish, ComposedFresh, Commands, CommandTypeOK
  <2> QED
    BY <1>1, <1>2, <2>1, <2>2, <2>3 DEF CommandTypeOK
<1>4. KnownIsDue'
  <2> SUFFICES ASSUME ~behind'
               PROVE  /\ \A t \in Settings : known'.values[t] = due'[t]
                      /\ known'.mask[Rest] = due'[Rest]
                      /\ lastMask'[Rest] = due'[Rest]
    BY DEF KnownIsDue
  <2>1. ComposedFresh(s) /\ ~behind
    BY DEF Publish, ComposedFresh
  <2>2. due' = c.byte /\ c.byte[Rest] = due[Rest]
    BY <2>1 DEF Publish
  <2>3. known.mask[Rest] = due[Rest] /\ lastMask[Rest] = due[Rest]
    BY <2>1, StateIsKnown DEF KnownIsDue
  <2> QED
    BY <1>2, <2>2, <2>3
<1>5. ComposedFromBasis'
  <2> SUFFICES ASSUME NEW t \in Settings, entity'[t].at = "connect"
               PROVE  t # s
    BY <1>2 DEF ComposedFromBasis, Publish, CommandTypeOK
  <2> QED
    BY DEF Publish, CommandTypeOK
<1> QED
  BY <1>3, <1>4, <1>5

\* What an entity composes.
LEMMA CommandComposed ==
  ASSUME CommandInv, known # Unknown,
         NEW s \in Settings, NEW value \in 0..1
  PROVE  LET values == [known.values EXCEPT ![s] = value]
             command == [byte |-> Generated(values), values |-> values]
         IN /\ known \in Known /\ lastMask \in Bytes
            /\ command \in Commands
            /\ \A t \in Settings : command.byte[t] = command.values[t]
            /\ ~behind => \A f \in Flags \ {s} : command.byte[f] = due[f]
<1> USE DEF CommandInv
<1> DEFINE values == [known.values EXCEPT ![s] = value]
<1>1. known \in Known /\ lastMask \in Bytes
  BY DEF CommandTypeOK
<1>2. values \in [Settings -> 0..1]
      /\ \A t \in Settings \ {s} : values[t] = known.values[t]
  BY <1>1 DEF Known
<1>3. /\ Generated(values) \in Bytes
      /\ \A t \in Settings : Generated(values)[t] = values[t]
      /\ Generated(values)[Rest] = lastMask[Rest]
  BY <1>1, <1>2, GeneratedByte
<1>4. ~behind => \A f \in Flags \ {s} : Generated(values)[f] = due[f]
  BY <1>2, <1>3 DEF KnownIsDue, Flags
<1>5. [byte |-> Generated(values), values |-> values] \in Commands
  BY <1>2, <1>3 DEF Commands
<1> QED
  BY <1>1, <1>3, <1>4, <1>5

LEMMA SetSettingKeeps ==
  ASSUME CommandInv, NEW s \in Settings, NEW value \in 0..1,
         SetSetting(s, value)
  PROVE  CommandInv'
<1> USE DEF CommandInv
<1> DEFINE values == [known.values EXCEPT ![s] = value]
           command == [byte |-> Generated(values), values |-> values]
<1>1. /\ known \in Known /\ lastMask \in Bytes
      /\ command \in Commands
      /\ \A t \in Settings : command.byte[t] = command.values[t]
      /\ ~behind => \A f \in Flags \ {s} : command.byte[f] = due[f]
  BY CommandComposed DEF SetSetting
<1>2. UNCHANGED <<held, version, lastMask, air, linked, missed, changes,
                  reports, losses>>
  BY DEF SetSetting
<1>3. CASE linked
  <2>1. Publish(s, command)
    BY <1>3 DEF SetSetting
  <2>2. ComposedFresh(s) => command.byte[Rest] = due[Rest]
    <3>1. Rest \in Flags \ {s}
      BY CommandAssumption DEF Flags
    <3> QED
      BY <1>1, <3>1 DEF ComposedFresh
  <2> HIDE DEF command
  <2> QED
    BY <1>1, <1>2, <2>1, <2>2, PublishKeeps
<1>4. CASE ~linked
  <2>1. /\ entity' = [entity EXCEPT ![s] =
                       [at |-> "connect", command |-> command,
                        basis |-> <<due, behind>>]]
        /\ UNCHANGED <<wire, known, due, behind, published>>
    BY <1>4 DEF SetSetting
  <2> HIDE DEF command
  <2>2. CommandTypeOK'
    <3>1. [at |-> "connect", command |-> command, basis |-> <<due, behind>>]
            \in Tasks
      BY <1>1 DEF Tasks, CommandTypeOK
    <3>2. entity' \in [Settings -> Tasks]
      BY <2>1, <3>1 DEF CommandTypeOK
    <3> QED
      BY <1>2, <2>1, <3>2 DEF CommandTypeOK
  <2>3. KnownIsDue'
    BY <1>2, <2>1 DEF KnownIsDue
  <2>4. ComposedFromBasis'
    <3> SUFFICES ASSUME NEW t \in Settings, entity'[t].at = "connect"
                 PROVE  /\ known \in Known
                        /\ \A u \in Settings :
                             entity'[t].command.byte[u]
                               = entity'[t].command.values[u]
                        /\ ~entity'[t].basis[2]
                           => \A f \in Flags \ {t} :
                                entity'[t].command.byte[f]
                                  = entity'[t].basis[1][f]
      BY <2>1 DEF ComposedFromBasis
    <3>1. CASE t = s
      <4>1. entity'[t] = [at |-> "connect", command |-> command,
                          basis |-> <<due, behind>>]
        BY <2>1, <3>1 DEF CommandTypeOK
      <4> QED
        BY <1>1, <3>1, <4>1
    <3>2. CASE t # s
      <4>1. entity'[t] = entity[t]
        BY <2>1, <3>2 DEF CommandTypeOK
      <4> QED
        BY <4>1 DEF ComposedFromBasis
    <3> QED
      BY <3>1, <3>2
  <2> QED
    BY <2>2, <2>3, <2>4
<1> QED
  BY <1>3, <1>4

\* What an entity that waits for a session has composed.
LEMMA ComposedCommand ==
  ASSUME CommandInv, NEW s \in Settings, entity[s].at = "connect"
  PROVE  /\ entity[s].command \in Commands
         /\ known \in Known
         /\ \A t \in Settings :
              entity[s].command.byte[t] = entity[s].command.values[t]
         /\ ComposedFresh(s) => \A f \in Flags \ {s} :
                                  entity[s].command.byte[f] = due[f]
<1> USE DEF CommandInv
<1>1. entity[s] \in [at : {"connect"}, command : Commands,
                     basis : Bytes \X BOOLEAN]
  BY DEF CommandTypeOK, Tasks, AtRest
<1>2. entity[s].command \in Commands
  BY <1>1
<1>3. /\ known \in Known
      /\ \A t \in Settings :
           entity[s].command.byte[t] = entity[s].command.values[t]
  BY DEF ComposedFromBasis
<1>4. ASSUME ComposedFresh(s)
      PROVE  \A f \in Flags \ {s} : entity[s].command.byte[f] = due[f]
  <2>1. entity[s].basis = <<due, FALSE>>
    BY <1>4 DEF ComposedFresh
  <2>2. <<due, FALSE>>[1] = due /\ <<due, FALSE>>[2] = FALSE
    OBVIOUS
  <2>3. entity[s].basis[1] = due /\ ~entity[s].basis[2]
    BY <2>1, <2>2, Zenon
  <2> QED
    BY <2>3 DEF ComposedFromBasis
<1> QED
  BY <1>2, <1>3, <1>4

LEMMA SessionStartedKeeps ==
  ASSUME CommandInv, NEW s \in Settings, SessionStarted(s)
  PROVE  CommandInv'
<1>1. entity[s].at = "connect"
  BY DEF SessionStarted
<1>2. ComposedFresh(s) => entity[s].command.byte[Rest] = due[Rest]
  <2>1. Rest \in Flags \ {s}
    BY CommandAssumption DEF Flags
  <2> QED
    BY <1>1, <2>1, ComposedCommand
<1> QED
  BY <1>1, <1>2, ComposedCommand, PublishKeeps DEF SessionStarted

LEMMA NotSentKeeps ==
  ASSUME CommandInv, NEW s \in Settings, NotSent(s)
  PROVE  CommandInv'
<1> USE DEF CommandInv
<1>1. entity' = [entity EXCEPT ![s] = AtRest]
  BY DEF NotSent
<1>2. CommandTypeOK'
  <2>1. missed' \in BOOLEAN
    BY DEF NotSent, CommandTypeOK
  <2> QED
    BY <1>1, <2>1 DEF NotSent, CommandTypeOK, Tasks
<1>3. KnownIsDue'
  BY DEF NotSent, KnownIsDue
<1>4. ComposedFromBasis'
  BY <1>1 DEF NotSent, ComposedFromBasis, CommandTypeOK, AtRest
<1> QED
  BY <1>2, <1>3, <1>4

LEMMA RequestStatusKeeps ==
  ASSUME CommandInv, NEW s \in Settings, RequestStatus(s)
  PROVE  CommandInv'
<1> USE DEF CommandInv
<1>1. entity' = [entity EXCEPT ![s] = AtRest]
  BY DEF RequestStatus
<1>2. CommandTypeOK'
  <2>1. wire' \in Seq(Messages)
    BY AppendProperties DEF RequestStatus, CommandTypeOK, Messages
  <2> QED
    BY <1>1, <2>1 DEF RequestStatus, CommandTypeOK, Tasks
<1>3. KnownIsDue'
  BY DEF RequestStatus, KnownIsDue
<1>4. ComposedFromBasis'
  BY <1>1 DEF RequestStatus, ComposedFromBasis, CommandTypeOK, AtRest
<1> QED
  BY <1>2, <1>3, <1>4

LEMMA ReceiveKeeps == ASSUME CommandInv, Receive PROVE CommandInv'
<1> USE DEF CommandInv
<1> DEFINE report == Head(air)
           new == [values |-> [s \in Settings |-> report.byte[s]],
                   mask |-> report.byte]
<1>1. report \in Reports /\ air' \in Seq(Reports)
  BY HeadTailProperties DEF Receive, CommandTypeOK
<1>2. report.byte \in Bytes
  BY <1>1 DEF Reports
<1>3. new \in Known
  BY <1>2 DEF Known, Bytes, Flags
<1>4. known' = new /\ lastMask' = report.byte
  BY DEF Receive
<1>5. CommandTypeOK'
  <2>1. due' \in Bytes /\ behind' \in BOOLEAN /\ missed' \in BOOLEAN
    BY <1>1, <1>2 DEF Receive, CommandTypeOK, Reports
  <2> QED
    BY <1>1, <1>2, <1>3, <1>4, <2>1 DEF Receive, CommandTypeOK
<1>6. KnownIsDue'
  <2>1. ~behind' => due' = report.byte
    BY DEF Receive
  <2> QED
    BY <1>4, <2>1 DEF KnownIsDue
<1>7. ComposedFromBasis'
  BY <1>3, <1>4 DEF Receive, ComposedFromBasis
<1> QED
  BY <1>5, <1>6, <1>7

LEMMA NotifiedKeeps == ASSUME CommandInv, Notified PROVE CommandInv'
<1> USE DEF CommandInv
<1>1. known \in Known /\ known.mask \in Bytes
  BY DEF Notified, CommandTypeOK, Known
<1>2. CommandTypeOK'
  BY <1>1 DEF Notified, CommandTypeOK
<1>3. KnownIsDue'
  BY DEF Notified, KnownIsDue
<1>4. ComposedFromBasis'
  BY DEF Notified, ComposedFromBasis
<1> QED
  BY <1>2, <1>3, <1>4

\* What the device and the connection do touches neither the known state nor
\* what is due.
LEMMA OutsideKeeps ==
  ASSUME CommandInv, CommandTypeOK',
         UNCHANGED <<known, lastMask, entity, due, behind>>
  PROVE  CommandInv'
BY DEF CommandInv, KnownIsDue, ComposedFromBasis

\* A report is what the device holds.
LEMMA ReportType == ASSUME CommandTypeOK PROVE Report \in Reports
BY DEF Report, Reports, SetOnWire, CommandTypeOK

LEMMA TakeMessageKeeps ==
  ASSUME CommandInv, NEW refused \in BOOLEAN, TakeMessage(refused)
  PROVE  CommandInv'
<1> USE DEF CommandInv
<1>1. Head(wire) \in Messages /\ wire' \in Seq(Messages)
  BY HeadTailProperties DEF TakeMessage, CommandTypeOK
<1>2. held' \in Bytes /\ version' \in Nat
  BY <1>1 DEF TakeMessage, CommandTypeOK, Messages
<1>3. air' \in Seq(Reports)
  BY ReportType, AppendProperties DEF TakeMessage, CommandTypeOK
<1>4. CommandTypeOK'
  BY <1>1, <1>2, <1>3 DEF TakeMessage, CommandTypeOK
<1> QED
  BY <1>4, OutsideKeeps DEF TakeMessage

LEMMA SendReportKeeps == ASSUME CommandInv, SendReport PROVE CommandInv'
<1> USE DEF CommandInv
<1>1. air' \in Seq(Reports)
  BY ReportType, AppendProperties DEF SendReport, CommandTypeOK
<1>2. CommandTypeOK'
  BY <1>1 DEF SendReport, CommandTypeOK
<1> QED
  BY <1>2, OutsideKeeps DEF SendReport

LEMMA ChangeFlagKeeps ==
  ASSUME CommandInv, NEW f \in Flags, ChangeFlag(f)
  PROVE  CommandInv'
<1> USE DEF CommandInv
<1>1. held' \in Bytes /\ version' \in Nat
  BY DEF ChangeFlag, CommandTypeOK, Bytes
<1>2. [Report EXCEPT !.byte = held', !.version = version'] \in Reports
  BY <1>1, ReportType DEF Reports
<1>3. air' \in Seq(Reports)
  BY <1>2, AppendProperties DEF ChangeFlag, CommandTypeOK
<1>4. CommandTypeOK'
  BY <1>1, <1>3 DEF ChangeFlag, CommandTypeOK
<1> QED
  BY <1>4, OutsideKeeps DEF ChangeFlag

LEMMA LoseLinkKeeps == ASSUME CommandInv, LoseLink PROVE CommandInv'
<1> USE DEF CommandInv
<1>1. wire' \in Seq(Messages) /\ air' \in Seq(Reports)
  BY DEF LoseLink
<1>2. linked' \in BOOLEAN /\ missed' \in BOOLEAN /\ losses' \in Nat
  <2>1. losses' \in Nat
    BY DEF LoseLink, CommandTypeOK
  <2>2. linked' \in BOOLEAN /\ missed' \in BOOLEAN
    BY DEF LoseLink
  <2> QED
    BY <2>1, <2>2
<1>3. CommandTypeOK'
  BY <1>1, <1>2 DEF LoseLink, CommandTypeOK
<1> QED
  BY <1>3, OutsideKeeps DEF LoseLink

LEMMA RestoreLinkKeeps == ASSUME CommandInv, RestoreLink PROVE CommandInv'
<1> USE DEF CommandInv
<1>1. CommandTypeOK'
  BY DEF RestoreLink, CommandTypeOK
<1> QED
  BY <1>1, OutsideKeeps DEF RestoreLink

LEMMA NextCommandInv ==
  ASSUME CommandInv, [CommandNext]_commandVars
  PROVE  CommandInv'
<1>1. CASE UNCHANGED commandVars
  BY <1>1 DEF commandVars, CommandInv, CommandTypeOK, KnownIsDue,
              ComposedFromBasis
<1>2. CASE CommandNext
  BY <1>2, SetSettingKeeps, SessionStartedKeeps, NotSentKeeps,
     RequestStatusKeeps, ReceiveKeeps, NotifiedKeeps, TakeMessageKeeps,
     SendReportKeeps, ChangeFlagKeeps, LoseLinkKeeps, RestoreLinkKeeps
     DEF CommandNext
<1> QED
  BY <1>1, <1>2

LEMMA CommandInductive == CommandSpec => []CommandInv
<1> QED
  BY InitCommandInv, NextCommandInv, PTL DEF CommandSpec

\* Every variable keeps its type (run_command() and what it calls).
THEOREM CommandTypesKept == CommandSpec => []CommandTypeOK
<1>1. CommandInv => CommandTypeOK
  BY DEF CommandInv
<1> QED
  BY <1>1, CommandInductive, PTL

\* Only publishing counts a command, and what is published is fresh or not.
LEMMA PublishedFresh ==
  ASSUME CommandInv, NEW s \in Settings, NEW t \in Settings, NEW c \in Commands,
         Publish(t, c), entity'[s].at = "pause", entity[s].at # "pause",
         ComposedFresh(t) => \A f \in Flags \ {t} : c.byte[f] = due[f],
         ComposedFresh(s)
  PROVE  \A f \in Flags \ {s} : wire'[Len(wire')].byte[f] = due[f]
<1>1. s = t
  BY DEF Publish, CommandInv, CommandTypeOK
<1>2. [kind |-> "set", byte |-> c.byte] \in Messages
  BY DEF Commands, Messages
<1>3. wire'[Len(wire')] = [kind |-> "set", byte |-> c.byte]
  BY <1>2, AppendProperties DEF Publish, CommandInv, CommandTypeOK
<1> QED
  BY <1>1, <1>3

\* A command for one setting carries the others as they were published or
\* reported last, for any settings, faults and interleavings of entities.
THEOREM CommandsKeepOthers == CommandSpec => CommandsAddUp
<1> DEFINE AddsUp ==
      \A s \in Settings :
        /\ published' > published
        /\ entity'[s].at = "pause" /\ entity[s].at # "pause"
        /\ ComposedFresh(s)
        => \A f \in Flags \ {s} : wire'[Len(wire')].byte[f] = due[f]
<1>1. ASSUME CommandInv, [CommandNext]_commandVars
      PROVE  [AddsUp]_commandVars
  <2> SUFFICES ASSUME CommandNext, NEW s \in Settings, published' > published,
                      entity'[s].at = "pause", entity[s].at # "pause",
                      ComposedFresh(s)
               PROVE  \A f \in Flags \ {s} :
                        wire'[Len(wire')].byte[f] = due[f]
    BY <1>1
  <2>1. published' # published
    BY <1>1 DEF CommandInv, CommandTypeOK
  <2>2. CASE \E t \in Settings, value \in 0..1 : SetSetting(t, value)
    <3>1. PICK t \in Settings, value \in 0..1 : SetSetting(t, value)
      BY <2>2
    <3> DEFINE values == [known.values EXCEPT ![t] = value]
               command == [byte |-> Generated(values), values |-> values]
    <3>2. /\ command \in Commands
          /\ ~behind => \A f \in Flags \ {t} : command.byte[f] = due[f]
      BY <1>1, <3>1, CommandComposed DEF SetSetting
    <3>3. Publish(t, command)
      BY <2>1, <3>1 DEF SetSetting
    <3>4. ComposedFresh(t) => ~behind
      BY DEF ComposedFresh
    <3> HIDE DEF command
    <3> QED
      BY <1>1, <3>2, <3>3, <3>4, PublishedFresh
  <2>3. CASE \E t \in Settings : SessionStarted(t)
    <3>1. PICK t \in Settings : SessionStarted(t)
      BY <2>3
    <3>2. entity[t].at = "connect" /\ Publish(t, entity[t].command)
      BY <3>1 DEF SessionStarted
    <3>3. entity[t].command \in Commands
      BY <1>1, <3>2, ComposedCommand
    <3>4. ComposedFresh(t) => \A f \in Flags \ {t} :
                                entity[t].command.byte[f] = due[f]
      BY <1>1, <3>2, ComposedCommand
    <3> QED
      BY <1>1, <3>2, <3>3, <3>4, PublishedFresh
  <2> QED
    BY <2>1, <2>2, <2>3 DEF CommandNext, NotSent, RequestStatus, Receive,
       Notified, TakeMessage, SendReport, ChangeFlag, LoseLink, RestoreLink
<1> QED
  BY <1>1, CommandInductive, PTL DEF CommandSpec, CommandsAddUp

----------------------------------------------------------------------------
(* The known state once nothing is under way *)

Correct ==
  /\ \A s \in Settings : known.values[s] = held[s]
  /\ known.mask = held
  /\ lastMask = held

\* A report of the present version tells what the device holds; later
\* reports are not older.
VersionsTrue ==
  \A i \in 1..Len(air) :
    /\ air[i].version <= version
    /\ air[i].version = version => air[i].byte = held
    /\ \A j \in i..Len(air) : air[i].version <= air[j].version

\* Every command on its way is followed by a request for a report.
CommandsAsked ==
  \A i \in 1..Len(wire) :
    wire[i].kind = "set"
    => \E j \in 1..Len(wire) : j > i /\ wire[j].kind = "ask"

\* Without a message on its way the last word is what the device holds.
LastWordTrue ==
  wire = <<>>
  => /\ air # <<>> => air[Len(air)].byte = held
     /\ air = <<>> /\ known # Unknown => Correct

Pausing == \E s \in Settings : entity[s].at = "pause"

QuietInv ==
  VersionsTrue /\ (missed \/ Pausing \/ (CommandsAsked /\ LastWordTrue))

\* The elements of a sequence without its first one.
LEMMA TailElements ==
  ASSUME NEW S, NEW q \in Seq(S), q # <<>>
  PROVE  /\ Tail(q) \in Seq(S) /\ Len(Tail(q)) = Len(q) - 1
         /\ Len(q) \in Nat \ {0} /\ Head(q) = q[1]
         /\ \A i \in 1..Len(Tail(q)) : Tail(q)[i] = q[i + 1]
BY HeadTailProperties

LEMMA AppendElements ==
  ASSUME NEW S, NEW q \in Seq(S), NEW e \in S
  PROVE  /\ Append(q, e) \in Seq(S) /\ Append(q, e) # <<>>
         /\ Len(q) \in Nat /\ Len(Append(q, e)) = Len(q) + 1
         /\ Append(q, e)[Len(q) + 1] = e
         /\ \A i \in 1..Len(q) : Append(q, e)[i] = q[i]
BY AppendProperties

LEMMA AirVersions ==
  ASSUME CommandTypeOK
  PROVE  \A i \in 1..Len(air) : air[i].version \in Nat
<1>1. ASSUME NEW i \in 1..Len(air) PROVE air[i] \in Reports
  BY DEF CommandTypeOK
<1> QED
  BY <1>1 DEF Reports

LEMMA InitQuietInv == CommandInit => QuietInv
BY DEF CommandInit, QuietInv, VersionsTrue, CommandsAsked, LastWordTrue

\* One more report of what the device holds by then.
LEMMA ReportAdded ==
  ASSUME CommandTypeOK, CommandTypeOK', VersionsTrue, NEW e \in Reports,
         air' = Append(air, e), e.byte = held', e.version = version',
         version' >= version, version' = version => held' = held
  PROVE  VersionsTrue' /\ LastWordTrue'
<1>1. /\ air' # <<>> /\ Len(air) \in Nat /\ Len(air') = Len(air) + 1
      /\ air'[Len(air) + 1] = e
      /\ \A i \in 1..Len(air) : air'[i] = air[i]
  BY AppendElements DEF CommandTypeOK
<1>2. \A i \in 1..Len(air) : air[i].version \in Nat
  BY AirVersions
<1>3. version \in Nat /\ version' \in Nat
  BY DEF CommandTypeOK
<1>4. VersionsTrue'
  <2> SUFFICES ASSUME NEW i \in 1..Len(air')
               PROVE  /\ air'[i].version <= version'
                      /\ air'[i].version = version' => air'[i].byte = held'
                      /\ \A j \in i..Len(air') :
                           air'[i].version <= air'[j].version
    BY DEF VersionsTrue
  <2>1. CASE i = Len(air) + 1
    BY <1>1, <1>3, <2>1
  <2>2. CASE i \in 1..Len(air)
    <3>1. /\ air[i].version <= version
          /\ air[i].version = version => air[i].byte = held
          /\ \A j \in i..Len(air) : air[i].version <= air[j].version
      BY <2>2 DEF VersionsTrue
    <3>2. air'[i] = air[i] /\ air[i].version <= version'
      BY <1>1, <1>2, <1>3, <2>2, <3>1
    <3>3. ASSUME NEW j \in i..Len(air')
          PROVE  air'[i].version <= air'[j].version
      <4>1. CASE j = Len(air) + 1
        BY <1>1, <3>2, <4>1
      <4>2. CASE j \in i..Len(air)
        BY <1>1, <2>2, <3>1, <3>2, <4>2
      <4> QED
        BY <1>1, <2>2, <4>1, <4>2
    <3>4. air[i].version = version' => version' = version
      BY <1>2, <1>3, <2>2, <3>1
    <3> QED
      BY <3>1, <3>2, <3>3, <3>4
  <2> QED
    BY <1>1, <2>1, <2>2
<1>5. LastWordTrue'
  BY <1>1 DEF LastWordTrue
<1> QED
  BY <1>4, <1>5

LEMMA QuietUnchanged ==
  ASSUME QuietInv, UNCHANGED <<air, version, held>>,
         missed' \/ Pausing' \/ (CommandsAsked' /\ LastWordTrue')
  PROVE  QuietInv'
BY DEF QuietInv, VersionsTrue

LEMMA PublishQuiet ==
  ASSUME CommandTypeOK, QuietInv, NEW s \in Settings, NEW c, Publish(s, c),
         UNCHANGED <<air, version, held>>
  PROVE  QuietInv'
<1>1. Pausing'
  BY DEF Publish, Pausing, CommandTypeOK
<1> QED
  BY <1>1, QuietUnchanged

LEMMA SetSettingQuiet ==
  ASSUME CommandTypeOK, QuietInv, NEW s \in Settings, NEW value \in 0..1,
         SetSetting(s, value)
  PROVE  QuietInv'
<1> DEFINE values == [known.values EXCEPT ![s] = value]
           command == [byte |-> Generated(values), values |-> values]
<1>1. UNCHANGED <<air, version, held, lastMask, missed>>
  BY DEF SetSetting
<1>2. CASE linked
  <2>1. Publish(s, command)
    BY <1>2 DEF SetSetting
  <2> QED
    BY <1>1, <2>1, PublishQuiet
<1>3. CASE ~linked
  <2>1. /\ entity' = [entity EXCEPT ![s] =
                       [at |-> "connect", command |-> command,
                        basis |-> <<due, behind>>]]
        /\ UNCHANGED <<wire, known>>
        /\ entity[s] = AtRest
    BY <1>3 DEF SetSetting
  <2>2. Pausing => Pausing'
    BY <2>1 DEF Pausing, AtRest, CommandTypeOK
  <2> QED
    BY <1>1, <2>1, <2>2, QuietUnchanged
       DEF QuietInv, CommandsAsked, LastWordTrue, Correct
<1> QED
  BY <1>2, <1>3

LEMMA NotSentQuiet ==
  ASSUME CommandTypeOK, QuietInv, NEW s \in Settings, NotSent(s)
  PROVE  QuietInv'
<1>1. UNCHANGED <<air, version, held, lastMask, wire, known>>
      /\ entity' = [entity EXCEPT ![s] = AtRest]
      /\ missed' = (missed \/ entity[s].at = "pause")
  BY DEF NotSent
<1>2. CASE missed'
  BY <1>1, <1>2, QuietUnchanged
<1>3. CASE ~missed'
  <2>1. ~missed /\ entity[s].at # "pause"
    BY <1>1, <1>3
  <2>2. Pausing => Pausing'
    BY <1>1, <2>1 DEF Pausing, CommandTypeOK
  <2> QED
    BY <1>1, <2>1, <2>2, QuietUnchanged
       DEF QuietInv, CommandsAsked, LastWordTrue, Correct
<1> QED
  BY <1>2, <1>3

LEMMA RequestStatusQuiet ==
  ASSUME CommandTypeOK, QuietInv, NEW s \in Settings, RequestStatus(s)
  PROVE  QuietInv'
<1> DEFINE ask == [kind |-> "ask"]
<1>1. ask \in Messages
  BY DEF Messages
<1>2. UNCHANGED <<air, version, held>> /\ wire' = Append(wire, ask)
  BY DEF RequestStatus
<1>3. /\ wire' # <<>> /\ Len(wire) \in Nat /\ Len(wire') = Len(wire) + 1
      /\ wire'[Len(wire) + 1] = ask
  BY <1>1, <1>2, AppendElements DEF CommandTypeOK
<1>4. CommandsAsked'
  <2> SUFFICES ASSUME NEW i \in 1..Len(wire'), wire'[i].kind = "set"
               PROVE  \E j \in 1..Len(wire') :
                        j > i /\ wire'[j].kind = "ask"
    BY DEF CommandsAsked
  <2>1. i # Len(wire) + 1
    BY <1>3
  <2>2. Len(wire) + 1 \in 1..Len(wire') /\ Len(wire) + 1 > i
    BY <1>3, <2>1
  <2> QED
    BY <1>3, <2>2
<1>5. LastWordTrue'
  BY <1>3 DEF LastWordTrue
<1> QED
  BY <1>2, <1>4, <1>5, QuietUnchanged

\* The first report is taken from the air: the others keep their relations.
LEMMA ReportTaken ==
  ASSUME CommandTypeOK, VersionsTrue, air # <<>>, air' = Tail(air),
         UNCHANGED <<version, held>>
  PROVE  VersionsTrue'
<1>1. /\ Len(air) \in Nat \ {0} /\ Len(air') = Len(air) - 1
      /\ \A i \in 1..Len(air') : air'[i] = air[i + 1]
  BY TailElements DEF CommandTypeOK
<1> SUFFICES ASSUME NEW i \in 1..Len(air')
             PROVE  /\ air'[i].version <= version
                    /\ air'[i].version = version => air'[i].byte = held
                    /\ \A j \in i..Len(air') :
                         air'[i].version <= air'[j].version
  BY DEF VersionsTrue
<1>2. i + 1 \in 1..Len(air) /\ air'[i] = air[i + 1]
  BY <1>1
<1>3. /\ air[i + 1].version <= version
      /\ air[i + 1].version = version => air[i + 1].byte = held
      /\ \A j \in (i + 1)..Len(air) : air[i + 1].version <= air[j].version
  BY <1>2 DEF VersionsTrue
<1>4. ASSUME NEW j \in i..Len(air')
      PROVE  air[i + 1].version <= air'[j].version
  <2>1. j + 1 \in (i + 1)..Len(air) /\ air'[j] = air[j + 1]
    BY <1>1
  <2> QED
    BY <1>3, <2>1
<1> QED
  BY <1>2, <1>3, <1>4

LEMMA ReceiveQuiet ==
  ASSUME CommandTypeOK, QuietInv, Receive
  PROVE  QuietInv'
<1> DEFINE report == Head(air)
<1>1. /\ air # <<>> /\ air' = Tail(air)
      /\ UNCHANGED <<version, held, wire, entity>>
      /\ known' = [values |-> [s \in Settings |-> report.byte[s]],
                   mask |-> report.byte]
      /\ lastMask' = report.byte
      /\ missed' = (missed /\ (SetOnWire \/ report.version # version))
  BY DEF Receive
<1>2. /\ Len(air) \in Nat \ {0} /\ Len(air') = Len(air) - 1
      /\ report = air[1] /\ air' \in Seq(Reports)
      /\ \A i \in 1..Len(air') : air'[i] = air[i + 1]
  BY <1>1, TailElements DEF CommandTypeOK
<1>3. VersionsTrue'
  BY <1>1, ReportTaken DEF QuietInv
<1>4. report.byte = held => Correct'
  BY <1>1 DEF Correct
<1>5. CASE missed' \/ Pausing
  BY <1>1, <1>3, <1>5 DEF QuietInv, Pausing
<1>6. CASE ~missed' /\ ~Pausing /\ ~missed
  <2>1. CommandsAsked /\ LastWordTrue
    BY <1>6 DEF QuietInv
  <2>2. CommandsAsked'
    BY <1>1, <2>1 DEF CommandsAsked
  <2>3. LastWordTrue'
    <3> SUFFICES ASSUME wire = <<>>
                 PROVE  /\ air' # <<>> => air'[Len(air')].byte = held
                        /\ air' = <<>> => Correct'
      BY <1>1 DEF LastWordTrue
    <3>1. air[Len(air)].byte = held
      BY <1>1, <2>1 DEF LastWordTrue
    <3>2. CASE air' = <<>>
      <4>1. Len(air) = 1
        BY <1>2, <3>2
      <4> QED
        BY <1>2, <1>4, <3>1, <3>2, <4>1
    <3>3. CASE air' # <<>>
      <4>1. Len(air') \in 1..Len(air')
        BY <1>2, <3>3, EmptySeq
      <4>2. air'[Len(air')] = air[Len(air)]
        BY <1>2, <4>1
      <4> QED
        BY <3>1, <3>3, <4>2
    <3> QED
      BY <3>2, <3>3
  <2> QED
    BY <1>3, <2>2, <2>3 DEF QuietInv
<1>7. CASE ~missed' /\ ~Pausing /\ missed
  <2>1. ~SetOnWire /\ report.version = version
    BY <1>1, <1>7
  <2>2. CommandsAsked'
    BY <1>1, <2>1 DEF CommandsAsked, SetOnWire
  <2>3. \A i \in 1..Len(air) : air[i].version = version /\ air[i].byte = held
    <3> SUFFICES ASSUME NEW i \in 1..Len(air)
                 PROVE  air[i].version = version /\ air[i].byte = held
      OBVIOUS
    <3>1. 1 \in 1..Len(air) /\ i \in 1..Len(air)
      BY <1>2
    <3>2. air[1].version <= air[i].version /\ air[i].version <= version
      BY <3>1 DEF QuietInv, VersionsTrue
    <3>3. air[i].version = version
      BY <1>2, <2>1, <3>2, AirVersions DEF CommandTypeOK
    <3> QED
      BY <3>3 DEF QuietInv, VersionsTrue
  <2>4. Correct'
    BY <1>2, <1>4, <2>3
  <2>5. air' # <<>> => air'[Len(air')].byte = held
    <3> SUFFICES ASSUME air' # <<>> PROVE air'[Len(air')].byte = held
      OBVIOUS
    <3>1. Len(air') \in 1..Len(air')
      BY <1>2, EmptySeq
    <3> QED
      BY <1>2, <2>3, <3>1
  <2>6. LastWordTrue'
    BY <1>1, <2>4, <2>5 DEF LastWordTrue
  <2> QED
    BY <1>3, <2>2, <2>6 DEF QuietInv
<1> QED
  BY <1>5, <1>6, <1>7

LEMMA NotifiedQuiet ==
  ASSUME CommandTypeOK, QuietInv, Notified
  PROVE  QuietInv'
<1>1. UNCHANGED <<air, version, held, wire, known, entity, missed>>
      /\ known # Unknown /\ lastMask' = known.mask
  BY DEF Notified
<1>2. Correct => Correct'
  BY <1>1 DEF Correct
<1> QED
  BY <1>1, <1>2, QuietUnchanged
     DEF QuietInv, Pausing, CommandsAsked, LastWordTrue

LEMMA TakeMessageQuiet ==
  ASSUME CommandTypeOK, CommandTypeOK', QuietInv, NEW refused \in BOOLEAN,
         TakeMessage(refused)
  PROVE  QuietInv'
<1> DEFINE message == Head(wire)
           new == IF message.kind = "set" /\ ~refused THEN message.byte
                  ELSE held
<1>1. /\ wire # <<>> /\ wire' = Tail(wire) /\ held' = new
      /\ version' = version + (IF new # held THEN 1 ELSE 0)
      /\ air' = IF message.kind = "ask" THEN Append(air, Report) ELSE air
      /\ UNCHANGED <<entity, missed, known, lastMask>>
  BY DEF TakeMessage
<1>2. /\ Len(wire) \in Nat \ {0} /\ Len(wire') = Len(wire) - 1
      /\ message = wire[1] /\ wire' \in Seq(Messages)
      /\ \A i \in 1..Len(wire') : wire'[i] = wire[i + 1]
  BY <1>1, TailElements DEF CommandTypeOK
<1>3. CommandsAsked => CommandsAsked'
  <2> SUFFICES ASSUME CommandsAsked, NEW i \in 1..Len(wire'),
                      wire'[i].kind = "set"
               PROVE  \E j \in 1..Len(wire') :
                        j > i /\ wire'[j].kind = "ask"
    BY DEF CommandsAsked
  <2>1. i + 1 \in 1..Len(wire) /\ wire[i + 1].kind = "set"
    BY <1>2
  <2>2. PICK j \in 1..Len(wire) : j > i + 1 /\ wire[j].kind = "ask"
    BY <2>1 DEF CommandsAsked
  <2>3. j - 1 \in 1..Len(wire') /\ j - 1 > i /\ wire'[j - 1] = wire[j]
    BY <1>2, <2>2
  <2> QED
    BY <2>2, <2>3
<1>4. version \in Nat /\ VersionsTrue
  BY DEF CommandTypeOK, QuietInv
<1>5. CASE message.kind = "ask"
  <2>1. held' = held /\ version' = version /\ air' = Append(air, Report)
    BY <1>1, <1>4, <1>5
  <2>2. Report \in Reports /\ Report.byte = held /\ Report.version = version
    BY ReportType DEF Report
  <2>3. VersionsTrue' /\ LastWordTrue'
    BY <1>4, <2>1, <2>2, ReportAdded
  <2> QED
    BY <1>1, <1>3, <2>3 DEF QuietInv, Pausing
<1>6. CASE message.kind # "ask"
  <2>1. air' = air
    BY <1>1, <1>6
  <2>2. VersionsTrue'
    <3>1. CASE held' = held /\ version' = version
      BY <1>4, <2>1, <3>1 DEF VersionsTrue
    <3>2. CASE version' = version + 1
      BY <1>4, <2>1, <3>2, AirVersions DEF VersionsTrue
    <3> QED
      BY <1>1, <1>4, <3>1, <3>2
  <2>3. ASSUME CommandsAsked PROVE wire' # <<>>
    <3>1. 1 \in 1..Len(wire) /\ wire[1].kind = "set"
      BY <1>2, <1>6 DEF CommandTypeOK, Messages
    <3>2. PICK j \in 1..Len(wire) : j > 1
      BY <2>3, <3>1 DEF CommandsAsked
    <3> QED
      BY <1>2, <3>2
  <2>4. CommandsAsked => LastWordTrue'
    BY <2>3 DEF LastWordTrue
  <2> QED
    BY <1>1, <1>3, <2>2, <2>4 DEF QuietInv, Pausing
<1> QED
  BY <1>5, <1>6

LEMMA SendReportQuiet ==
  ASSUME CommandTypeOK, CommandTypeOK', QuietInv, SendReport
  PROVE  QuietInv'
<1>1. air' = Append(air, Report)
      /\ UNCHANGED <<version, held, wire, entity, missed>>
  BY DEF SendReport
<1>2. Report \in Reports /\ Report.byte = held /\ Report.version = version
  BY ReportType DEF Report
<1>3. VersionsTrue' /\ LastWordTrue'
  <2>1. version' >= version
    BY <1>1 DEF CommandTypeOK
  <2> QED
    BY <1>1, <1>2, <2>1, ReportAdded DEF QuietInv
<1> QED
  BY <1>1, <1>3 DEF QuietInv, Pausing, CommandsAsked

LEMMA ChangeFlagQuiet ==
  ASSUME CommandTypeOK, CommandTypeOK', QuietInv,
         NEW f \in Flags, ChangeFlag(f)
  PROVE  QuietInv'
<1> DEFINE e == [Report EXCEPT !.byte = held', !.version = version']
<1>1. air' = Append(air, e) /\ version' = version + 1
      /\ UNCHANGED <<wire, entity, missed>>
  BY DEF ChangeFlag
<1>2. e \in Reports /\ e.byte = held' /\ e.version = version'
  BY ReportType DEF Reports, CommandTypeOK
<1>3. VersionsTrue' /\ LastWordTrue'
  <2>1. version' >= version /\ version' # version
    BY <1>1 DEF CommandTypeOK
  <2> HIDE DEF e
  <2> QED
    BY <1>1, <1>2, <2>1, ReportAdded DEF QuietInv
<1> QED
  BY <1>1, <1>3 DEF QuietInv, Pausing, CommandsAsked

LEMMA LoseLinkQuiet ==
  ASSUME CommandTypeOK, QuietInv, LoseLink
  PROVE  QuietInv'
<1>1. /\ missed' = (missed \/ air # <<>> \/ wire # <<>>)
      /\ wire' = <<>> /\ air' = <<>>
      /\ UNCHANGED <<held, version, known, lastMask, entity>>
  BY DEF LoseLink
<1>2. VersionsTrue'
  BY <1>1 DEF VersionsTrue
<1>3. CASE missed' \/ Pausing
  BY <1>1, <1>2, <1>3 DEF QuietInv, Pausing
<1>4. CASE ~missed' /\ ~Pausing
  <2>1. UNCHANGED <<air, wire>> /\ ~missed
    BY <1>1, <1>4
  <2> QED
    BY <1>1, <1>4, <2>1, QuietUnchanged
       DEF QuietInv, CommandsAsked, LastWordTrue, Correct
<1> QED
  BY <1>3, <1>4

LEMMA QuietStutter ==
  ASSUME QuietInv,
         UNCHANGED <<held, version, known, lastMask, wire, air, entity, missed>>
  PROVE  QuietInv'
BY DEF QuietInv, VersionsTrue, Pausing, CommandsAsked, LastWordTrue, Correct

LEMMA NextQuietInv ==
  ASSUME CommandInv, CommandInv', QuietInv, [CommandNext]_commandVars
  PROVE  QuietInv'
<1>1. CommandTypeOK /\ CommandTypeOK'
  BY DEF CommandInv
<1>2. CASE UNCHANGED commandVars
  BY <1>2, QuietStutter DEF commandVars
<1>3. ASSUME NEW s \in Settings, SessionStarted(s) PROVE QuietInv'
  BY <1>1, <1>3, PublishQuiet DEF SessionStarted
<1>4. CASE RestoreLink
  BY <1>4, QuietStutter DEF RestoreLink
<1>5. CASE CommandNext
  BY <1>1, <1>3, <1>4, <1>5, SetSettingQuiet, NotSentQuiet, RequestStatusQuiet,
     ReceiveQuiet, NotifiedQuiet, TakeMessageQuiet, SendReportQuiet,
     ChangeFlagQuiet, LoseLinkQuiet
     DEF CommandNext
<1> QED
  BY <1>2, <1>5

\* With nothing under way the known state is the device's, however commands
\* were refused, reports delayed and lost connections made again.
THEOREM QuietKnowledge == CommandSpec => []QuietCacheTrue
<1>1. QuietInv => QuietCacheTrue
  BY DEF QuietInv, QuietCacheTrue, LastWordTrue, Correct, Pausing, AtRest
<1> QED
  BY <1>1, InitQuietInv, NextQuietInv, CommandInductive, PTL DEF CommandSpec

(***************************************************************************)
(* Capacity and energy of a device's values (DeviceValues).  The values of *)
(* a message are handled one after the other; what they leave is shown by  *)
(* an induction over their number.  The capacity is then what was counted  *)
(* (ValuesInv), so each calculation is right when it is made.              *)
(***************************************************************************)
\* Induction over the numbers of a set.
LEMMA NatSet ==
  ASSUME NEW S \in SUBSET Nat, 0 \in S, \A n \in S : n + 1 \in S
  PROVE  S = Nat
<1> SUFFICES ASSUME Nat \ S # {} PROVE FALSE
  OBVIOUS
<1>1. PICK x \in Nat \ S : \A y \in Nat \ S : ~(<<y, x>> \in OpToRel(<,Nat))
  <2>1. Nat \ S \subseteq Nat OBVIOUS
  <2> QED BY <2>1, WFMin, NatLessThanWellFounded
<1>2. x # 0 /\ x - 1 \in Nat
  OBVIOUS
<1>3. CASE x - 1 \in S
  <2>1. (x - 1) + 1 \in S BY <1>3
  <2> QED BY <2>1
<1>4. CASE x - 1 \notin S
  <2>1. <<x - 1, x>> \in OpToRel(<,Nat)
    BY <1>2 DEF OpToRel
  <2> QED BY <2>1, <1>1, <1>2, <1>4
<1> QED BY <1>3, <1>4

\* The values of messages, and what is handed from one to the next.
Items == [key : AllKeys, value : Int]
AccFields == {"mqtt", "circuits", "heard", "capacity", "efficiency"}

\* after is the function of AllValues() for the first n values.
IsAfter(after, start, message, values, n) ==
  after = [i \in 0..n |->
             IF i = 0 THEN start ELSE OneValue(after[i - 1], message[i], values)]

\* The recursion defines a function, for any number of values.
LEMMA AfterExists ==
  ASSUME NEW start, NEW message, NEW values
  PROVE  \A n \in Nat : \E after : IsAfter(after, start, message, values, n)
<1> DEFINE S == {n \in Nat : \E after : IsAfter(after, start, message, values, n)}
<1>1. 0 \in S
  <2> DEFINE after == [i \in 0..0 |-> start]
             step == [i \in 0..0 |->
                        IF i = 0 THEN start
                        ELSE OneValue(after[i - 1], message[i], values)]
  <2>1. \A i \in 0..0 : i = 0
    OBVIOUS
  <2>2. after = step
    <3> DEFINE value(i) == OneValue(after[i - 1], message[i], values)
    <3>1. step = [i \in 0..0 |-> IF i = 0 THEN start ELSE value(i)]
      OBVIOUS
    <3> HIDE DEF value, step
    <3> QED BY <2>1, <3>1
  <2>3. IsAfter(after, start, message, values, 0)
    BY <2>2 DEF IsAfter
  <2> HIDE DEF after
  <2> QED BY <2>3
<1>2. ASSUME NEW n \in S PROVE n + 1 \in S
  <2>1. PICK after : IsAfter(after, start, message, values, n)
    OBVIOUS
  <2>2. n \in Nat
    OBVIOUS
  <2> HIDE DEF S
  <2>3. \A i \in 0..n : after[i] = IF i = 0 THEN start
                                   ELSE OneValue(after[i - 1], message[i], values)
    BY <2>1, <2>2 DEF IsAfter
  <2> DEFINE last == OneValue(after[n], message[n + 1], values)
             more == [i \in 0..(n + 1) |-> IF i = n + 1 THEN last ELSE after[i]]
             step == [i \in 0..(n + 1) |->
                        IF i = 0 THEN start
                        ELSE OneValue(more[i - 1], message[i], values)]
  <2>4. ASSUME NEW i \in 0..(n + 1) PROVE more[i] = step[i]
    <3>1. CASE i = n + 1
      <4>1. i - 1 = n /\ n \in 0..(n + 1) /\ n # n + 1 /\ i # 0
        BY <2>2, <3>1
      <4>2. more[i - 1] = after[n] /\ more[i] = last
        BY <3>1, <4>1
      <4> HIDE DEF more
      <4>3. step[i] = last
        BY <3>1, <4>1, <4>2
      <4> QED BY <4>2, <4>3
    <3>2. CASE i \in 0..n
      <4>1. i # n + 1 /\ (i # 0 => i - 1 \in 0..(n + 1) /\ i - 1 # n + 1)
        BY <2>2, <3>2
      <4>2. (i # 0 => more[i - 1] = after[i - 1]) /\ more[i] = after[i]
        BY <4>1
      <4>3. after[i] = IF i = 0 THEN start
                       ELSE OneValue(after[i - 1], message[i], values)
        BY <2>3, <3>2
      <4> HIDE DEF more, last
      <4>4. CASE i = 0
        BY <4>2, <4>3, <4>4
      <4>5. CASE i # 0
        BY <4>2, <4>3, <4>5
      <4> QED BY <4>4, <4>5
    <3> QED BY <2>2, <3>1, <3>2
  <2>5. more = step
    BY <2>4
  <2>6. IsAfter(more, start, message, values, n + 1)
    BY <2>5 DEF IsAfter
  <2>7. n + 1 \in Nat
    BY <2>2
  <2> HIDE DEF more, step, last
  <2> QED BY <2>6, <2>7 DEF S
<1> QED BY <1>1, <1>2, NatSet

\* No value takes back that the capacity is to be calculated, and a state of
\* charge asks for it.
LEMMA OneValueAsks ==
  ASSUME NEW acc, DOMAIN acc = AccFields, NEW item \in Items, NEW values
  PROVE  /\ DOMAIN OneValue(acc, item, values) = AccFields
         /\ acc.capacity \/ item.key \in SocKeys
              => OneValue(acc, item, values).capacity
<1> DEFINE k == item.key
           v == item.value
           new == OneValue(acc, item, values)
<1>1. ASSUME NEW m
      PROVE  DOMAIN Number(acc, k, m, values) = AccFields
             /\ (acc.capacity \/ k \in SocKeys => Number(acc, k, m, values).capacity)
  <2>1. PICK shown : Number(acc, k, m, values) =
                       [acc EXCEPT !.mqtt = shown, !.capacity = @ \/ k \in SocKeys]
    BY DEF Number
  <2> QED BY <2>1 DEF AccFields
<1>2. DOMAIN Counter(acc, k, v) = AccFields
      /\ (acc.capacity => Counter(acc, k, v).capacity)
  BY DEF Counter, AccFields
<1>3. DOMAIN Plain(acc, k, v) = AccFields
      /\ (acc.capacity => Plain(acc, k, v).capacity)
  BY DEF Plain, AccFields
<1>4. DOMAIN Expansion(acc, k, v) = AccFields
      /\ (acc.capacity => Expansion(acc, k, v).capacity)
  BY DEF Expansion, AccFields
<1>5. k \in SocKeys => /\ k \in NumberKeys /\ k \notin CounterKeys
                       /\ k \notin PlainKeys /\ k \notin Range(Packs)
  BY DEF SocKeys, NumberKeys, CounterKeys, PlainKeys, Packs, PortPriority, Ids, Range
<1>6. /\ \/ k \in NumberKeys /\ new = Number(acc, k, v, values)
         \/ k \in CounterKeys /\ new = Counter(acc, k, v)
         \/ k \in PlainKeys /\ new = Plain(acc, k, v)
         \/ k \in Range(Packs) /\ new = Expansion(acc, k, v)
  BY DEF OneValue, Items, AllKeys
<1> HIDE DEF k, v, new
<1> QED BY <1>1, <1>2, <1>3, <1>4, <1>5, <1>6 DEF new, k

\* So after all values, if one of them is a state of charge.
LEMMA AllValuesAsk ==
  ASSUME NEW start, DOMAIN start = AccFields, NEW message \in Seq(Items), NEW values,
         Keys(message) \cap SocKeys # {}
  PROVE  AllValues(start, message, values).capacity
<1> DEFINE n == Len(message)
           after == CHOOSE after : IsAfter(after, start, message, values, n)
           S == {i \in Nat : i <= n =>
                   /\ DOMAIN after[i] = AccFields
                   /\ (\E j \in 1..i : message[j].key \in SocKeys) => after[i].capacity}
<1>1. n \in Nat
  OBVIOUS
<1>2. AllValues(start, message, values) = after[n]
  BY DEF AllValues, IsAfter
<1>3. IsAfter(after, start, message, values, n)
  BY <1>1, AfterExists
<1> HIDE DEF after
<1>4. \A i \in 0..n : after[i] = IF i = 0 THEN start
                                 ELSE OneValue(after[i - 1], message[i], values)
  <2> HIDE DEF S
  <2> QED BY <1>1, <1>3 DEF IsAfter
<1>5. 0 \in S
  <2>1. after[0] = start
    BY <1>1, <1>4
  <2>2. \A j \in 1..0 : FALSE
    OBVIOUS
  <2>3. 0 \in Nat
    OBVIOUS
  <2> QED BY <2>1, <2>2, <2>3
<1>6. ASSUME NEW k \in S PROVE k + 1 \in S
  <2>1. k \in Nat /\ k + 1 \in Nat
    OBVIOUS
  <2> SUFFICES ASSUME k + 1 <= n
               PROVE  /\ DOMAIN after[k + 1] = AccFields
                      /\ (\E j \in 1..(k + 1) : message[j].key \in SocKeys)
                           => after[k + 1].capacity
    BY <2>1
  <2>2. k <= n /\ k + 1 \in 0..n /\ k + 1 # 0 /\ (k + 1) - 1 = k /\ k + 1 \in 1..n
    BY <1>1, <2>1
  <2>3. /\ DOMAIN after[k] = AccFields
        /\ (\E j \in 1..k : message[j].key \in SocKeys) => after[k].capacity
    BY <2>2
  <2> HIDE DEF S
  <2> DEFINE item == message[k + 1]
  <2>4. item \in Items
    BY <2>2
  <2>5. after[k + 1] = OneValue(after[k], item, values)
    BY <1>4, <2>2
  <2>6. \A j \in 1..(k + 1) : j \in 1..k \/ j = k + 1
    BY <2>1
  <2>7. /\ DOMAIN OneValue(after[k], item, values) = AccFields
        /\ after[k].capacity \/ item.key \in SocKeys
             => OneValue(after[k], item, values).capacity
    BY <2>3, <2>4, OneValueAsks
  <2>8. (\E j \in 1..(k + 1) : message[j].key \in SocKeys)
          => after[k].capacity \/ item.key \in SocKeys
    BY <2>3, <2>6
  <2> QED BY <2>5, <2>7, <2>8
<1>7. S = Nat
  <2> HIDE DEF S
  <2>1. S \subseteq Nat
    BY DEF S
  <2> QED BY <1>5, <1>6, <2>1, NatSet
<1>8. (\E j \in 1..n : message[j].key \in SocKeys) => after[n].capacity
  BY <1>1, <1>7
<1>9. \E j \in 1..n : message[j].key \in SocKeys
  BY DEF Keys
<1> QED BY <1>2, <1>8, <1>9

(***************************************************************************)
(* The invariant.                                                          *)
(***************************************************************************)
DevFields == {"soc", "packs", "overlay", "count", "capacity", "energy", "custom"}

\* The capacity counts the expansions that were counted last.
ValuesInv ==
  /\ deviceKind \in Kinds /\ DOMAIN dev = DevFields
  /\ dev.capacity # NoValue => dev.capacity = PackSize * (1 + dev.count)

\* Calculating makes them right, since an unchanged count has its capacity.
LEMMA CalculatedRight ==
  ASSUME NEW d, DOMAIN d = DevFields, NEW m,
         d.capacity # NoValue => d.capacity = PackSize * (1 + d.count)
  PROVE  /\ DOMAIN Calculated(d, m) = DevFields
         /\ Calculated(d, m).capacity = PackSize * (1 + Calculated(d, m).count)
         /\ EnergyRight(Calculated(d, m), m)
         /\ Calculated(d, m).soc = d.soc /\ Calculated(d, m).custom = d.custom
<1> DEFINE count == PackCount(d, m)
           capacity == IF d.capacity = NoValue \/ count # d.count
                         THEN PackSize * (1 + count) ELSE d.capacity
           soc == Soc(d, m)
           energy == IF soc = NoValue THEN d.energy ELSE Energy(d, capacity, soc)
           c == Calculated(d, m)
<1>1. capacity = PackSize * (1 + count)
  OBVIOUS
<1>2. c = [d EXCEPT !.count = count, !.capacity = capacity, !.energy = energy]
  BY DEF Calculated
<1> HIDE DEF c, energy, capacity, count, soc
<1>3. /\ DOMAIN c = DevFields /\ c.count = count /\ c.capacity = capacity
      /\ c.energy = energy /\ c.soc = d.soc /\ c.custom = d.custom
      /\ c.packs = d.packs /\ c.overlay = d.overlay
  BY <1>2 DEF DevFields
<1>4. PackCount(c, m) = count /\ Soc(c, m) = soc
  BY <1>3 DEF PackCount, Soc, count, soc
<1>5. Energy(c, capacity, soc) = Energy(d, capacity, soc)
  BY <1>3 DEF Energy
<1>6. soc # NoValue => energy = Energy(d, capacity, soc)
  BY DEF energy
<1>7. EnergyRight(c, m)
  BY <1>1, <1>3, <1>4, <1>5, <1>6 DEF EnergyRight
<1> QED BY <1>1, <1>3, <1>7 DEF c

\* A device begins without a capacity.
LEMMA ValuesStart == ValuesInit => ValuesInv
  BY DEF ValuesInit, ValuesInv, DevFields, NoValue

\* What EnergyCurrent says of a step.
EnergyStep ==
  (\/ MessageTells(SocKeys) /\ Get(merged', "battery_soc", 0) # 0
   \/ dev'.soc # dev.soc
   \/ dev'.custom # dev.custom) => EnergyRight(dev', merged')

\* A message: a state of charge in it asks for the calculation (AllValuesAsk).
LEMMA MessageKeeps ==
  ASSUME ValuesInv, ReceiveValues PROVE ValuesInv' /\ EnergyStep
<1>1. PICK message \in DeviceMessages[deviceKind] :
        LET values == ValuesOf(message)
            all == values @@ heard
            acc == AllValues([mqtt |-> merged, circuits |-> <<>>, heard |-> all,
                              capacity |-> FALSE, efficiency |-> FALSE],
                             message, values)
            rated == IF acc.efficiency THEN Efficiency(acc.mqtt) ELSE acc.mqtt
            paired == IF acc.circuits = <<>> THEN rated
                      ELSE Put(rated, "circuits", acc.circuits)
            drawn == IF Demands[1] \in DOMAIN values THEN Combined(paired)
                     ELSE IF PortPriority[1] \in DOMAIN values
                       THEN PortMask(paired, values)
                     ELSE paired
            batteries == acc.capacity /\ dev.capacity # NoValue
            now == IF batteries THEN Batteries(drawn, all) ELSE drawn
        IN /\ heard' = all
           /\ merged' = now
           /\ dev' = IF /\ batteries /\ Get(now, "battery_soc", 0) # 0
                        /\ dev.soc = NoValue \/ dev.overlay
                       THEN Calculated(dev, now) ELSE dev
           /\ lastMessage' = message
  BY DEF ReceiveValues
<1> DEFINE values == ValuesOf(message)
           all == values @@ heard
           start == [mqtt |-> merged, circuits |-> <<>>, heard |-> all,
                     capacity |-> FALSE, efficiency |-> FALSE]
           acc == AllValues(start, message, values)
<1>2. /\ lastMessage' = message /\ deviceKind' = deviceKind
      /\ dev' = IF /\ acc.capacity /\ dev.capacity # NoValue
                   /\ Get(merged', "battery_soc", 0) # 0
                   /\ dev.soc = NoValue \/ dev.overlay
                  THEN Calculated(dev, merged') ELSE dev
  <2> HIDE DEF values, all, acc
  <2> QED BY <1>1 DEF ReceiveValues, values, all, acc
<1>3. Keys(message) \cap SocKeys # {} => acc.capacity
  <2>1. message \in Seq(Items)
    BY MessageAssumption DEF ValuesInv, Items
  <2>2. DOMAIN start = AccFields
    BY DEF AccFields
  <2> HIDE DEF start, values
  <2> QED BY <2>1, <2>2, AllValuesAsk
<1> HIDE DEF acc
<1>4. CASE /\ acc.capacity /\ dev.capacity # NoValue
           /\ Get(merged', "battery_soc", 0) # 0
           /\ dev.soc = NoValue \/ dev.overlay
  <2>1. dev' = Calculated(dev, merged')
    BY <1>2, <1>4
  <2>2. /\ DOMAIN dev' = DevFields /\ dev'.capacity = PackSize * (1 + dev'.count)
        /\ EnergyRight(dev', merged')
    BY <2>1, CalculatedRight DEF ValuesInv
  <2> QED BY <1>2, <2>2 DEF ValuesInv, EnergyStep
<1>5. CASE ~(/\ acc.capacity /\ dev.capacity # NoValue
             /\ Get(merged', "battery_soc", 0) # 0
             /\ dev.soc = NoValue \/ dev.overlay)
  <2>1. dev' = dev
    BY <1>2, <1>5
  <2>2. ~(MessageTells(SocKeys) /\ Get(merged', "battery_soc", 0) # 0)
    BY <1>2, <1>3, <1>5 DEF MessageTells
  <2> QED BY <1>2, <2>1, <2>2 DEF ValuesInv, EnergyStep
<1> QED BY <1>4, <1>5

\* A poll: another state of charge or number of expansions calculates.
LEMMA PollKeeps ==
  ASSUME ValuesInv, PollDevice PROVE ValuesInv' /\ EnergyStep
<1>1. PICK s \in CloudSocs, p \in CloudPacks :
        LET new == [dev EXCEPT !.soc = IF s = NoValue THEN @ ELSE s,
                               !.packs = IF p = NoValue THEN @ ELSE p]
        IN dev' = IF \/ dev.capacity = NoValue
                     \/ new.soc # dev.soc \/ new.packs # dev.packs
                    THEN Calculated(new, merged) ELSE new
  BY DEF PollDevice
<1> DEFINE new == [dev EXCEPT !.soc = IF s = NoValue THEN @ ELSE s,
                              !.packs = IF p = NoValue THEN @ ELSE p]
<1>2. /\ merged' = merged /\ deviceKind' = deviceKind /\ messages' = messages
  BY DEF PollDevice
<1>3. /\ DOMAIN new = DevFields /\ new.capacity = dev.capacity
      /\ new.count = dev.count /\ new.custom = dev.custom
  BY DEF ValuesInv, DevFields
<1>4. dev' = Calculated(new, merged) \/ (dev' = new /\ new.soc = dev.soc)
  BY <1>1
<1> HIDE DEF new
<1>5. CASE dev' = Calculated(new, merged)
  <2>1. /\ DOMAIN dev' = DevFields /\ dev'.capacity = PackSize * (1 + dev'.count)
        /\ EnergyRight(dev', merged')
    BY <1>2, <1>3, <1>5, CalculatedRight DEF ValuesInv
  <2> QED BY <1>2, <2>1 DEF ValuesInv, EnergyStep
<1>6. CASE dev' = new /\ new.soc = dev.soc
  BY <1>2, <1>3, <1>6 DEF ValuesInv, EnergyStep, MessageTells
<1> QED BY <1>4, <1>5, <1>6

\* The choices of the user.
LEMMA CustomizeKeeps ==
  ASSUME ValuesInv, CustomizeSize \/ CustomizeOverlay PROVE ValuesInv' /\ EnergyStep
<1>1. /\ merged' = merged /\ deviceKind' = deviceKind /\ messages' = messages
  BY DEF CustomizeSize, CustomizeOverlay
<1>2. CASE CustomizeSize
  <2>1. PICK c \in CustomSizes : dev' = Calculated([dev EXCEPT !.custom = c], merged)
    BY <1>2 DEF CustomizeSize
  <2> DEFINE new == [dev EXCEPT !.custom = c]
  <2>2. /\ DOMAIN new = DevFields /\ new.capacity = dev.capacity
        /\ new.count = dev.count
    BY DEF ValuesInv, DevFields
  <2> HIDE DEF new
  <2>3. /\ DOMAIN dev' = DevFields /\ dev'.capacity = PackSize * (1 + dev'.count)
        /\ EnergyRight(dev', merged')
    BY <1>1, <2>1, <2>2, CalculatedRight DEF ValuesInv, new
  <2> QED BY <1>1, <2>3 DEF ValuesInv, EnergyStep
<1>3. CASE CustomizeOverlay
  <2>1. dev' = [dev EXCEPT !.overlay = ~@]
    BY <1>3 DEF CustomizeOverlay
  <2>2. /\ DOMAIN dev' = DevFields /\ dev'.capacity = dev.capacity
        /\ dev'.count = dev.count /\ dev'.soc = dev.soc /\ dev'.custom = dev.custom
    BY <2>1 DEF ValuesInv, DevFields
  <2> QED BY <1>1, <2>2 DEF ValuesInv, EnergyStep, MessageTells
<1> QED BY <1>2, <1>3

\* Every step.
LEMMA ValuesStep == ValuesInv /\ [ValuesNext]_valueVars => ValuesInv' /\ EnergyStep
<1> SUFFICES ASSUME ValuesInv, [ValuesNext]_valueVars PROVE ValuesInv' /\ EnergyStep
  OBVIOUS
<1>1. CASE UNCHANGED valueVars
  BY <1>1 DEF valueVars, ValuesInv, EnergyStep, MessageTells
<1>2. CASE ReceiveValues
  BY <1>2, MessageKeeps
<1>3. CASE PollDevice
  BY <1>3, PollKeeps
<1>4. CASE CustomizeSize \/ CustomizeOverlay
  BY <1>4, CustomizeKeeps
<1> QED BY <1>1, <1>2, <1>3, <1>4 DEF ValuesNext

\* Whatever a message tells and in which order, and however messages, polls and
\* the user's changes follow one another: capacity and energy are those of the
\* last state of charge, count of expansions and customised capacity.
THEOREM EnergyFollows == ValuesSpec => EnergyCurrent
<1>1. ValuesInv /\ [ValuesNext]_valueVars => ValuesInv'
  BY ValuesStep
<1>2. ValuesInv /\ [ValuesNext]_valueVars
        => [(\/ MessageTells(SocKeys) /\ Get(merged', "battery_soc", 0) # 0
             \/ dev'.soc # dev.soc
             \/ dev'.custom # dev.custom)
              => EnergyRight(dev', merged')]_valueVars
  BY ValuesStep DEF EnergyStep
<1> QED BY ValuesStart, <1>1, <1>2, PTL DEF ValuesSpec, EnergyCurrent

(***************************************************************************)
(* The circuits of a device (DeviceValues).  The circuits known are lists  *)
(* of different circuits, no circuit is in two of them; a message that     *)
(* tells the power of all circuits is shown as told while its values are   *)
(* handled, and combining the circuits of a group keeps the sum.           *)
(***************************************************************************)
Circuits(m) == Get(m, "circuits", <<>>)

Used(c) == UNION {Range(c[id]) : id \in DOMAIN c}

\* No circuit occurs twice.
GoodCircuits(c) ==
  /\ \A id \in DOMAIN c : /\ c[id] \in Seq(1..3)
                          /\ \A i, j \in 1..Len(c[id]) : i # j => c[id][i] # c[id][j]
  /\ \A id, other \in DOMAIN c : id # other => Range(c[id]) \cap Range(c[other]) = {}

LEMMA PutIs ==
  ASSUME NEW f, NEW k, NEW v
  PROVE  /\ DOMAIN Put(f, k, v) = DOMAIN f \cup {k}
         /\ Put(f, k, v)[k] = v
         /\ \A x \in DOMAIN f : x # k => Put(f, k, v)[x] = f[x]
BY DEF Put

\* One circuit more has an id.
LEMMA CircuitAdded ==
  ASSUME NEW c, GoodCircuits(c), NEW i \in 1..3, i \notin Used(c), NEW v
  PROVE  LET new == Put(c, v, Append(Get(c, v, <<>>), i))
         IN GoodCircuits(new) /\ new # <<>> /\ Used(new) \subseteq Used(c) \cup {i}
<1> DEFINE list == Get(c, v, <<>>)
           more == Append(list, i)
           new == Put(c, v, more)
<1>1. list \in Seq(1..3) /\ Range(list) \subseteq Used(c)
  <2>1. CASE v \in DOMAIN c
    BY <2>1 DEF Get, GoodCircuits, Used
  <2>2. CASE v \notin DOMAIN c
    <3>1. list = <<>> /\ DOMAIN list = {}
      BY <2>2 DEF Get
    <3> HIDE DEF list
    <3>2. list \in Seq(1..3)
      BY <3>1
    <3>3. Range(list) = {}
      BY <3>1 DEF Range
    <3> QED BY <3>2, <3>3
  <2> QED BY <2>1, <2>2
<1>2. \A a, b \in 1..Len(list) : a # b => list[a] # list[b]
  <2>1. CASE v \in DOMAIN c
    BY <2>1 DEF Get, GoodCircuits
  <2>2. CASE v \notin DOMAIN c
    BY <2>2 DEF Get
  <2> QED BY <2>1, <2>2
<1>3. \A id \in DOMAIN c : id # v => Range(list) \cap Range(c[id]) = {}
  <2>1. CASE v \in DOMAIN c
    BY <2>1 DEF Get, GoodCircuits
  <2>2. CASE v \notin DOMAIN c
    BY <2>2 DEF Get, Range
  <2> QED BY <2>1, <2>2
<1> HIDE DEF list
<1>4. /\ more \in Seq(1..3) /\ Len(more) = Len(list) + 1 /\ Len(list) \in Nat
      /\ more[Len(list) + 1] = i
      /\ \A a \in 1..Len(list) : more[a] = list[a]
  BY <1>1, AppendProperties, LenProperties
<1>5. /\ Range(list) = {list[a] : a \in 1..Len(list)}
      /\ Range(more) = {more[a] : a \in 1..Len(more)}
  BY <1>1, <1>4, RangeEquality
<1> HIDE DEF more
<1>6. Range(more) = Range(list) \cup {i}
  <2>1. ASSUME NEW a \in 1..Len(more) PROVE more[a] \in Range(list) \cup {i}
    <3>1. CASE a = Len(list) + 1
      BY <3>1, <1>4
    <3>2. CASE a # Len(list) + 1
      <4>1. a \in 1..Len(list)
        BY <3>2, <1>4
      <4> QED BY <4>1, <1>4, <1>5
    <3> QED BY <3>1, <3>2
  <2>2. ASSUME NEW a \in 1..Len(list) PROVE list[a] \in Range(more)
    <3>1. a \in 1..Len(more)
      BY <1>4
    <3> QED BY <3>1, <1>4, <1>5
  <2>3. i \in Range(more)
    <3>1. Len(list) + 1 \in 1..Len(more)
      BY <1>4
    <3> QED BY <3>1, <1>4, <1>5
  <2> QED BY <2>1, <2>2, <2>3, <1>5
<1>7. \A a, b \in 1..Len(more) : a # b => more[a] # more[b]
  <2> SUFFICES ASSUME NEW a \in 1..Len(more), NEW b \in 1..Len(more), a # b
               PROVE  more[a] # more[b]
    OBVIOUS
  <2>1. i \notin Range(list)
    BY <1>1
  <2>2. \A x \in 1..Len(more) : x = Len(list) + 1 \/ x \in 1..Len(list)
    BY <1>4
  <2>3. \A x \in 1..Len(list) : more[x] # i
    BY <2>1, <1>4, <1>5
  <2> QED BY <2>2, <2>3, <1>2, <1>4
<1>8. /\ DOMAIN new = DOMAIN c \cup {v} /\ new[v] = more
      /\ \A x \in DOMAIN c : x # v => new[x] = c[x]
  BY DEF Put
<1> HIDE DEF new
<1>9. new # <<>>
  <2>1. DOMAIN <<>> = {}
    OBVIOUS
  <2> QED BY <2>1, <1>8
<1>10. \A x \in DOMAIN c : x # v => i \notin Range(c[x])
  BY DEF Used
<1>11. \A id \in DOMAIN new : /\ new[id] \in Seq(1..3)
                              /\ \A a, b \in 1..Len(new[id]) : a # b => new[id][a] # new[id][b]
  <2> SUFFICES ASSUME NEW id \in DOMAIN new
               PROVE  /\ new[id] \in Seq(1..3)
                      /\ \A a, b \in 1..Len(new[id]) : a # b => new[id][a] # new[id][b]
    OBVIOUS
  <2>1. CASE id = v
    BY <2>1, <1>4, <1>7, <1>8
  <2>2. CASE id # v
    <3>1. id \in DOMAIN c /\ new[id] = c[id]
      BY <2>2, <1>8
    <3> QED BY <3>1 DEF GoodCircuits
  <2> QED BY <2>1, <2>2
<1>12. \A id, other \in DOMAIN new : id # other => Range(new[id]) \cap Range(new[other]) = {}
  <2>1. \A id \in DOMAIN new : id # v => id \in DOMAIN c /\ new[id] = c[id]
    BY <1>8
  <2>2. \A id \in DOMAIN c : id # v => Range(more) \cap Range(c[id]) = {}
    BY <1>3, <1>6, <1>10
  <2>3. \A id, other \in DOMAIN c : id # other => Range(c[id]) \cap Range(c[other]) = {}
    BY DEF GoodCircuits
  <2> QED BY <2>1, <2>2, <2>3, <1>8
<1>13. GoodCircuits(new)
  BY <1>11, <1>12 DEF GoodCircuits
<1>14. Used(new) \subseteq Used(c) \cup {i}
  <2>1. ASSUME NEW id \in DOMAIN new PROVE Range(new[id]) \subseteq Used(c) \cup {i}
    <3>1. CASE id = v
      BY <3>1, <1>1, <1>6, <1>8
    <3>2. CASE id # v
      <4>1. id \in DOMAIN c /\ new[id] = c[id]
        BY <3>2, <1>8
      <4> QED BY <4>1 DEF Used
    <3> QED BY <3>1, <3>2
  <2> QED BY <2>1 DEF Used
<1> QED BY <1>9, <1>13, <1>14 DEF new, more, list

LEMMA DemandsAre ==
  /\ Demands[1] = "home_demand_circuit_01" /\ Demands[2] = "home_demand_circuit_02"
  /\ Demands[3] = "home_demand_circuit_03"
  /\ Range(Demands) = {Demands[1], Demands[2], Demands[3]}
  /\ \A i, j \in 1..3 : i # j => Demands[i] # Demands[j]
<1>1. /\ Demands[1] = "home_demand_circuit_01" /\ Demands[2] = "home_demand_circuit_02"
      /\ Demands[3] = "home_demand_circuit_03" /\ DOMAIN Demands = 1..3
  BY DEF Demands
<1>2. \A i \in 1..3 : i = 1 \/ i = 2 \/ i = 3
  OBVIOUS
<1>3. Range(Demands) = {Demands[1], Demands[2], Demands[3]}
  BY <1>1, <1>2 DEF Range
<1>4. \A i, j \in 1..3 : i # j => Demands[i] # Demands[j]
  BY <1>1, <1>2
<1> QED BY <1>1, <1>3, <1>4

\* The power of the three circuits, each known.
Told(m) == Range(Demands) \subseteq DOMAIN m /\ \A k \in Range(Demands) : m[k] \in Int

LEMMA PowerIs ==
  ASSUME NEW m, Told(m)
  PROVE  Power(m) = m[Demands[1]] + m[Demands[2]] + m[Demands[3]]
<1>1. Demands[1] \in DOMAIN m /\ Demands[2] \in DOMAIN m /\ Demands[3] \in DOMAIN m
  BY DemandsAre DEF Told
<1> QED BY <1>1 DEF Power, Get

\* There is one group at most; its first circuit has the power of all, the
\* others go.
LEMMA OneGroup ==
  ASSUME NEW m, GoodCircuits(Circuits(m)), NEW g \in Groups(m)
  PROVE  /\ g \in Seq(1..3) /\ Len(g) \in Nat /\ Len(g) > 1 /\ g[1] \in 1..3
         /\ \A i \in 2..Len(g) : g[i] \in 1..3 /\ g[i] # g[1]
         /\ Groups(m) = {g}
<1>1. PICK id \in DOMAIN Circuits(m) : g = Circuits(m)[id]
  BY DEF Groups, Circuits, Range
<1>2. /\ g \in Seq(1..3) /\ Len(g) > 1
      /\ \A i, j \in 1..Len(g) : i # j => g[i] # g[j]
  BY <1>1 DEF GoodCircuits, Groups
<1>3. Len(g) \in Nat /\ \A i \in 1..Len(g) : g[i] \in 1..3
  BY <1>2, LenProperties, ElementOfSeq
<1>4. g[1] \in 1..3 /\ g[2] \in 1..3 /\ g[1] # g[2] /\ {g[1], g[2]} \subseteq Range(g)
  <2>1. 1 \in 1..Len(g) /\ 2 \in 1..Len(g)
    BY <1>2, <1>3
  <2>2. Range(g) = {g[i] : i \in 1..Len(g)}
    BY <1>2, RangeEquality
  <2> QED BY <2>1, <2>2, <1>2, <1>3
<1>5. \A i \in 2..Len(g) : g[i] \in 1..3 /\ g[i] # g[1]
  <2> SUFFICES ASSUME NEW i \in 2..Len(g) PROVE g[i] \in 1..3 /\ g[i] # g[1]
    OBVIOUS
  <2>1. i \in 1..Len(g) /\ 1 \in 1..Len(g) /\ i # 1
    BY <1>2, <1>3
  <2> QED BY <2>1, <1>2, <1>3
<1>6. ASSUME NEW other \in Groups(m) PROVE other = g
  <2>1. PICK otherId \in DOMAIN Circuits(m) : other = Circuits(m)[otherId]
    BY DEF Groups, Circuits, Range
  <2>2. /\ other \in Seq(1..3) /\ Len(other) > 1
        /\ \A i, j \in 1..Len(other) : i # j => other[i] # other[j]
    BY <2>1 DEF GoodCircuits, Groups
  <2>3. Len(other) \in Nat /\ \A i \in 1..Len(other) : other[i] \in 1..3
    BY <2>2, LenProperties, ElementOfSeq
  <2>4. /\ other[1] \in 1..3 /\ other[2] \in 1..3 /\ other[1] # other[2]
        /\ {other[1], other[2]} \subseteq Range(other)
    <3>1. 1 \in 1..Len(other) /\ 2 \in 1..Len(other)
      BY <2>2, <2>3
    <3>2. Range(other) = {other[i] : i \in 1..Len(other)}
      BY <2>2, RangeEquality
    <3> QED BY <3>1, <3>2, <2>2, <2>3
  <2>5. CASE otherId # id
    <3>1. Range(g) \cap Range(other) = {}
      BY <2>5, <2>1, <1>1 DEF GoodCircuits
    <3>2. /\ g[1] # other[1] /\ g[1] # other[2] /\ g[2] # other[1] /\ g[2] # other[2]
      BY <3>1, <2>4, <1>4
    <3> QED BY <3>2, <2>4, <1>4
  <2> QED BY <2>5, <2>1, <1>1
<1> QED BY <1>2, <1>3, <1>4, <1>5, <1>6

LEMMA CombinedAddsUp ==
  ASSUME NEW m, Told(m), GoodCircuits(Circuits(m))
  PROVE  Power(Combined(m)) = Power(m)
<1> DEFINE n == Combined(m)
           D(i) == Demands[i]
<1>1. /\ \A i \in 1..3 : D(i) \in DOMAIN m /\ m[D(i)] \in Int
      /\ \A i, j \in 1..3 : D(i) = D(j) => i = j
  <2>1. \A i \in 1..3 : i = 1 \/ i = 2 \/ i = 3
    OBVIOUS
  <2> QED BY <2>1, DemandsAre DEF Told
<1>2. Power(m) = m[D(1)] + m[D(2)] + m[D(3)]
  BY PowerIs
<1>3. Power(n) = Get(n, D(1), 0) + Get(n, D(2), 0) + Get(n, D(3), 0)
  BY DEF Power
<1>4. CASE Groups(m) = {}
  <2>1. FirstDemands(m) = {} /\ OtherDemands(m) = {}
    BY <1>4 DEF FirstDemands, OtherDemands
  <2>2. n = [k \in DOMAIN m |-> m[k]]
    BY <2>1 DEF Combined
  <2> HIDE DEF n, D
  <2>3. \A i \in 1..3 : Get(n, D(i), 0) = m[D(i)]
    BY <2>2, <1>1 DEF Get
  <2>4. /\ Get(n, D(1), 0) = m[D(1)] /\ Get(n, D(2), 0) = m[D(2)]
        /\ Get(n, D(3), 0) = m[D(3)]
    BY <2>3
  <2>5. Power(n) = Power(m)
    BY <2>4, <1>2, <1>3
  <2> QED BY <2>5 DEF n
<1>5. ASSUME NEW g \in Groups(m) PROVE Power(n) = Power(m)
  <2>1. /\ g \in Seq(1..3) /\ Len(g) \in Nat /\ Len(g) > 1 /\ g[1] \in 1..3
        /\ \A i \in 2..Len(g) : g[i] \in 1..3 /\ g[i] # g[1]
        /\ Groups(m) = {g}
    BY OneGroup
  <2> DEFINE first == g[1]
             sum == Share(m, g, 1) + Share(m, g, 2) + Share(m, g, 3)
             others == {g[j] : j \in 2..Len(g)}
  <2>2. FirstDemands(m) = {D(first)} /\ OtherDemands(m) = {D(i) : i \in others}
    <3>1. FirstDemands(m) = {D(first)}
      BY <2>1 DEF FirstDemands
    <3>2. OtherDemands(m) = {D(g[j]) : j \in 2..Len(g)}
      BY <2>1 DEF OtherDemands
    <3> QED BY <3>1, <3>2
  <2>3. Shared(m, D(first)) = sum
    <3>1. (CHOOSE h \in Groups(m) : Demands[h[1]] = D(first)) = g
      BY <2>1
    <3> QED BY <3>1 DEF Shared
  <2>4. first \in 1..3 /\ others \subseteq 1..3 /\ first \notin others
    BY <2>1
  <2>5. \A i \in 1..3 : i \in Range(g) <=> i = first \/ i \in others
    <3>1. Range(g) = {g[j] : j \in 1..Len(g)}
      BY <2>1, RangeEquality
    <3>2. \A j \in 1..Len(g) : j = 1 \/ j \in 2..Len(g)
      BY <2>1
    <3>3. 1 \in 1..Len(g) /\ 2..Len(g) \subseteq 1..Len(g)
      BY <2>1
    <3> QED BY <3>1, <3>2, <3>3
  <2>6. n = [k \in (DOMAIN m \cup FirstDemands(m)) \ OtherDemands(m) |->
               IF k \in FirstDemands(m) THEN Shared(m, k) ELSE m[k]]
    BY DEF Combined
  <2>7. \A i \in 1..3 : Share(m, g, i) = IF i = first \/ i \in others THEN m[D(i)] ELSE 0
    <3>1. \A i \in 1..3 : Get(m, Demands[i], 0) = m[D(i)]
      BY <1>1 DEF Get
    <3> QED BY <3>1, <2>5 DEF Share
  <2> HIDE DEF n, first, others, sum, D
  <2>8. ASSUME NEW i \in 1..3
        PROVE  Get(n, D(i), 0) = IF i = first THEN sum ELSE IF i \in others THEN 0 ELSE m[D(i)]
    <3>1. D(i) \in FirstDemands(m) <=> i = first
      BY <2>2, <2>4, <1>1
    <3>2. D(i) \in OtherDemands(m) <=> i \in others
      BY <2>2, <2>4, <1>1
    <3>3. D(i) \in DOMAIN m
      BY <1>1
    <3>4. CASE i = first
      <4>1. D(i) \in DOMAIN n /\ n[D(i)] = sum
        BY <3>1, <3>2, <3>3, <3>4, <2>3, <2>4, <2>6
      <4> QED BY <4>1, <3>4 DEF Get
    <3>5. CASE i \in others
      <4>1. D(i) \notin DOMAIN n
        BY <3>2, <3>5, <2>6
      <4> QED BY <4>1, <3>5, <2>4 DEF Get
    <3>6. CASE i # first /\ i \notin others
      <4>1. D(i) \in DOMAIN n /\ n[D(i)] = m[D(i)]
        BY <3>1, <3>2, <3>3, <3>6, <2>6
      <4> QED BY <4>1, <3>6 DEF Get
    <3> QED BY <3>4, <3>5, <3>6
  <2>9. sum = Share(m, g, 1) + Share(m, g, 2) + Share(m, g, 3)
    BY DEF sum
  <2>10. /\ m[D(1)] \in Int /\ m[D(2)] \in Int /\ m[D(3)] \in Int
         /\ first = 1 \/ first = 2 \/ first = 3
         /\ first \notin others
    BY <1>1, <2>4
  <2>11. /\ Share(m, g, 1) = IF 1 = first \/ 1 \in others THEN m[D(1)] ELSE 0
         /\ Share(m, g, 2) = IF 2 = first \/ 2 \in others THEN m[D(2)] ELSE 0
         /\ Share(m, g, 3) = IF 3 = first \/ 3 \in others THEN m[D(3)] ELSE 0
    BY <2>7
  <2>12. /\ Get(n, D(1), 0) = IF 1 = first THEN sum ELSE IF 1 \in others THEN 0 ELSE m[D(1)]
         /\ Get(n, D(2), 0) = IF 2 = first THEN sum ELSE IF 2 \in others THEN 0 ELSE m[D(2)]
         /\ Get(n, D(3), 0) = IF 3 = first THEN sum ELSE IF 3 \in others THEN 0 ELSE m[D(3)]
    BY <2>8
  <2> QED BY <2>9, <2>10, <2>11, <2>12, <1>2, <1>3
<1> QED BY <1>4, <1>5

\* What a change leaves of the circuits and their power, but for some keys.
CircuitKeys == Range(Demands) \cup {"circuits"}

Spares(m, n, keys) ==
  \A x \in CircuitKeys \ keys : /\ x \in DOMAIN n <=> x \in DOMAIN m
                                /\ x \in DOMAIN m => n[x] = m[x]

LEMMA CircuitKeysAre ==
  /\ CircuitKeys = {"home_demand_circuit_01", "home_demand_circuit_02",
                    "home_demand_circuit_03", "circuits"}
  /\ \A k \in AllKeys : k # "circuits"
  /\ Range(Demands) \subseteq NumberKeys
  /\ CounterKeys \cap CircuitKeys = {} /\ PlainKeys \cap CircuitKeys = {}
  /\ Range(Packs) \cap CircuitKeys = {}
  /\ NumberKeys \cap CounterKeys = {} /\ NumberKeys \cap PlainKeys = {}
  /\ NumberKeys \cap Range(Packs) = {} /\ CounterKeys \cap PlainKeys = {}
  /\ CounterKeys \cap Range(Packs) = {} /\ PlainKeys \cap Range(Packs) = {}
  /\ Range(Ids) \subseteq PlainKeys
<1>1. Range(Demands) = {"home_demand_circuit_01", "home_demand_circuit_02",
                        "home_demand_circuit_03"}
  BY DemandsAre
<1>2. Range(Ids) = {"id_circuit_01", "id_circuit_02", "id_circuit_03"}
  <2>1. /\ Ids[1] = "id_circuit_01" /\ Ids[2] = "id_circuit_02"
        /\ Ids[3] = "id_circuit_03" /\ DOMAIN Ids = 1..3
    BY DEF Ids
  <2>2. \A i \in 1..3 : i = 1 \/ i = 2 \/ i = 3
    OBVIOUS
  <2> QED BY <2>1, <2>2 DEF Range
<1>3. Range(Packs) = {"exp_1_soc", "exp_2_soc"}
  <2>1. Packs[1] = "exp_1_soc" /\ Packs[2] = "exp_2_soc" /\ DOMAIN Packs = 1..2
    BY DEF Packs
  <2>2. \A i \in 1..2 : i = 1 \/ i = 2
    OBVIOUS
  <2> QED BY <2>1, <2>2 DEF Range
<1>4. Range(PortPriority) = {"usbc_1_priority", "usbc_2_priority", "usbc_3_priority",
                             "usbc_4_priority"}
  <2>1. /\ PortPriority[1] = "usbc_1_priority" /\ PortPriority[2] = "usbc_2_priority"
        /\ PortPriority[3] = "usbc_3_priority" /\ PortPriority[4] = "usbc_4_priority"
        /\ DOMAIN PortPriority = 1..4
    BY DEF PortPriority
  <2>2. \A i \in 1..4 : i = 1 \/ i = 2 \/ i = 3 \/ i = 4
    OBVIOUS
  <2> QED BY <2>1, <2>2 DEF Range
<1> QED BY <1>1, <1>2, <1>3, <1>4
        DEF CircuitKeys, AllKeys, NumberKeys, CounterKeys, PlainKeys, SocKeys, PvKeys

LEMMA PutSpares ==
  ASSUME NEW m, NEW k, NEW v
  PROVE  Spares(m, Put(m, k, v), {k}) /\ (k \notin CircuitKeys => Spares(m, Put(m, k, v), {}))
BY DEF Put, Spares

LEMMA SparesMore ==
  ASSUME NEW a, NEW b, NEW c, NEW keys, Spares(a, b, keys), Spares(b, c, {})
  PROVE  Spares(a, c, keys)
BY DEF Spares

\* The handlers of one value.
Handled(acc, r, k) ==
  DOMAIN r = AccFields /\ r.circuits = acc.circuits /\ Spares(acc.mqtt, r.mqtt, {k})

LEMMA NumberIs ==
  ASSUME NEW acc, DOMAIN acc = AccFields, NEW k \in NumberKeys, NEW v, NEW values
  PROVE  /\ Handled(acc, Number(acc, k, v, values), k)
         /\ k \in Range(Demands) /\ (acc.circuits # <<>> \/ Circuits(acc.mqtt) # <<>>)
              => /\ k \in DOMAIN Number(acc, k, v, values).mqtt
                 /\ Number(acc, k, v, values).mqtt[k] = v
<1> DEFINE m == acc.mqtt
           turned == k = "output_power" /\ Get(values, "charger_mode", 0) # 0
           hidden == k \in Range(Demands) /\ acc.circuits = <<>> /\ Circuits(m) = <<>>
           added == k = "device_1_pv_1_power" /\ "device_1_pv_power" \notin DOMAIN values
           shown == CASE turned -> Put(m, k, -v)
                      [] hidden -> Drop(m, {k})
                      [] added -> Put(Put(m, k, v), "device_1_pv_power",
                                      v + Get(values, "device_1_pv_2_power", 0))
                      [] OTHER -> Put(m, k, v)
           r == Number(acc, k, v, values)
<1>1. r = [acc EXCEPT !.mqtt = shown, !.capacity = @ \/ k \in SocKeys]
  BY DEF Number, Circuits
<1>2. "device_1_pv_power" \notin CircuitKeys
  BY CircuitKeysAre
<1>3. k \in Range(Demands) => k # "output_power" /\ k # "device_1_pv_1_power"
  BY DemandsAre
<1>4. ~(turned /\ hidden) /\ ~(turned /\ added) /\ ~(hidden /\ added)
  BY <1>3
<1>5. /\ turned => shown = Put(m, k, -v)
      /\ hidden => shown = Drop(m, {k})
      /\ added => shown = Put(Put(m, k, v), "device_1_pv_power",
                              v + Get(values, "device_1_pv_2_power", 0))
      /\ ~turned /\ ~hidden /\ ~added => shown = Put(m, k, v)
  <2> HIDE DEF turned, hidden, added
  <2> QED BY <1>4
<1>6. k \in Range(Demands) => ~turned /\ ~added
  BY <1>3
<1>7. hidden => acc.circuits = <<>> /\ Circuits(m) = <<>>
  OBVIOUS
<1> HIDE DEF shown, turned, hidden, added, r
<1>8. Spares(m, shown, {k})
  <2>1. CASE turned
    BY <2>1, <1>5, PutSpares
  <2>2. CASE hidden
    BY <2>2, <1>5 DEF Spares, Drop, Restrict
  <2>3. CASE added
    <3> DEFINE p == Put(m, k, v)
               q == Put(p, "device_1_pv_power", v + Get(values, "device_1_pv_2_power", 0))
    <3>1. shown = q
      BY <2>3, <1>5
    <3>2. Spares(m, p, {k})
      BY PutSpares
    <3> HIDE DEF p
    <3>3. Spares(p, q, {})
      BY <1>2, PutSpares
    <3> HIDE DEF q
    <3> QED BY <3>1, <3>2, <3>3, SparesMore
  <2>4. CASE ~turned /\ ~hidden /\ ~added
    BY <2>4, <1>5, PutSpares
  <2> QED BY <2>1, <2>2, <2>3, <2>4
<1>9. /\ DOMAIN r = AccFields /\ r.circuits = acc.circuits /\ r.mqtt = shown
  BY <1>1 DEF AccFields
<1>10. k \in Range(Demands) /\ (acc.circuits # <<>> \/ Circuits(m) # <<>>)
         => k \in DOMAIN shown /\ shown[k] = v
  <2> SUFFICES ASSUME k \in Range(Demands), acc.circuits # <<>> \/ Circuits(m) # <<>>
               PROVE  k \in DOMAIN shown /\ shown[k] = v
    OBVIOUS
  <2>1. shown = Put(m, k, v)
    BY <1>5, <1>6, <1>7
  <2> QED BY <2>1 DEF Put
<1> QED BY <1>8, <1>9, <1>10 DEF Handled, r

LEMMA CounterIs ==
  ASSUME NEW acc, DOMAIN acc = AccFields, NEW k, NEW v
  PROVE  Handled(acc, Counter(acc, k, v), k)
<1>1. CASE 0 < v /\ v > Get(acc.mqtt, k, 0)
  <2> DEFINE n == Put(acc.mqtt, k, v)
  <2>1. Counter(acc, k, v) = [acc EXCEPT !.mqtt = n, !.efficiency = TRUE]
    BY <1>1 DEF Counter
  <2>2. Spares(acc.mqtt, n, {k})
    BY PutSpares
  <2> HIDE DEF n
  <2> QED BY <2>1, <2>2 DEF Handled, AccFields
<1>2. CASE ~(0 < v /\ v > Get(acc.mqtt, k, 0))
  <2>1. Counter(acc, k, v) = acc
    BY <1>2 DEF Counter
  <2> QED BY <2>1 DEF Handled, Spares
<1> QED BY <1>1, <1>2

LEMMA ExpansionIs ==
  ASSUME NEW acc, DOMAIN acc = AccFields, NEW k, NEW v
  PROVE  Handled(acc, Expansion(acc, k, v), k)
<1> DEFINE n == Put(acc.mqtt, k, v)
           r == Expansion(acc, k, v)
<1>1. r = [acc EXCEPT !.mqtt = n, !.capacity = TRUE] \/ r = acc
  BY DEF Expansion
<1>2. Spares(acc.mqtt, n, {k})
  BY PutSpares
<1> HIDE DEF n, r
<1>3. Handled(acc, r, k)
  BY <1>1, <1>2 DEF Handled, AccFields, Spares
<1> QED BY <1>3 DEF r

\* Only an id adds a circuit.
LEMMA PlainIs ==
  ASSUME NEW acc, DOMAIN acc = AccFields, NEW k \in PlainKeys, NEW v
  PROVE  LET r == Plain(acc, k, v)
         IN /\ k \notin Range(Ids) => Handled(acc, r, k)
            /\ \A i \in 1..3 : k = Ids[i] =>
                 /\ DOMAIN r = AccFields /\ Spares(acc.mqtt, r.mqtt, {})
                 /\ r.circuits = Put(acc.circuits, v, Append(Get(acc.circuits, v, <<>>), i))
<1> DEFINE m == acc.mqtt
           r == Plain(acc, k, v)
           n == Put(m, k, v)
<1>1. Spares(m, n, {}) /\ Spares(m, n, {k})
  BY CircuitKeysAre, PutSpares
<1>2. CASE k = "set_port_priority"
  <2> DEFINE p == Put(n, "port_priority", v)
             q == PortPriorities(p, v)
  <2>1. k \notin Range(Ids) /\ \A i \in 1..3 : k # Ids[i]
    <3>1. Range(Ids) = {Ids[1], Ids[2], Ids[3]} /\ \A i \in 1..3 : i = 1 \/ i = 2 \/ i = 3
      <4>1. DOMAIN Ids = 1..3
        BY DEF Ids
      <4>2. \A i \in 1..3 : i = 1 \/ i = 2 \/ i = 3
        OBVIOUS
      <4> QED BY <4>1, <4>2 DEF Range
    <3>2. Ids[1] = "id_circuit_01" /\ Ids[2] = "id_circuit_02" /\ Ids[3] = "id_circuit_03"
      BY DEF Ids
    <3> QED BY <3>1, <3>2, <1>2
  <2>2. r = [acc EXCEPT !.mqtt = q]
    BY <1>2, <2>1 DEF Plain
  <2>3. "port_priority" \notin CircuitKeys
    BY CircuitKeysAre
  <2>4. Spares(n, p, {})
    BY <2>3, PutSpares
  <2>5. Range(PortPriority) \cap CircuitKeys = {}
    BY CircuitKeysAre DEF PlainKeys
  <2> HIDE DEF n, p
  <2>6. Spares(p, q, {})
    BY <2>5 DEF Spares, PortPriorities
  <2>7. Spares(m, q, {k})
    BY <1>1, <2>4, <2>6, SparesMore
  <2> HIDE DEF q, r
  <2>8. Handled(acc, r, k)
    BY <2>2, <2>7 DEF Handled, AccFields
  <2> QED BY <2>1, <2>8 DEF r
<1>3. CASE k # "set_port_priority" /\ k \in Range(Ids)
  <2> DEFINE at == CHOOSE j \in DOMAIN Ids : Ids[j] = k
             c == Put(acc.circuits, v, Append(Get(acc.circuits, v, <<>>), at))
  <2>1. r = [acc EXCEPT !.mqtt = n, !.circuits = c]
    BY <1>3 DEF Plain
  <2>2. \A i \in 1..3 : k = Ids[i] => at = i
    <3>1. /\ Ids[1] = "id_circuit_01" /\ Ids[2] = "id_circuit_02"
          /\ Ids[3] = "id_circuit_03" /\ DOMAIN Ids = 1..3
      BY DEF Ids
    <3>2. \A i, j \in 1..3 : Ids[i] = Ids[j] => i = j
      <4>1. \A i \in 1..3 : i = 1 \/ i = 2 \/ i = 3
        OBVIOUS
      <4> QED BY <3>1, <4>1
    <3> QED BY <3>1, <3>2
  <2> HIDE DEF r, n, at
  <2>3. DOMAIN r = AccFields /\ r.mqtt = n /\ r.circuits = c
    BY <2>1 DEF AccFields
  <2> QED BY <1>1, <1>3, <2>2, <2>3 DEF r, n
<1>4. CASE k # "set_port_priority" /\ k \notin Range(Ids)
  <2>1. r = [acc EXCEPT !.mqtt = n]
    BY <1>4 DEF Plain
  <2>2. \A i \in 1..3 : k # Ids[i]
    BY <1>4 DEF Ids, Range
  <2> HIDE DEF r, n
  <2>3. Handled(acc, r, k)
    BY <1>1, <2>1 DEF Handled, AccFields
  <2> QED BY <2>2, <2>3 DEF r
<1> QED BY <1>2, <1>3, <1>4


\* What holds after the first i values of a message: no circuit is in two
\* lists, each has been told, the circuits known before are still shown, and
\* so is the power of a circuit once circuits are known.
InOrder(message) ==
  \A i, j \in 1..Len(message) : i < j =>
    /\ message[i].key # message[j].key
    /\ ~(message[i].key \in Range(Demands) /\ message[j].key \in Range(Ids))

TellsId(message, i, c) == \E j \in 1..i : message[j].key = Ids[c]
IdsTold(message, circuits, i) == \A c \in Used(circuits) : c \in 1..3 /\ TellsId(message, i, c)
SameCircuits(m, n) == /\ "circuits" \in DOMAIN n <=> "circuits" \in DOMAIN m
                      /\ "circuits" \in DOMAIN m => n["circuits"] = m["circuits"]
ShownAt(item, n) == item.key \in DOMAIN n /\ n[item.key] = item.value
PowerShown(message, n, i) ==
  \A j \in 1..i : message[j].key \in Range(Demands) => ShownAt(message[j], n)

Walked(message, m, acc, i) ==
  /\ DOMAIN acc = AccFields
  /\ GoodCircuits(acc.circuits) /\ IdsTold(message, acc.circuits, i)
  /\ SameCircuits(m, acc.mqtt)
  /\ acc.circuits # <<>> \/ Circuits(m) # <<>> => PowerShown(message, acc.mqtt, i)

LEMMA IdsAre ==
  /\ Range(Ids) = {Ids[1], Ids[2], Ids[3]} /\ \A i \in 1..3 : Ids[i] \in Range(Ids)
  /\ \A i, j \in 1..3 : Ids[i] = Ids[j] => i = j
  /\ \A k \in Range(Ids) : \E i \in 1..3 : k = Ids[i]
<1>1. /\ Ids[1] = "id_circuit_01" /\ Ids[2] = "id_circuit_02"
      /\ Ids[3] = "id_circuit_03" /\ DOMAIN Ids = 1..3
  BY DEF Ids
<1>2. \A i \in 1..3 : i = 1 \/ i = 2 \/ i = 3
  OBVIOUS
<1>3. Range(Ids) = {Ids[i] : i \in 1..3}
  BY <1>1 DEF Range
<1> QED BY <1>1, <1>2, <1>3

\* A value that tells no id.
LEMMA OtherWalks ==
  ASSUME NEW message, Len(message) \in Nat, InOrder(message), NEW m, NEW acc,
         NEW i \in Nat, i + 1 <= Len(message), Walked(message, m, acc, i),
         NEW r, Handled(acc, r, message[i + 1].key), message[i + 1].key # "circuits",
         message[i + 1].key \in Range(Demands)
           /\ (acc.circuits # <<>> \/ Circuits(acc.mqtt) # <<>>)
           => ShownAt(message[i + 1], r.mqtt)
  PROVE  Walked(message, m, r, i + 1)
<1> DEFINE k == message[i + 1].key
           old == acc.mqtt
           new == r.mqtt
<1>1. \A j \in 1..(i + 1) : j \in 1..i \/ j = i + 1
  OBVIOUS
<1>2. \A j \in 1..i : j \in 1..Len(message) /\ i + 1 \in 1..Len(message) /\ j < i + 1
  OBVIOUS
<1>3. \A j \in 1..i : message[j].key # k
  BY <1>2 DEF InOrder
<1>4. /\ DOMAIN r = AccFields /\ r.circuits = acc.circuits /\ Spares(old, new, {k})
  BY DEF Handled
<1>5. SameCircuits(m, old) /\ (\A x \in Used(acc.circuits) : x \in 1..3 /\ TellsId(message, i, x))
  BY DEF Walked, IdsTold
<1> HIDE DEF k, old, new
<1>6. SameCircuits(old, new)
  BY <1>4 DEF Spares, SameCircuits, CircuitKeys, k
<1>7. SameCircuits(m, new)
  BY <1>5, <1>6 DEF SameCircuits
<1>8. IdsTold(message, r.circuits, i + 1)
  <2>1. \A x : TellsId(message, i, x) => TellsId(message, i + 1, x)
    BY DEF TellsId
  <2> QED BY <1>4, <1>5, <2>1 DEF IdsTold
<1>9. GoodCircuits(r.circuits)
  BY <1>4 DEF Walked
<1>10. ASSUME r.circuits # <<>> \/ Circuits(m) # <<>>
       PROVE  PowerShown(message, new, i + 1)
  <2>1. PowerShown(message, old, i)
    BY <1>4, <1>10 DEF Walked, old
  <2>2. Circuits(old) = Circuits(m)
    BY <1>5 DEF Circuits, Get, SameCircuits
  <2>3. ASSUME NEW j \in 1..i, message[j].key \in Range(Demands)
        PROVE  ShownAt(message[j], new)
    <3>1. ShownAt(message[j], old)
      BY <2>1, <2>3 DEF PowerShown
    <3>2. message[j].key \in CircuitKeys \ {k}
      BY <2>3, <1>3 DEF CircuitKeys
    <3> QED BY <3>1, <3>2, <1>4 DEF Spares, ShownAt
  <2>4. k \in Range(Demands) => ShownAt(message[i + 1], new)
    BY <2>2, <1>4, <1>10 DEF k, new, old
  <2> QED BY <2>3, <2>4, <1>1 DEF PowerShown, k
<1> QED BY <1>4, <1>7, <1>8, <1>9, <1>10 DEF Walked, new

\* A value that tells the id of a circuit: the circuit is a new one, and no
\* power has been told yet.
LEMMA IdWalks ==
  ASSUME NEW message, Len(message) \in Nat, InOrder(message), NEW m, NEW acc,
         NEW i \in Nat, i + 1 <= Len(message), Walked(message, m, acc, i),
         NEW c \in 1..3, message[i + 1].key = Ids[c], NEW v, NEW r,
         DOMAIN r = AccFields, Spares(acc.mqtt, r.mqtt, {}),
         r.circuits = Put(acc.circuits, v, Append(Get(acc.circuits, v, <<>>), c))
  PROVE  Walked(message, m, r, i + 1)
<1> DEFINE old == acc.circuits
           new == r.circuits
<1>1. \A j \in 1..(i + 1) : j \in 1..i \/ j = i + 1
  OBVIOUS
<1>2. \A j \in 1..i : j \in 1..Len(message) /\ i + 1 \in 1..Len(message) /\ j < i + 1
  OBVIOUS
<1>3. message[i + 1].key \in Range(Ids)
  BY IdsAre
<1>4. \A j \in 1..i : message[j].key # Ids[c] /\ message[j].key \notin Range(Demands)
  BY <1>2, <1>3 DEF InOrder
<1>5. message[i + 1].key \notin Range(Demands)
  BY <1>3, CircuitKeysAre
<1>6. GoodCircuits(old) /\ \A x \in Used(old) : x \in 1..3 /\ TellsId(message, i, x)
  BY DEF Walked, IdsTold
<1>7. c \notin Used(old)
  BY <1>4, <1>6 DEF TellsId
<1> HIDE DEF old, new
<1>8. GoodCircuits(new) /\ Used(new) \subseteq Used(old) \cup {c}
  BY <1>6, <1>7, CircuitAdded DEF old, new
<1>9. IdsTold(message, new, i + 1)
  <2>1. \A x : TellsId(message, i, x) => TellsId(message, i + 1, x)
    BY DEF TellsId
  <2>2. TellsId(message, i + 1, c)
    <3>1. i + 1 \in 1..(i + 1)
      OBVIOUS
    <3> QED BY <3>1 DEF TellsId
  <2> QED BY <1>6, <1>8, <2>1, <2>2 DEF IdsTold
<1>10. SameCircuits(m, r.mqtt)
  BY DEF Walked, SameCircuits, Spares, CircuitKeys
<1>11. PowerShown(message, r.mqtt, i + 1)
  BY <1>1, <1>4, <1>5 DEF PowerShown
<1> QED BY <1>8, <1>9, <1>10, <1>11 DEF Walked, new

\* Any value.
LEMMA ValueWalks ==
  ASSUME NEW message, Len(message) \in Nat, InOrder(message), NEW m, NEW acc,
         NEW i \in Nat, i + 1 <= Len(message), Walked(message, m, acc, i),
         message[i + 1] \in Items, NEW values
  PROVE  Walked(message, m, OneValue(acc, message[i + 1], values), i + 1)
<1> DEFINE item == message[i + 1]
           k == item.key
           v == item.value
           r == OneValue(acc, item, values)
<1>1. DOMAIN acc = AccFields
  BY DEF Walked
<1>2. /\ k # "circuits"
      /\ \/ k \in NumberKeys /\ r = Number(acc, k, v, values)
         \/ k \in CounterKeys /\ r = Counter(acc, k, v)
         \/ k \in PlainKeys /\ r = Plain(acc, k, v)
         \/ k \in Range(Packs) /\ r = Expansion(acc, k, v)
  <2>1. k \in AllKeys
    BY DEF Items
  <2>2. /\ \/ k \in NumberKeys /\ r = Number(acc, k, v, values)
           \/ k \in CounterKeys /\ r = Counter(acc, k, v)
           \/ k \in PlainKeys /\ r = Plain(acc, k, v)
           \/ k \in Range(Packs) /\ r = Expansion(acc, k, v)
    BY <2>1 DEF OneValue, AllKeys
  <2> HIDE DEF k, r
  <2> QED BY <2>1, <2>2, CircuitKeysAre
<1>3. k \in CounterKeys \/ k \in PlainKeys \/ k \in Range(Packs) => k \notin Range(Demands)
  BY CircuitKeysAre
<1>4. ASSUME NEW q, Handled(acc, q, k),
             k \in Range(Demands) /\ (acc.circuits # <<>> \/ Circuits(acc.mqtt) # <<>>)
               => ShownAt(item, q.mqtt)
      PROVE  Walked(message, m, q, i + 1)
  <2> HIDE DEF r
  <2> QED BY <1>2, <1>4, OtherWalks
<1>5. k \in NumberKeys => Walked(message, m, Number(acc, k, v, values), i + 1)
  <2> SUFFICES ASSUME k \in NumberKeys
               PROVE  Walked(message, m, Number(acc, k, v, values), i + 1)
    OBVIOUS
  <2> DEFINE q == Number(acc, k, v, values)
  <2>1. Handled(acc, q, k)
    BY <1>1, NumberIs
  <2>2. k \in Range(Demands) /\ (acc.circuits # <<>> \/ Circuits(acc.mqtt) # <<>>)
          => k \in DOMAIN q.mqtt /\ q.mqtt[k] = v
    BY <1>1, NumberIs
  <2> HIDE DEF q
  <2>3. Walked(message, m, q, i + 1)
    BY <2>1, <2>2, <1>4 DEF ShownAt
  <2> QED BY <2>3 DEF q
<1>6. k \in CounterKeys => Walked(message, m, Counter(acc, k, v), i + 1)
  <2> DEFINE q == Counter(acc, k, v)
  <2>1. Handled(acc, q, k)
    BY <1>1, CounterIs
  <2> HIDE DEF q
  <2>2. k \in CounterKeys => Walked(message, m, q, i + 1)
    BY <2>1, <1>3, <1>4
  <2> QED BY <2>2 DEF q
<1>7. k \in PlainKeys => Walked(message, m, Plain(acc, k, v), i + 1)
  <2> SUFFICES ASSUME k \in PlainKeys
               PROVE  Walked(message, m, Plain(acc, k, v), i + 1)
    OBVIOUS
  <2> DEFINE q == Plain(acc, k, v)
  <2>1. /\ k \notin Range(Ids) => Handled(acc, q, k)
        /\ \A c \in 1..3 : k = Ids[c] =>
             /\ DOMAIN q = AccFields /\ Spares(acc.mqtt, q.mqtt, {})
             /\ q.circuits = Put(acc.circuits, v, Append(Get(acc.circuits, v, <<>>), c))
    BY <1>1, PlainIs
  <2> HIDE DEF q
  <2>2. CASE k \notin Range(Ids)
    <3>1. Walked(message, m, q, i + 1)
      BY <2>1, <2>2, <1>3, <1>4
    <3> QED BY <3>1 DEF q
  <2>3. CASE k \in Range(Ids)
    <3>1. PICK c \in 1..3 : k = Ids[c]
      BY <2>3, IdsAre
    <3>2. Walked(message, m, q, i + 1)
      BY <2>1, <3>1, IdWalks
    <3> QED BY <3>2 DEF q
  <2> QED BY <2>2, <2>3
<1>8. k \in Range(Packs) => Walked(message, m, Expansion(acc, k, v), i + 1)
  <2> DEFINE q == Expansion(acc, k, v)
  <2>1. Handled(acc, q, k)
    BY <1>1, ExpansionIs
  <2> HIDE DEF q
  <2>2. k \in Range(Packs) => Walked(message, m, q, i + 1)
    BY <2>1, <1>3, <1>4
  <2> QED BY <2>2 DEF q
<1> HIDE DEF r, k, v
<1>9. Walked(message, m, r, i + 1)
  BY <1>2, <1>5, <1>6, <1>7, <1>8
<1> QED BY <1>9 DEF r

\* All values.
LEMMA MessageWalks ==
  ASSUME NEW message \in Seq(Items), InOrder(message), NEW start, DOMAIN start = AccFields,
         start.circuits = <<>>, NEW values
  PROVE  Walked(message, start.mqtt, AllValues(start, message, values), Len(message))
<1> DEFINE n == Len(message)
           m == start.mqtt
           after == CHOOSE after : IsAfter(after, start, message, values, n)
           S == {i \in Nat : i <= n => Walked(message, m, after[i], i)}
<1>1. n \in Nat
  OBVIOUS
<1>2. AllValues(start, message, values) = after[n]
  BY DEF AllValues, IsAfter
<1>3. IsAfter(after, start, message, values, n)
  BY <1>1, AfterExists
<1> HIDE DEF after, m
<1>4. \A i \in 0..n : after[i] = IF i = 0 THEN start
                                 ELSE OneValue(after[i - 1], message[i], values)
  <2> HIDE DEF S
  <2> QED BY <1>1, <1>3 DEF IsAfter
<1>5. 0 \in S
  <2>1. after[0] = start
    BY <1>1, <1>4
  <2>2. \A j \in 1..0 : FALSE
    OBVIOUS
  <2>3. DOMAIN start.circuits = {}
    OBVIOUS
  <2>4. GoodCircuits(start.circuits)
    BY <2>3 DEF GoodCircuits
  <2>5. IdsTold(message, start.circuits, 0)
    BY <2>3 DEF IdsTold, Used
  <2>6. SameCircuits(m, start.mqtt)
    BY DEF SameCircuits, m
  <2>7. PowerShown(message, start.mqtt, 0)
    BY <2>2 DEF PowerShown
  <2>8. Walked(message, m, start, 0)
    BY <2>4, <2>5, <2>6, <2>7 DEF Walked
  <2>9. 0 \in Nat
    OBVIOUS
  <2> QED BY <2>1, <2>8, <2>9
<1>6. ASSUME NEW k \in S PROVE k + 1 \in S
  <2>1. k \in Nat /\ k + 1 \in Nat
    OBVIOUS
  <2> SUFFICES ASSUME k + 1 <= n PROVE Walked(message, m, after[k + 1], k + 1)
    BY <2>1
  <2>2. k <= n /\ k + 1 \in 0..n /\ k + 1 # 0 /\ (k + 1) - 1 = k /\ k + 1 \in 1..n
    BY <1>1, <2>1
  <2>3. Walked(message, m, after[k], k)
    BY <2>2
  <2> HIDE DEF S
  <2>4. message[k + 1] \in Items
    BY <2>2
  <2>5. after[k + 1] = OneValue(after[k], message[k + 1], values)
    BY <1>4, <2>2
  <2>6. Walked(message, m, OneValue(after[k], message[k + 1], values), k + 1)
    BY <1>1, <2>1, <2>3, <2>4, ValueWalks
  <2> QED BY <2>5, <2>6
<1>7. S = Nat
  <2> HIDE DEF S
  <2>1. S \subseteq Nat
    BY DEF S
  <2> QED BY <1>5, <1>6, <2>1, NatSet
<1>8. Walked(message, m, after[n], n)
  BY <1>1, <1>7
<1> QED BY <1>2, <1>8 DEF m

\* What the message told is what its values are.
LEMMA ToldIs ==
  ASSUME NEW message \in Seq(Items), InOrder(message)
  PROVE  /\ DOMAIN ValuesOf(message) = Keys(message)
         /\ \A j \in 1..Len(message) : /\ message[j].key \in Keys(message)
                                       /\ ValuesOf(message)[message[j].key] = message[j].value
         /\ \A k \in Keys(message) : \E j \in 1..Len(message) : message[j].key = k
<1>1. DOMAIN message = 1..Len(message) /\ Len(message) \in Nat
  OBVIOUS
<1>2. /\ \A j \in 1..Len(message) : message[j].key \in Keys(message)
      /\ \A k \in Keys(message) : \E j \in 1..Len(message) : message[j].key = k
  BY <1>1 DEF Keys
<1>3. ASSUME NEW i \in 1..Len(message), NEW j \in 1..Len(message),
             message[i].key = message[j].key
      PROVE  i = j
  <2>1. i < j \/ j < i \/ i = j
    OBVIOUS
  <2> QED BY <2>1, <1>3 DEF InOrder
<1>4. ASSUME NEW j \in 1..Len(message)
      PROVE  ValuesOf(message)[message[j].key] = message[j].value
  <2> DEFINE at == CHOOSE i \in DOMAIN message : message[i].key = message[j].key
  <2>1. at \in 1..Len(message) /\ message[at].key = message[j].key
    BY <1>1
  <2>2. ValuesOf(message)[message[j].key] = message[at].value
    BY <1>2 DEF ValuesOf
  <2> HIDE DEF at
  <2> QED BY <2>1, <2>2, <1>3
<1>5. DOMAIN ValuesOf(message) = Keys(message)
  BY DEF ValuesOf
<1> QED BY <1>2, <1>4, <1>5

LEMMA ShownIsTold ==
  ASSUME NEW message \in Seq(Items), InOrder(message), NEW n,
         PowerShown(message, n, Len(message)), Range(Demands) \subseteq Keys(message)
  PROVE  Told(n) /\ Power(n) = Power(ValuesOf(message))
<1> DEFINE values == ValuesOf(message)
<1>1. DOMAIN values = Keys(message)
  BY ToldIs
<1>2. ASSUME NEW k \in Range(Demands)
      PROVE  k \in DOMAIN n /\ n[k] = values[k] /\ values[k] \in Int
  <2>1. PICK j \in 1..Len(message) : message[j].key = k
    BY ToldIs
  <2>2. values[k] = message[j].value
    BY <2>1, ToldIs
  <2>3. message[j] \in Items
    OBVIOUS
  <2> HIDE DEF values
  <2> QED BY <2>1, <2>2, <2>3 DEF PowerShown, ShownAt, Items
<1> HIDE DEF values
<1>3. Told(n) /\ Told(values)
  BY <1>1, <1>2 DEF Told
<1>4. Power(n) = Power(values)
  <2>1. Demands[1] \in Range(Demands) /\ Demands[2] \in Range(Demands)
        /\ Demands[3] \in Range(Demands)
    BY DemandsAre
  <2>2. /\ n[Demands[1]] = values[Demands[1]] /\ n[Demands[2]] = values[Demands[2]]
        /\ n[Demands[3]] = values[Demands[3]]
    BY <2>1, <1>2
  <2> QED BY <2>2, <1>3, PowerIs
<1> QED BY <1>3, <1>4 DEF values

\* What is derived from the values leaves circuits and power alone.
LEMMA SparesPower ==
  ASSUME NEW m, NEW n, Spares(m, n, {"circuits"})
  PROVE  Power(n) = Power(m) /\ (Told(m) => Told(n))
<1>1. \A k \in Range(Demands) : k \in CircuitKeys \ {"circuits"}
  BY CircuitKeysAre, DemandsAre DEF CircuitKeys
<1>2. \A k \in Range(Demands) : Get(n, k, 0) = Get(m, k, 0)
  BY <1>1 DEF Spares, Get
<1>3. Power(n) = Power(m)
  BY <1>2, DemandsAre DEF Power
<1>4. Told(m) => Told(n)
  BY <1>1 DEF Told, Spares
<1> QED BY <1>3, <1>4

LEMMA SparesSame ==
  ASSUME NEW m, NEW n, Spares(m, n, {})
  PROVE  Spares(m, n, {"circuits"}) /\ SameCircuits(m, n)
BY DEF Spares, SameCircuits, CircuitKeys

LEMMA EfficiencySpares ==
  ASSUME NEW m PROVE Spares(m, Efficiency(m), {})
<1>1. "device_efficiency" \notin CircuitKeys /\ "battery_efficiency" \notin CircuitKeys
  BY CircuitKeysAre
<1>2. Spares(m, m, {})
  BY DEF Spares
<1>3. PICK device, value :
        /\ device = m \/ \E part : device = Put(m, "device_efficiency", part)
        /\ \/ Efficiency(m) = device
           \/ Efficiency(m) = Put(device, "battery_efficiency", value)
  BY DEF Efficiency
<1>4. Spares(m, device, {})
  BY <1>1, <1>2, <1>3, PutSpares
<1>5. Spares(device, Efficiency(m), {})
  BY <1>1, <1>3, PutSpares DEF Spares
<1> QED BY <1>4, <1>5, SparesMore

LEMMA PortMaskSpares ==
  ASSUME NEW m, NEW values PROVE Spares(m, PortMask(m, values), {})
<1>1. "port_priority" \notin CircuitKeys
  BY CircuitKeysAre
<1>2. PICK mask : PortMask(m, values) = Put(m, "port_priority", mask)
  BY DEF PortMask
<1> QED BY <1>1, <1>2, PutSpares

LEMMA BatteriesSpare ==
  ASSUME NEW m, NEW all PROVE Spares(m, Batteries(m, all), {})
<1>1. "expansion_packs" \notin CircuitKeys /\ "battery_soc" \notin CircuitKeys
  BY CircuitKeysAre
<1>2. Spares(m, m, {})
  BY DEF Spares
<1>3. PICK counted, mean :
        /\ counted = m \/ \E packs : counted = Put(m, "expansion_packs", packs)
        /\ \/ Batteries(m, all) = counted
           \/ Batteries(m, all) = Put(counted, "battery_soc", mean)
  BY DEF Batteries
<1>4. Spares(m, counted, {})
  BY <1>1, <1>2, <1>3, PutSpares
<1>5. Spares(counted, Batteries(m, all), {})
  BY <1>1, <1>3, PutSpares DEF Spares
<1> QED BY <1>4, <1>5, SparesMore

\* The circuits that are shown.
GoodKnown(m) ==
  "circuits" \in DOMAIN m => GoodCircuits(m["circuits"]) /\ m["circuits"] # <<>>

LEMMA GoodKnownIs ==
  ASSUME NEW m, GoodKnown(m)
  PROVE  GoodCircuits(Circuits(m)) /\ ("circuits" \in DOMAIN m => Circuits(m) # <<>>)
<1>1. CASE "circuits" \in DOMAIN m
  BY <1>1 DEF GoodKnown, Circuits, Get
<1>2. CASE "circuits" \notin DOMAIN m
  <2>1. Circuits(m) = <<>>
    BY <1>2 DEF Circuits, Get
  <2> DEFINE c == Circuits(m)
  <2>2. DOMAIN c = {}
    BY <2>1
  <2> HIDE DEF c
  <2>3. GoodCircuits(c)
    BY <2>2 DEF GoodCircuits
  <2> QED BY <1>2, <2>3 DEF c
<1> QED BY <1>1, <1>2

LEMMA CombinedKeeps ==
  ASSUME NEW m, GoodCircuits(Circuits(m)) PROVE SameCircuits(m, Combined(m))
<1>1. FirstDemands(m) \subseteq Range(Demands) /\ OtherDemands(m) \subseteq Range(Demands)
  <2>1. \A i \in 1..3 : Demands[i] \in Range(Demands)
    <3>1. \A i \in 1..3 : i = 1 \/ i = 2 \/ i = 3
      OBVIOUS
    <3> QED BY <3>1, DemandsAre
  <2>2. ASSUME NEW g \in Groups(m)
        PROVE  g[1] \in 1..3 /\ \A j \in 2..Len(g) : g[j] \in 1..3
    BY OneGroup
  <2> QED BY <2>1, <2>2 DEF FirstDemands, OtherDemands
<1>2. "circuits" \notin Range(Demands)
  BY DemandsAre
<1> QED BY <1>1, <1>2 DEF SameCircuits, Combined

\* What becomes of the values of a message.
LEMMA DerivedAddsUp ==
  ASSUME NEW message \in Seq(Items), InOrder(message), NEW m, GoodKnown(m),
         NEW acc, Walked(message, m, acc, Len(message)),
         NEW rated, rated = acc.mqtt \/ rated = Efficiency(acc.mqtt),
         NEW grouped, grouped = IF acc.circuits = <<>> THEN rated
                            ELSE Put(rated, "circuits", acc.circuits),
         NEW drawn, Demands[1] \in Keys(message) => drawn = Combined(grouped),
         drawn = Combined(grouped) \/ drawn = grouped \/ Spares(grouped, drawn, {}),
         NEW now, now = drawn \/ Spares(drawn, now, {})
  PROVE  /\ GoodKnown(now)
         /\ "circuits" \in DOMAIN now /\ Range(Demands) \subseteq Keys(message)
              => Power(now) = Power(ValuesOf(message))
<1>1. /\ GoodCircuits(acc.circuits) /\ SameCircuits(m, acc.mqtt)
      /\ acc.circuits # <<>> \/ Circuits(m) # <<>>
           => PowerShown(message, acc.mqtt, Len(message))
  BY DEF Walked
<1>2. Spares(acc.mqtt, rated, {})
  <2>1. Spares(acc.mqtt, acc.mqtt, {})
    BY DEF Spares
  <2> QED BY <2>1, EfficiencySpares
<1>3. SameCircuits(m, rated)
  BY <1>1, <1>2, SparesSame DEF SameCircuits
<1>4. GoodKnown(grouped) /\ Spares(rated, grouped, {"circuits"})
  <2>1. CASE acc.circuits = <<>>
    <3>1. grouped = rated
      BY <2>1
    <3>2. GoodKnown(rated)
      BY <1>3 DEF SameCircuits, GoodKnown
    <3>3. Spares(rated, rated, {"circuits"})
      BY DEF Spares
    <3> QED BY <3>1, <3>2, <3>3
  <2>2. CASE acc.circuits # <<>>
    <3> DEFINE c == acc.circuits
               p == Put(rated, "circuits", c)
    <3>1. grouped = p
      BY <2>2
    <3>2. Spares(rated, p, {"circuits"})
      BY PutSpares
    <3>3. p["circuits"] = c
      BY DEF Put
    <3>4. GoodCircuits(c) /\ c # <<>>
      BY <2>2, <1>1
    <3> HIDE DEF p, c
    <3>5. GoodKnown(p)
      BY <3>3, <3>4 DEF GoodKnown
    <3> QED BY <3>1, <3>2, <3>5
  <2> QED BY <2>1, <2>2
<1>5. "circuits" \in DOMAIN grouped => acc.circuits # <<>> \/ Circuits(m) # <<>>
  <2>1. CASE acc.circuits = <<>>
    <3>1. grouped = rated
      BY <2>1
    <3>2. "circuits" \in DOMAIN rated => "circuits" \in DOMAIN m
      BY <1>3 DEF SameCircuits
    <3> QED BY <3>1, <3>2, GoodKnownIs
  <2>2. CASE acc.circuits # <<>>
    BY <2>2
  <2> QED BY <2>1, <2>2
<1>6. GoodCircuits(Circuits(grouped))
  BY <1>4, GoodKnownIs
<1>7. SameCircuits(grouped, drawn)
  <2>1. SameCircuits(grouped, grouped)
    BY DEF SameCircuits
  <2> QED BY <2>1, <1>6, CombinedKeeps, SparesSame
<1>8. SameCircuits(drawn, now) /\ Power(now) = Power(drawn)
  <2>1. CASE now = drawn
    BY <2>1 DEF SameCircuits
  <2>2. CASE Spares(drawn, now, {})
    BY <2>2, SparesSame, SparesPower
  <2> QED BY <2>1, <2>2
<1>9. GoodKnown(now)
  <2>1. SameCircuits(grouped, now)
    BY <1>7, <1>8 DEF SameCircuits
  <2> QED BY <2>1, <1>4 DEF SameCircuits, GoodKnown
<1>10. ASSUME "circuits" \in DOMAIN now, Range(Demands) \subseteq Keys(message)
       PROVE  Power(now) = Power(ValuesOf(message))
  <2>1. "circuits" \in DOMAIN grouped
    BY <1>7, <1>8, <1>10 DEF SameCircuits
  <2>2. PowerShown(message, acc.mqtt, Len(message))
    BY <2>1, <1>1, <1>5
  <2>3. Told(acc.mqtt) /\ Power(acc.mqtt) = Power(ValuesOf(message))
    BY <2>2, <1>10, ShownIsTold
  <2>4. Told(rated) /\ Power(rated) = Power(acc.mqtt)
    BY <2>3, <1>2, SparesSame, SparesPower
  <2>5. Told(grouped) /\ Power(grouped) = Power(rated)
    BY <2>4, <1>4, SparesPower
  <2>6. drawn = Combined(grouped)
    BY <1>10, DemandsAre
  <2>7. Power(drawn) = Power(grouped)
    BY <2>5, <2>6, <1>6, CombinedAddsUp
  <2> QED BY <2>3, <2>4, <2>5, <2>7, <1>8
<1> QED BY <1>9, <1>10

\* Beyond ValuesInv: the circuits shown are good ones.
CircuitsInv == ValuesInv /\ GoodKnown(merged)

CircuitsStep ==
  (/\ messages' # messages /\ "circuits" \in DOMAIN merged'
   /\ Range(Demands) \subseteq Keys(lastMessage'))
    => Power(merged') = Power(ValuesOf(lastMessage'))

LEMMA MessageCircuits ==
  ASSUME CircuitsInv, ReceiveValues PROVE GoodKnown(merged') /\ CircuitsStep
<1>1. PICK message \in DeviceMessages[deviceKind] :
        LET values == ValuesOf(message)
            all == values @@ heard
            acc == AllValues([mqtt |-> merged, circuits |-> <<>>, heard |-> all,
                              capacity |-> FALSE, efficiency |-> FALSE],
                             message, values)
            rated == IF acc.efficiency THEN Efficiency(acc.mqtt) ELSE acc.mqtt
            grouped == IF acc.circuits = <<>> THEN rated
                     ELSE Put(rated, "circuits", acc.circuits)
            drawn == IF Demands[1] \in DOMAIN values THEN Combined(grouped)
                     ELSE IF PortPriority[1] \in DOMAIN values
                       THEN PortMask(grouped, values)
                     ELSE grouped
            batteries == acc.capacity /\ dev.capacity # NoValue
            now == IF batteries THEN Batteries(drawn, all) ELSE drawn
        IN /\ merged' = now
           /\ lastMessage' = message
  BY ZenonT(30) DEF ReceiveValues
<1> DEFINE values == ValuesOf(message)
           all == values @@ heard
           start == [mqtt |-> merged, circuits |-> <<>>, heard |-> all,
                     capacity |-> FALSE, efficiency |-> FALSE]
           acc == AllValues(start, message, values)
           rated == IF acc.efficiency THEN Efficiency(acc.mqtt) ELSE acc.mqtt
           grouped == IF acc.circuits = <<>> THEN rated
                    ELSE Put(rated, "circuits", acc.circuits)
           drawn == IF Demands[1] \in DOMAIN values THEN Combined(grouped)
                    ELSE IF PortPriority[1] \in DOMAIN values
                      THEN PortMask(grouped, values)
                    ELSE grouped
           batteries == acc.capacity /\ dev.capacity # NoValue
           now == IF batteries THEN Batteries(drawn, all) ELSE drawn
<1>2. merged' = now /\ lastMessage' = message
  <2> HIDE DEF values, all, acc, drawn
  <2> QED BY <1>1 DEF values, all, acc, drawn
<1>3. message \in Seq(Items)
  BY MessageAssumption DEF CircuitsInv, ValuesInv, Items
<1>4. InOrder(message)
  BY OrderAssumption DEF CircuitsInv, ValuesInv, InOrder
<1>5. Walked(message, merged, acc, Len(message))
  <2>1. DOMAIN start = AccFields
    BY DEF AccFields
  <2>2. start.circuits = <<>> /\ start.mqtt = merged
    OBVIOUS
  <2> HIDE DEF start, values
  <2> QED BY <2>1, <2>2, <1>3, <1>4, MessageWalks
<1>6. DOMAIN values = Keys(message)
  BY <1>3, <1>4, ToldIs
<1> HIDE DEF acc, values, all
<1>7. rated = acc.mqtt \/ rated = Efficiency(acc.mqtt)
  OBVIOUS
<1> HIDE DEF rated
<1>8. grouped = IF acc.circuits = <<>> THEN rated ELSE Put(rated, "circuits", acc.circuits)
  OBVIOUS
<1> HIDE DEF grouped
<1>9. /\ Demands[1] \in Keys(message) => drawn = Combined(grouped)
      /\ drawn = Combined(grouped) \/ drawn = grouped \/ Spares(grouped, drawn, {})
  BY <1>6, PortMaskSpares
<1> HIDE DEF drawn
<1>10. now = drawn \/ Spares(drawn, now, {})
  BY BatteriesSpare
<1> HIDE DEF now
<1>11. GoodKnown(merged)
  BY DEF CircuitsInv
<1>12. /\ GoodKnown(now)
       /\ "circuits" \in DOMAIN now /\ Range(Demands) \subseteq Keys(message)
            => Power(now) = Power(ValuesOf(message))
  BY <1>3, <1>4, <1>5, <1>7, <1>8, <1>9, <1>10, <1>11, DerivedAddsUp
<1> QED BY <1>2, <1>12 DEF CircuitsStep

LEMMA CircuitsStart == ValuesInit => CircuitsInv
<1> SUFFICES ASSUME ValuesInit PROVE CircuitsInv
  OBVIOUS
<1>1. DOMAIN merged = {}
  BY DEF ValuesInit
<1> QED BY <1>1, ValuesStart DEF CircuitsInv, GoodKnown

LEMMA CircuitsKept ==
  CircuitsInv /\ [ValuesNext]_valueVars => CircuitsInv' /\ CircuitsStep
<1> SUFFICES ASSUME CircuitsInv, [ValuesNext]_valueVars
             PROVE  CircuitsInv' /\ CircuitsStep
  OBVIOUS
<1>1. ValuesInv'
  BY ValuesStep DEF CircuitsInv
<1>2. CASE ReceiveValues
  BY <1>1, <1>2, MessageCircuits DEF CircuitsInv, GoodKnown
<1>3. CASE UNCHANGED valueVars \/ PollDevice \/ CustomizeSize \/ CustomizeOverlay
  <2>1. merged' = merged /\ messages' = messages
    BY <1>3 DEF valueVars, PollDevice, CustomizeSize, CustomizeOverlay
  <2> QED BY <1>1, <2>1 DEF CircuitsInv, GoodKnown, CircuitsStep
<1> QED BY <1>2, <1>3 DEF ValuesNext

\* Whatever circuits a panel tells under whichever ids, and whatever it told
\* before: the circuits shown after a message of all of them add up to what it
\* told, also when circuits of one group are shown as one.
THEOREM CircuitsStaySummed == ValuesSpec => CircuitsAddUp
<1>1. CircuitsInv /\ [ValuesNext]_valueVars => CircuitsInv'
  BY CircuitsKept
<1>2. CircuitsInv /\ [ValuesNext]_valueVars
        => [(/\ messages' # messages /\ "circuits" \in DOMAIN merged'
             /\ Range(Demands) \subseteq Keys(lastMessage'))
              => Power(merged') = Power(ValuesOf(lastMessage'))]_valueVars
  BY CircuitsKept DEF CircuitsStep
<1> QED BY CircuitsStart, <1>1, <1>2, PTL DEF ValuesSpec, CircuitsAddUp

(***************************************************************************)
(* Numbers in messages (HexMessage).                                       *)
(***************************************************************************)
LEMMA PlacesAre ==
  ASSUME NEW v \in Int
  PROVE  /\ v % 256 \in Byte /\ (v \div 256) % 256 \in Byte
         /\ (v \div 65536) % 256 \in Byte /\ (v \div 16777216) % 256 \in Byte
         /\ v = (v % 256) + 256 * (v \div 256)
         /\ v \div 256 = ((v \div 256) % 256) + 256 * (v \div 65536)
         /\ v \div 65536 = ((v \div 65536) % 256) + 256 * (v \div 16777216)
BY DEF Byte

\* The bytes of a number.
BytesOf(bytes, v, width) ==
  /\ bytes \in Seq(Byte) /\ Len(bytes) = width
  /\ bytes[1] = v % 256
  /\ width > 1 => bytes[2] = (v \div 256) % 256
  /\ width = 4 => /\ bytes[3] = (v \div 65536) % 256
                  /\ bytes[4] = (v \div 16777216) % 256

LEMMA LittleEndianIs ==
  ASSUME NEW v \in Int, NEW width \in {1, 2, 4}
  PROVE  BytesOf(LittleEndian(v, width), v, width)
<1> DEFINE bytes == LittleEndian(v, width)
           At(i) == (v \div Place[i]) % 256
<1>1. /\ Place[1] = 1 /\ Place[2] = 256 /\ Place[3] = 65536 /\ Place[4] = 16777216
  BY DEF Place
<1>2. /\ At(1) = v % 256 /\ At(2) = (v \div 256) % 256 /\ At(3) = (v \div 65536) % 256
      /\ At(4) = (v \div 16777216) % 256
  <2>1. v \div 1 = v
    OBVIOUS
  <2> QED BY <1>1, <2>1
<1>3. bytes = [i \in 1..width |-> At(i)]
  BY DEF LittleEndian
<1> HIDE DEF bytes, At
<1>4. 1 \in 1..width /\ (width > 1 => 2 \in 1..width)
      /\ (width = 4 => 3 \in 1..width /\ 4 \in 1..width)
  OBVIOUS
<1>5. /\ bytes[1] = At(1)
      /\ width > 1 => bytes[2] = At(2)
      /\ width = 4 => bytes[3] = At(3) /\ bytes[4] = At(4)
  BY <1>3, <1>4
<1>6. \A i \in 1..width : i = 1 \/ i = 2 \/ i = 3 \/ i = 4
  OBVIOUS
<1>7. \A i \in 1..width : At(i) \in Byte
  <2>1. At(1) \in Byte /\ At(2) \in Byte /\ At(3) \in Byte /\ At(4) \in Byte
    BY <1>2, PlacesAre
  <2> QED BY <2>1, <1>6
<1>8. DOMAIN bytes = 1..width /\ width \in Nat
  BY <1>3
<1>9. bytes \in Seq(Byte)
  BY <1>3, <1>7, <1>8
<1>10. Len(bytes) = width
  BY <1>8, <1>9
<1> QED BY <1>2, <1>5, <1>9, <1>10 DEF bytes, BytesOf

Signed(q, half, signed) ==
  q \in Int /\ (signed => -half <= q /\ q < half) /\ (~signed => 0 <= q /\ q < 2 * half)
Top(b, signed) == IF signed /\ b >= 128 THEN b - 256 ELSE b

\* The highest byte.
LEMMA TopIs ==
  ASSUME NEW q \in Int, NEW signed \in BOOLEAN, Signed(q, 128, signed)
  PROVE  Top(q % 256, signed) = q
<1>1. CASE signed
  <2>1. -128 <= q /\ q < 128
    BY <1>1 DEF Signed
  <2>2. CASE q < 0
    <3>1. q % 256 = q + 256
      BY <2>1, <2>2
    <3> QED BY <3>1, <2>1, <1>1 DEF Top
  <2>3. CASE q >= 0
    <3>1. q % 256 = q
      BY <2>1, <2>3
    <3> QED BY <3>1, <2>1, <1>1 DEF Top
  <2> QED BY <2>2, <2>3
<1>2. CASE ~signed
  <2>1. q % 256 = q
    BY <1>2 DEF Signed
  <2> QED BY <2>1, <1>2 DEF Top
<1> QED BY <1>1, <1>2

\* A number that fits is read as it was written.
LEMMA DecodedIs ==
  ASSUME NEW v \in Int, NEW width \in {1, 2, 4}, NEW signed \in BOOLEAN,
         Fits(v, width, signed)
  PROVE  Decoded(LittleEndian(v, width), signed) = v
<1> DEFINE bytes == LittleEndian(v, width)
           Digit(i) == IF i > width THEN 0
                       ELSE IF i = width /\ signed /\ bytes[width] >= 128 THEN bytes[width] - 256
                       ELSE bytes[i]
<1>1. BytesOf(bytes, v, width)
  BY LittleEndianIs
<1>2. Decoded(bytes, signed) = Digit(1) + 256 * (Digit(2) + 256 * (Digit(3) + 256 * Digit(4)))
  <2> HIDE DEF bytes
  <2> QED BY <1>1 DEF Decoded, BytesOf
<1> HIDE DEF bytes
<1>3. CASE width = 1
  <2>1. Signed(v, 128, signed)
    BY <1>3 DEF Fits, Signed
  <2>2. /\ Digit(1) = Top(v % 256, signed)
        /\ Digit(2) = 0 /\ Digit(3) = 0 /\ Digit(4) = 0
    BY <1>1, <1>3 DEF BytesOf, Top
  <2> HIDE DEF Digit
  <2>3. Digit(1) = v
    BY <2>1, <2>2, TopIs
  <2> QED BY <2>2, <2>3, <1>2 DEF bytes
<1>4. CASE width = 2
  <2> DEFINE q == v \div 256
             low == v % 256
  <2>1. Signed(v, 32768, signed)
    <3>1. /\ signed => -32768 <= v /\ v < 32768
          /\ ~signed => 0 <= v /\ v < 2 * 32768
      BY <1>4 DEF Fits
    <3> QED BY <3>1 DEF Signed
  <2>2. /\ Digit(1) = low /\ Digit(2) = Top(q % 256, signed)
        /\ Digit(3) = 0 /\ Digit(4) = 0
    BY <1>1, <1>4 DEF BytesOf, Top
  <2>3. q \in Int /\ low \in 0..255 /\ v = low + 256 * q
    OBVIOUS
  <2> HIDE DEF Digit, q, low
  <2>4. Signed(q, 128, signed)
    BY <2>1, <2>3 DEF Signed
  <2>5. Digit(2) = q
    BY <2>2, <2>3, <2>4, TopIs
  <2> QED BY <2>2, <2>3, <2>5, <1>2 DEF bytes
<1>5. CASE width = 4
  <2> DEFINE p == v \div 256
             q == v \div 65536
             r == v \div 16777216
  <2>1. Signed(q, 32768, signed)
    <3>1. /\ signed => -32768 <= q /\ q < 32768
          /\ ~signed => 0 <= q /\ q < 2 * 32768
      BY <1>5 DEF Fits
    <3>2. q \in Int
      OBVIOUS
    <3> HIDE DEF q
    <3> QED BY <3>1, <3>2 DEF Signed
  <2>2. /\ Digit(1) = v % 256 /\ Digit(2) = p % 256 /\ Digit(3) = q % 256
        /\ Digit(4) = Top(r % 256, signed)
    BY <1>1, <1>5 DEF BytesOf, Top
  <2>3. /\ p \in Int /\ q \in Int /\ r \in Int
        /\ v = (v % 256) + 256 * p /\ p = (p % 256) + 256 * q /\ q = (q % 256) + 256 * r
    BY PlacesAre
  <2>4. q % 256 \in 0..255
    BY <2>3
  <2> HIDE DEF Digit, p, q, r
  <2>5. Signed(r, 128, signed)
    BY <2>1, <2>3, <2>4 DEF Signed
  <2>6. Digit(4) = r
    BY <2>2, <2>3, <2>5, TopIs
  <2> QED BY <2>2, <2>3, <2>6, <1>2 DEF bytes
<1> QED BY <1>3, <1>4, <1>5

LEMMA MaxOfTwo ==
  ASSUME NEW a \in Int, NEW b \in Int
  PROVE  /\ Max({a, b}) \in {a, b} /\ Max({a, b}) >= a /\ Max({a, b}) >= b
         /\ Min({a, b}) \in {a, b} /\ Min({a, b}) <= a /\ Min({a, b}) <= b
<1>1. \E x \in {a, b} : \A y \in {a, b} : x >= y
  <2>1. CASE a >= b
    BY <2>1
  <2>2. CASE ~(a >= b)
    BY <2>2
  <2> QED BY <2>1, <2>2
<1>2. \E x \in {a, b} : \A y \in {a, b} : x <= y
  <2>1. CASE a <= b
    BY <2>1
  <2>2. CASE ~(a <= b)
    BY <2>2
  <2> QED BY <2>1, <2>2
<1> QED BY <1>1, <1>2 DEF Max, Min

LEMMA DivIs ==
  ASSUME NEW a \in Int, NEW d \in Nat \ {0}
  PROVE  a \div d \in Int /\ a % d \in 0..(d - 1) /\ a = d * (a \div d) + (a % d)
OBVIOUS

LEMMA DivExact ==
  ASSUME NEW k \in Int, NEW d \in Nat \ {0}
  PROVE  (d * k) \div d = k
<1> DEFINE a == d * k
           q == a \div d
           r == a % d
<1>1. a \in Int
  OBVIOUS
<1>2. q \in Int /\ r \in 0..(d - 1) /\ a = d * q + r
  BY <1>1, DivIs
<1>3. d * (k - q) = r
  BY <1>2
<1> HIDE DEF a, q, r
<1>4. CASE k - q >= 1
  <2>1. d * (k - q) >= d
    BY <1>2, <1>4
  <2> QED BY <2>1, <1>2, <1>3
<1>5. CASE k - q <= -1
  <2>1. d * (k - q) <= -d
    BY <1>2, <1>5
  <2> QED BY <2>1, <1>2, <1>3
<1>6. CASE k = q
  BY <1>6 DEF q, a
<1> QED BY <1>2, <1>4, <1>5, <1>6

\* Multiples of the divider.
Multiple(a, d) == a \in Int /\ \E k \in Int : a = d * k

LEMMA MultipleIs ==
  ASSUME NEW a, NEW d \in Nat \ {0}
  PROVE  /\ a \in Int /\ a % d = 0 => Multiple(a, d)
         /\ Multiple(a, d) => (a \div d) * d = a /\ a \div d \in Int
<1>1. ASSUME a \in Int, a % d = 0 PROVE Multiple(a, d)
  <2>1. a \div d \in Int /\ a = d * (a \div d)
    BY <1>1, DivIs
  <2> QED BY <2>1, <1>1 DEF Multiple
<1>2. ASSUME Multiple(a, d) PROVE (a \div d) * d = a /\ a \div d \in Int
  <2>1. PICK k \in Int : a = d * k
    BY <1>2 DEF Multiple
  <2>2. a \div d = k
    BY <2>1, DivExact
  <2> QED BY <2>1, <2>2
<1> QED BY <1>1, <1>2

LEMMA MultipleTimes ==
  ASSUME NEW a, NEW d \in Nat \ {0}, NEW n \in Int, Multiple(a, d)
  PROVE  Multiple(a * n, d)
<1>1. PICK k \in Int : a = d * k
  BY DEF Multiple
<1>2. a * n = d * (k * n) /\ k * n \in Int /\ a * n \in Int
  BY <1>1
<1> QED BY <1>2 DEF Multiple

\* The nearest step is half a step away at most.
LEMMA NearestIs ==
  ASSUME NEW v \in Int, NEW step \in Nat \ {0}
  PROVE  /\ \E n \in Int : NearestStep(v, step) = step * n
         /\ NearestStep(v, step) \in Int
         /\ 2 * (NearestStep(v, step) - v) <= step
         /\ 2 * (v - NearestStep(v, step)) <= step
<1> DEFINE low == v \div step
           r == v % step
           keeps == 2 * r < step \/ (2 * r = step /\ low % 2 = 0)
           n == IF keeps THEN low ELSE low + 1
           near == NearestStep(v, step)
<1>1. low \in Int /\ r \in 0..(step - 1) /\ v = step * low + r
  BY DivIs
<1>2. near = step * n
  BY DEF NearestStep
<1> HIDE DEF near, low, r
<1>3. (n = low /\ 2 * r <= step) \/ (n = low + 1 /\ 2 * r >= step)
  BY <1>1
<1> HIDE DEF n
<1>4. CASE n = low /\ 2 * r <= step
  <2>1. near = step * low
    BY <1>2, <1>4
  <2> DEFINE base == step * low
  <2>2. base \in Int
    BY <1>1
  <2> HIDE DEF base
  <2>3. near = base /\ v = base + r
    BY <2>1, <1>1 DEF base
  <2> QED BY <2>2, <2>3, <1>1, <1>2, <1>4 DEF near
<1>5. CASE n = low + 1 /\ 2 * r >= step
  <2> DEFINE base == step * low
  <2>1. base \in Int /\ near = base + step
    BY <1>1, <1>2, <1>5
  <2>2. v = base + r
    BY <1>1
  <2>3. n \in Int
    BY <1>1, <1>5
  <2> HIDE DEF base
  <2>4. near \in Int /\ 2 * (near - v) <= step /\ 2 * (v - near) <= step
    BY <2>1, <2>2, <1>1, <1>5
  <2>5. \E k \in Int : near = step * k
    BY <2>3, <1>2
  <2> QED BY <2>4, <2>5 DEF near
<1> QED BY <1>3, <1>4, <1>5

\* What is checked is a multiple of the divider, the value itself or one within
\* the range that is half a step away.
CheckedWell(d, v, c) ==
  /\ Multiple(c, d.divider)
  /\ \/ c = v
     \/ /\ d.options = {} /\ c \in d.min..d.max
        /\ 2 * (c - v) <= d.step /\ 2 * (v - c) <= d.step

LEMMA CheckedIs ==
  ASSUME NEW d \in ValueDescs, NEW v \in TestValues, NEW c \in Checked(d, v)
  PROVE  CheckedWell(d, v, c)
<1>1. /\ d.min \in Int /\ d.max \in Int /\ d.default \in Int /\ d.options \subseteq Int
      /\ d.step \in Nat /\ d.divider \in Nat \ {0} /\ Sendable(d) /\ v \in Int
  BY DescAssumption
<1> DEFINE near == NearestStep(v, d.step)
           shown == Max({d.min, Min({d.max, near})})
           stepped == d.options = {} /\ d.step # 0 /\ d.min < v /\ v < d.max
           refused == \/ d.options # {} /\ v \notin d.options
                      \/ d.min < d.max /\ v \notin d.min..d.max
<1>2. \/ c = v /\ (v = d.default \/ (~refused /\ ~stepped))
      \/ v # d.default /\ ~refused /\ stepped /\ c = shown
  <2> DEFINE set == Checked(d, v)
  <2>1. set = IF v = d.default THEN {v}
              ELSE CASE refused -> {} [] stepped -> {shown} [] OTHER -> {v}
    BY DEF Checked
  <2>2. c \in set
    OBVIOUS
  <2>3. ~(refused /\ stepped)
    BY <1>1
  <2> HIDE DEF set, refused, stepped, shown
  <2>4. CASE v = d.default
    BY <2>1, <2>2, <2>4
  <2>5. CASE v # d.default /\ refused
    <3>1. ~stepped
      BY <2>3, <2>5
    <3>2. set = {}
      BY <2>1, <2>5, <3>1
    <3> QED BY <3>2, <2>2
  <2>6. CASE v # d.default /\ ~refused /\ stepped
    <3>1. set = {shown}
      BY <2>1, <2>6
    <3> QED BY <3>1, <2>2, <2>6
  <2>7. CASE v # d.default /\ ~refused /\ ~stepped
    <3>1. set = {v}
      BY <2>1, <2>7
    <3> QED BY <3>1, <2>2, <2>7
  <2> QED BY <2>4, <2>5, <2>6, <2>7
<1>3. \A x \in d.options \cup {d.default, d.min, d.max, d.step} :
        d.divider # 1 => Multiple(x, d.divider)
  BY <1>1, MultipleIs DEF Sendable
<1>4. d.divider = 1 => \A x \in Int : Multiple(x, d.divider)
  BY DEF Multiple
<1>5. CASE c = v /\ (v = d.default \/ (~refused /\ ~stepped))
  <2>1. CASE d.divider = 1
    BY <2>1, <1>1, <1>4, <1>5 DEF CheckedWell
  <2>2. CASE d.divider # 1
    <3>1. v \in d.options \cup {d.default, d.min, d.max}
      BY <2>2, <1>1, <1>5 DEF Sendable
    <3> QED BY <3>1, <2>2, <1>3, <1>5 DEF CheckedWell
  <2> QED BY <2>1, <2>2
<1>6. CASE v # d.default /\ ~refused /\ stepped /\ c = shown
  <2>1. /\ d.options = {} /\ d.step \in Nat \ {0} /\ d.min < v /\ v < d.max
    BY <1>1, <1>6
  <2>2. /\ near \in Int /\ 2 * (near - v) <= d.step /\ 2 * (v - near) <= d.step
        /\ \E n \in Int : near = d.step * n
    BY <2>1, <1>1, NearestIs
  <2> HIDE DEF near
  <2>3. Multiple(near, d.divider)
    <3>1. Multiple(d.step, d.divider)
      BY <1>1, <1>3, <1>4
    <3> QED BY <3>1, <2>2, <1>1, MultipleTimes
  <2> DEFINE low == Min({d.max, near})
  <2>4. low \in {d.max, near} /\ low <= d.max /\ low <= near
    BY <2>2, <1>1, MaxOfTwo
  <2>5. low \in Int
    BY <2>2, <2>4, <1>1
  <2> HIDE DEF low
  <2>6. c \in {d.min, low} /\ c >= d.min /\ c >= low
    BY <2>5, <1>1, <1>6, MaxOfTwo DEF low
  <2>7. Multiple(c, d.divider)
    BY <2>3, <2>4, <2>6, <1>1, <1>3, <1>4
  <2>8. c \in Int /\ c \in d.min..d.max
    BY <2>1, <2>4, <2>5, <2>6, <1>1
  <2>9. 2 * (c - v) <= d.step /\ 2 * (v - c) <= d.step
    BY <2>1, <2>2, <2>4, <2>5, <2>6, <1>1
  <2> QED BY <2>1, <2>7, <2>8, <2>9 DEF CheckedWell
<1> QED BY <1>2, <1>5, <1>6

\* A number that was sent.
IsSent(r) ==
  \E d \in ValueDescs, v \in TestValues : \E c \in Checked(d, v) :
    /\ Fits(c \div d.divider, Width(d.type), d.signed)
    /\ r = [desc |-> d, value |-> v, checked |-> c,
            bytes |-> LittleEndian(c \div d.divider, Width(d.type))]

LEMMA SentReads == sent = NothingSent \/ IsSent(sent) => SentIsRead
<1> SUFFICES ASSUME IsSent(sent) PROVE SentIsRead
  BY DEF SentIsRead
<1>1. PICK d \in ValueDescs, v \in TestValues : \E c \in Checked(d, v) :
        /\ Fits(c \div d.divider, Width(d.type), d.signed)
        /\ sent = [desc |-> d, value |-> v, checked |-> c,
                   bytes |-> LittleEndian(c \div d.divider, Width(d.type))]
  BY DEF IsSent
<1>2. PICK c \in Checked(d, v) :
        /\ Fits(c \div d.divider, Width(d.type), d.signed)
        /\ sent = [desc |-> d, value |-> v, checked |-> c,
                   bytes |-> LittleEndian(c \div d.divider, Width(d.type))]
  BY <1>1
<1>3. CheckedWell(d, v, c)
  BY CheckedIs
<1>4. /\ d.divider \in Nat \ {0} /\ d.signed \in BOOLEAN /\ d.type \in {Ui, Sile, Var}
      /\ d.min \in Int /\ d.max \in Int /\ d.step \in Nat /\ v \in Int
  BY DescAssumption
<1>5. Width(d.type) \in {1, 2, 4}
  BY <1>4 DEF Width, Ui, Sile, Var
<1>6. c \in Int /\ c \div d.divider \in Int /\ (c \div d.divider) * d.divider = c
  BY <1>3, <1>4, MultipleIs DEF CheckedWell, Multiple
<1> DEFINE q == c \div d.divider
           error == c - v
<1>7. Decoded(LittleEndian(q, Width(d.type)), d.signed) = q
  BY <1>2, <1>4, <1>5, <1>6, DecodedIs
<1> HIDE DEF q
<1>8. /\ sent.desc = d /\ sent.value = v /\ sent.checked = c
      /\ sent.bytes = LittleEndian(q, Width(d.type))
  BY <1>2 DEF q
<1>9. Decoded(sent.bytes, d.signed) * d.divider = c
  BY <1>6, <1>7, <1>8 DEF q
<1>10. \/ error = 0
       \/ /\ d.options = {} /\ c \in d.min..d.max
          /\ 2 * Max({error, -error}) <= d.step
  <2>1. error \in Int /\ -error \in Int
    BY <1>4, <1>6
  <2>2. CASE c = v
    BY <2>2, <1>6
  <2>3. CASE /\ d.options = {} /\ c \in d.min..d.max
             /\ 2 * (c - v) <= d.step /\ 2 * (v - c) <= d.step
    <3>1. 2 * error <= d.step /\ 2 * (-error) <= d.step
      BY <2>3, <1>4, <1>6
    <3> HIDE DEF error
    <3>2. Max({error, -error}) \in {error, -error}
      BY <2>1, MaxOfTwo
    <3> QED BY <3>1, <3>2, <2>3
  <2> QED BY <2>2, <2>3, <1>3 DEF CheckedWell
<1> QED BY <1>8, <1>9, <1>10 DEF SentIsRead

(***************************************************************************)
(* Messages (HexMessage).  A message is built from its fields in the order *)
(* of their names, by a recursion over sets of names; it is taken apart by *)
(* a recursion over positions.  Both define functions.                     *)
(***************************************************************************)
LEMMA MinIs ==
  ASSUME NEW S \in SUBSET Nat, S # {}
  PROVE  Min(S) \in S /\ \A y \in S : Min(S) <= y
<1>1. PICK x \in S : \A y \in S : ~(<<y, x>> \in OpToRel(<,Nat))
  BY WFMin, NatLessThanWellFounded
<1>2. \A y \in S : x <= y
  <2> SUFFICES ASSUME NEW y \in S PROVE x <= y
    OBVIOUS
  <2>1. x \in Nat /\ y \in Nat
    OBVIOUS
  <2>2. ~(y < x)
    BY <1>1, <2>1 DEF OpToRel
  <2> QED BY <2>1, <2>2
<1> QED BY <1>2 DEF Min

Above(f, n) == {x \in DOMAIN f : x >= n}

\* from is the function of BodyOf() for the names that are n or larger.
OneBody(from, f, names) ==
  IF names = {} THEN <<>>
  ELSE FieldHex(Min(names), f[Min(names)]) \o from[names \ {Min(names)}]

IsBody(from, f, n) ==
  from = [names \in SUBSET Above(f, n) |-> OneBody(from, f, names)]

LEMMA BodyExists ==
  ASSUME NEW f, DOMAIN f \subseteq Byte
  PROVE  \E from : IsBody(from, f, 0)
<1> DEFINE S == {k \in Nat : k <= 256 => \E from : IsBody(from, f, 256 - k)}
<1>1. 0 \in S
  <2> DEFINE from == [names \in SUBSET Above(f, 256) |-> <<>>]
             next == [names \in SUBSET Above(f, 256) |-> OneBody(from, f, names)]
  <2>1. Above(f, 256) = {}
    BY DEF Above, Byte
  <2>2. \A names \in SUBSET Above(f, 256) : names = {}
    BY <2>1
  <2>3. \A names \in SUBSET Above(f, 256) : OneBody(from, f, names) = <<>>
    BY <2>2 DEF OneBody
  <2>4. from = next
    BY <2>3
  <2>5. IsBody(from, f, 256)
    BY <2>4 DEF IsBody
  <2> HIDE DEF from
  <2>6. 256 - 0 = 256 /\ 0 \in Nat
    OBVIOUS
  <2> QED BY <2>5, <2>6
<1>2. ASSUME NEW k \in S PROVE k + 1 \in S
  <2>1. k \in Nat /\ k + 1 \in Nat
    OBVIOUS
  <2> SUFFICES ASSUME k + 1 <= 256 PROVE \E from : IsBody(from, f, 256 - (k + 1))
    BY <2>1
  <2> DEFINE n == 256 - (k + 1)
  <2>2. n \in Nat /\ 256 - k = n + 1
    BY <2>1
  <2>3. \E from : IsBody(from, f, 256 - k)
    BY <2>1
  <2> HIDE DEF S
  <2>4. PICK from : IsBody(from, f, n + 1)
    BY <2>2, <2>3
  <2> HIDE DEF n
  <2>5. \A names \in SUBSET Above(f, n + 1) : from[names] = OneBody(from, f, names)
    BY <2>4 DEF IsBody
  <2>6. \A x \in DOMAIN f : x \in Nat
    BY DEF Byte
  <2>7. Above(f, n) = Above(f, n + 1) \cup ({n} \cap DOMAIN f)
    BY <2>2, <2>6 DEF Above
  <2>8. CASE n \notin DOMAIN f
    <3>1. Above(f, n) = Above(f, n + 1)
      BY <2>7, <2>8
    <3>2. IsBody(from, f, n)
      BY <2>4, <3>1 DEF IsBody
    <3> QED BY <3>2 DEF n
  <2>9. CASE n \in DOMAIN f
    <3> DEFINE Old == SUBSET Above(f, n + 1)
               first == FieldHex(n, f[n])
               more == [names \in SUBSET Above(f, n) |->
                          IF n \in names THEN first \o from[names \ {n}] ELSE from[names]]
    <3>1. n \notin Above(f, n + 1)
      BY <2>2 DEF Above
    <3>2. Above(f, n) \subseteq Nat /\ \A x \in Above(f, n) : n <= x
      BY <2>2, <2>6 DEF Above
    <3>3. \A names \in SUBSET Above(f, n) : n \notin names => names \in Old
      BY <2>7
    <3>4. \A names \in SUBSET Above(f, n) : names \ {n} \in Old
      BY <2>7
    <3>5. \A names \in Old : names \in SUBSET Above(f, n) /\ n \notin names
      BY <2>7, <3>1
    <3>6. \A names \in Old : more[names] = from[names]
      BY <3>5
    <3>7. ASSUME NEW names \in SUBSET Above(f, n) PROVE more[names] = OneBody(more, f, names)
      <4>1. CASE names = {}
        <5>1. names \in Old
          BY <4>1
        <5>2. from[names] = <<>>
          BY <4>1, <5>1, <2>5 DEF OneBody
        <5> QED BY <4>1, <5>1, <5>2, <3>6 DEF OneBody
      <4>2. CASE n \in names
        <5>1. Min(names) \in names /\ \A y \in names : Min(names) <= y
          BY <4>2, <3>2, MinIs
        <5>2. Min(names) = n
          <6> DEFINE least == Min(names)
          <6>1. least \in Nat /\ n <= least /\ least <= n
            BY <4>2, <5>1, <3>2
          <6> HIDE DEF least
          <6>2. least = n
            BY <6>1, <2>2
          <6> QED BY <6>2 DEF least
        <5>3. more[names \ {n}] = from[names \ {n}]
          BY <3>4, <3>6
        <5>4. more[names] = first \o from[names \ {n}]
          BY <4>2
        <5> HIDE DEF more
        <5>5. OneBody(more, f, names) = first \o more[names \ {n}]
          BY <4>2, <5>2 DEF OneBody
        <5> QED BY <5>3, <5>4, <5>5
      <4>3. CASE names # {} /\ n \notin names
        <5>1. names \in Old
          BY <4>3, <3>3
        <5>2. names \ {Min(names)} \in Old
          BY <5>1
        <5>3. more[names] = from[names] /\ from[names] = OneBody(from, f, names)
          BY <5>1, <3>6, <2>5
        <5>4. more[names \ {Min(names)}] = from[names \ {Min(names)}]
          BY <5>2, <3>6
        <5> HIDE DEF more
        <5>5. OneBody(more, f, names) = OneBody(from, f, names)
          BY <5>4 DEF OneBody
        <5> QED BY <5>3, <5>5
      <4> QED BY <4>1, <4>2, <4>3
    <3>8. more = [names \in SUBSET Above(f, n) |-> more[names]]
      OBVIOUS
    <3> HIDE DEF more
    <3>9. more = [names \in SUBSET Above(f, n) |-> OneBody(more, f, names)]
      BY <3>7, <3>8
    <3>10. IsBody(more, f, n)
      BY <3>9 DEF IsBody
    <3> QED BY <3>10 DEF n
  <2> QED BY <2>8, <2>9
<1>3. S = Nat
  <2> HIDE DEF S
  <2>1. S \subseteq Nat
    BY DEF S
  <2> QED BY <1>1, <1>2, <2>1, NatSet
<1>4. \E from : IsBody(from, f, 256 - 256)
  BY <1>3
<1> QED BY <1>4

\* The first field of some, and the others.
LEMMA BodyIs ==
  ASSUME NEW f, DOMAIN f \subseteq Byte, NEW names \in SUBSET DOMAIN f
  PROVE  /\ names = {} => BodyOf(f, names) = <<>>
         /\ names # {} =>
              BodyOf(f, names) = FieldHex(Min(names), f[Min(names)])
                                   \o BodyOf(f, names \ {Min(names)})
<1> DEFINE from == CHOOSE from : from =
             [rest \in SUBSET DOMAIN f |->
                IF rest = {} THEN <<>>
                ELSE FieldHex(Min(rest), f[Min(rest)]) \o from[rest \ {Min(rest)}]]
<1>1. \A rest \in SUBSET DOMAIN f : BodyOf(f, rest) = from[rest]
  BY DEF BodyOf
<1>2. Above(f, 0) = DOMAIN f
  BY DEF Above, Byte
<1>3. from = [rest \in SUBSET DOMAIN f |->
                IF rest = {} THEN <<>>
                ELSE FieldHex(Min(rest), f[Min(rest)]) \o from[rest \ {Min(rest)}]]
  <2>1. \E from_ : IsBody(from_, f, 0)
    BY BodyExists
  <2>2. \E from_ : from_ =
             [rest \in SUBSET DOMAIN f |->
                IF rest = {} THEN <<>>
                ELSE FieldHex(Min(rest), f[Min(rest)]) \o from_[rest \ {Min(rest)}]]
    BY <1>2, <2>1 DEF IsBody, OneBody
  <2> QED BY <2>2
<1> HIDE DEF from
<1>4. /\ names = {} => from[names] = <<>>
      /\ names # {} => from[names] = FieldHex(Min(names), f[Min(names)])
                                       \o from[names \ {Min(names)}]
  BY <1>3
<1>5. names \ {Min(names)} \in SUBSET DOMAIN f
  OBVIOUS
<1> QED BY <1>1, <1>4, <1>5

\* The concatenation of two sequences, by its places.
LEMMA JoinIs ==
  ASSUME NEW S, NEW s \in Seq(S), NEW t \in Seq(S)
  PROVE  /\ s \o t \in Seq(S) /\ Len(s \o t) = Len(s) + Len(t)
         /\ \A i \in 1..Len(s) : (s \o t)[i] = s[i]
         /\ \A i \in 1..Len(t) : (s \o t)[Len(s) + i] = t[i]
<1>1. /\ s \o t \in Seq(S) /\ Len(s \o t) = Len(s) + Len(t)
      /\ \A i \in 1 .. Len(s) + Len(t) :
           (s \o t)[i] = IF i <= Len(s) THEN s[i] ELSE t[i - Len(s)]
  BY ConcatProperties
<1>2. Len(s) \in Nat /\ Len(t) \in Nat
  BY LenProperties
<1>3. ASSUME NEW i \in 1..Len(s) PROVE (s \o t)[i] = s[i]
  BY <1>1, <1>2
<1>4. ASSUME NEW i \in 1..Len(t) PROVE (s \o t)[Len(s) + i] = t[i]
  <2>1. Len(s) + i \in 1 .. Len(s) + Len(t) /\ ~(Len(s) + i <= Len(s))
        /\ (Len(s) + i) - Len(s) = i
    BY <1>2
  <2> QED BY <1>1, <2>1
<1> QED BY <1>1, <1>3, <1>4

\* Where the bytes of a field are, with n bytes for the name and the length.
FieldAt(b, n, t, v, rest) ==
  /\ Len(b) = n + (Len(t) + Len(v)) + Len(rest)
  /\ \A i \in 1..Len(t) : b[n + i] = t[i]
  /\ \A i \in 1..Len(v) : b[n + Len(t) + i] = v[i]
  /\ \A i \in 1..Len(rest) : b[n + (Len(t) + Len(v)) + i] = rest[i]

LEMMA BytesPlaced ==
  ASSUME NEW S, NEW s \in Seq(S), NEW rest \in Seq(S), NEW t \in Seq(S), NEW v \in Seq(S)
  PROVE  /\ s \o t \o v \o rest \in Seq(S)
         /\ FieldAt(s \o t \o v \o rest, Len(s), t, v, rest)
         /\ \A i \in 1..Len(s) : (s \o t \o v \o rest)[i] = s[i]
<1> DEFINE s1 == s \o t
           s2 == s1 \o v
           b == s2 \o rest
<1>2. Len(s) \in Nat /\ Len(t) \in Nat /\ Len(v) \in Nat /\ Len(rest) \in Nat
  BY LenProperties
<1>3. /\ s1 \in Seq(S) /\ Len(s1) = Len(s) + Len(t)
      /\ \A i \in 1..Len(s) : s1[i] = s[i]
      /\ \A i \in 1..Len(t) : s1[Len(s) + i] = t[i]
  BY JoinIs
<1>4. /\ s2 \in Seq(S) /\ Len(s2) = Len(s1) + Len(v)
      /\ \A i \in 1..Len(s1) : s2[i] = s1[i]
      /\ \A i \in 1..Len(v) : s2[Len(s1) + i] = v[i]
  <2>1. s1 \in Seq(S)
    BY <1>3
  <2> HIDE DEF s1
  <2> QED BY ONLY <2>1, v \in Seq(S), JoinIs
<1>5. /\ b \in Seq(S) /\ Len(b) = Len(s2) + Len(rest)
      /\ \A i \in 1..Len(s2) : b[i] = s2[i]
      /\ \A i \in 1..Len(rest) : b[Len(s2) + i] = rest[i]
  <2>1. s2 \in Seq(S)
    BY <1>4
  <2> HIDE DEF s2
  <2> QED BY ONLY <2>1, rest \in Seq(S), JoinIs
<1> HIDE DEF s1, s2, b
<1>6. ASSUME NEW i \in 1..Len(s) PROVE b[i] = s[i]
  <2>1. i \in 1..Len(s1) /\ i \in 1..Len(s2)
    BY <1>2, <1>3, <1>4
  <2> QED BY <2>1, <1>3, <1>4, <1>5
<1>7. ASSUME NEW i \in 1..Len(t) PROVE b[Len(s) + i] = t[i]
  <2>1. Len(s) + i \in 1..Len(s1) /\ Len(s) + i \in 1..Len(s2)
    BY <1>2, <1>3, <1>4
  <2> QED BY <2>1, <1>3, <1>4, <1>5
<1>8. ASSUME NEW i \in 1..Len(v) PROVE b[Len(s) + Len(t) + i] = v[i]
  <2>1. Len(s1) + i \in 1..Len(s2)
    BY <1>2, <1>3, <1>4
  <2> QED BY <2>1, <1>3, <1>4, <1>5
<1>9. ASSUME NEW i \in 1..Len(rest) PROVE b[Len(s) + (Len(t) + Len(v)) + i] = rest[i]
  <2>1. Len(s) + (Len(t) + Len(v)) + i = Len(s2) + i
    BY <1>2, <1>3, <1>4
  <2> QED BY <2>1, <1>5
<1>10. Len(b) = Len(s) + (Len(t) + Len(v)) + Len(rest)
  BY <1>2, <1>3, <1>4, <1>5
<1>11. FieldAt(b, Len(s), t, v, rest)
  BY <1>7, <1>8, <1>9, <1>10 DEF FieldAt
<1> QED BY <1>5, <1>6, <1>11 DEF b, s2, s1

\* Of a sequence the part that is another.
LEMMA PartIs ==
  ASSUME NEW S, NEW b \in Seq(S), NEW n \in Nat, NEW v \in Seq(S), NEW m,
         m = n + Len(v), m <= Len(b), \A i \in 1..Len(v) : b[n + i] = v[i]
  PROVE  SubSeq(b, n + 1, m) = v
<1>1. Len(v) \in Nat /\ Len(b) \in Nat
  BY LenProperties
<1>2. \A i \in n + 1 .. m : b[i] \in S
  BY <1>1, ElementOfSeq
<1>3. /\ SubSeq(b, n + 1, m) \in Seq(S)
      /\ Len(SubSeq(b, n + 1, m)) = Len(v)
      /\ \A i \in 1..Len(v) : SubSeq(b, n + 1, m)[i] = b[n + i]
  BY <1>1
<1> QED BY <1>3, SeqEqual

LEMMA ByteIs == \A x : x \in Byte <=> x \in Nat /\ x <= 255
BY DEF Byte

\* A length has one byte, or two.
LEMMA LengthBytesAre ==
  ASSUME NEW n \in Nat, 1 <= n, n < 65536
  PROVE  /\ n < 256 => LengthBytes(n) = <<n>>
         /\ n > 255 => /\ LengthBytes(n) = <<n % 256, n \div 256>>
                       /\ n % 256 \in Byte /\ n \div 256 \in Byte
                       /\ (n % 256) + 256 * (n \div 256) = n
<1>1. n > 255 => n % 256 \in Byte /\ n \div 256 \in Byte
                 /\ (n % 256) + 256 * (n \div 256) = n
  BY SMT, ByteIs
<1>2. n < 256 => LengthBytes(n) = <<n>>
  BY DEF LengthBytes
<1>3. n > 255 => LengthBytes(n) = <<n % 256, n \div 256>>
  BY DEF LengthBytes
<1> QED BY <1>1, <1>2, <1>3

\* What a field needs of the bytes after it: other names are larger, a text is
\* not the last, and after a short field there are not too many.
Follows(name, t, v, rest) ==
  /\ Len(rest) >= 1
  /\ Len(rest) = 1 => t # <<Str>>
  /\ Len(rest) > 1 => rest[1] \in Byte /\ rest[1] > name
  /\ Len(t) + Len(v) > 255 \/ Len(rest) <= 256

FieldOf(t, v) == [type |-> t, value |-> v]

\* What is assumed of a field, by its type and its value.
GoodBytes(t, v) ==
  /\ t \in Seq(Byte) /\ v \in Seq(Byte)
  /\ Len(v) \in Nat /\ Len(v) >= 1 /\ Len(t) + Len(v) < 65536
  /\ \/ Len(t) = 0 /\ t = <<>> /\ Len(v) < 256 /\ (Len(v) > 1 => v[1] > 49)
     \/ /\ Len(t) = 1 /\ t # <<>> /\ t[1] <= 49
        /\ Len(t) + Len(v) > 255 => t[1] \in {Str, Bin}
        /\ t[1] = Str => Decodable(v) /\ v[1] # Bin

LEMMA GoodIs ==
  ASSUME NEW f, GoodField(f)
  PROVE  \E t, v : f = FieldOf(t, v) /\ GoodBytes(t, v)
<1>1. f \in [type : Seq(Byte), value : Seq(Byte)]
  BY DEF GoodField
<1>2. PICK t \in Seq(Byte), v \in Seq(Byte) : f = FieldOf(t, v)
  BY <1>1 DEF FieldOf
<1>3. f.type = t /\ f.value = v
  BY <1>2 DEF FieldOf
<1>4. /\ v # <<>> /\ Len(t) + Len(v) < 65536
      /\ \/ t = <<>> /\ Len(v) < 256 /\ (Len(v) > 1 => v[1] > 49)
         \/ /\ Len(t) = 1 /\ t[1] <= 49
            /\ Len(t) + Len(v) > 255 => t[1] \in {Str, Bin}
            /\ t[1] = Str => Decodable(v) /\ v[1] # Bin
  BY <1>3 DEF GoodField, FieldLength
<1>5. Len(v) \in Nat /\ Len(v) # 0
  BY <1>4, LenProperties, EmptySeq
<1>6. (t = <<>> => Len(t) = 0) /\ (Len(t) = 1 => t # <<>>)
  OBVIOUS
<1>7. Len(v) >= 1
  BY <1>5
<1>8. GoodBytes(t, v)
  BY <1>4, <1>5, <1>6, <1>7 DEF GoodBytes
<1> QED BY <1>2, <1>8

\* A field as it is read.
FieldRead(b, t, v, n) ==
  ParsedField(b) = [field |-> FieldOf(t, v), size |-> n + (Len(t) + Len(v))]

LEMMA GoodSizes ==
  ASSUME NEW t, NEW v, GoodBytes(t, v)
  PROVE  /\ t \in Seq(Byte) /\ v \in Seq(Byte)
         /\ Len(t) \in Nat /\ Len(t) <= 1 /\ Len(v) \in Nat /\ Len(v) >= 1
         /\ Len(t) + Len(v) < 65536
         /\ v[1] \in Byte
<1>1. /\ t \in Seq(Byte) /\ v \in Seq(Byte) /\ Len(v) \in Nat /\ Len(v) >= 1
      /\ Len(t) + Len(v) < 65536
  BY DEF GoodBytes
<1>2. (Len(t) = 0 /\ t = <<>>) \/ (Len(t) = 1 /\ t # <<>>)
  BY DEF GoodBytes
<1>3. v[1] \in Byte
  <2>1. 1 \in 1..Len(v)
    BY <1>1
  <2> QED BY <1>1, <2>1, ElementOfSeq
<1>6. Len(t) = 0 \/ Len(t) = 1
  BY <1>2, Zenon
<1>4. Len(t) \in Nat /\ Len(t) <= 1
  <2> DEFINE n == Len(t)
  <2>1. n = 0 \/ n = 1
    BY <1>6
  <2> HIDE DEF n
  <2>2. n \in Nat /\ n <= 1
    BY <2>1
  <2> QED BY <2>2 DEF n
<1> QED BY ONLY <1>1, <1>3, <1>4

LEMMA GoodTypes ==
  ASSUME NEW t, NEW v, GoodBytes(t, v)
  PROVE  (t = <<>> \/ Len(t) = 1) /\ (t = <<>> => Len(t) = 0)
<1>1. (Len(t) = 0 /\ t = <<>>) \/ (Len(t) = 1 /\ t # <<>>)
  BY DEF GoodBytes
<1> QED BY <1>1, Zenon

LEMMA OneIs ==
  ASSUME NEW S, NEW t \in Seq(S), Len(t) = 1
  PROVE  t # <<>> /\ t = <<t[1]>> /\ t[1] \in S
OBVIOUS

\* ParsedField() when the length has one byte.
LEMMA ShortIsRead ==
  ASSUME NEW S, NEW name \in Nat, 160 <= name, NEW t, NEW v, GoodBytes(t, v),
         Byte \subseteq S, NEW rest \in Seq(S), Follows(name, t, v, rest),
         Len(t) + Len(v) < 256, NEW b \in Seq(S), FieldAt(b, 2, t, v, rest),
         b[1] = name, b[2] = Len(t) + Len(v)
  PROVE  FieldRead(b, t, v, 2)
<1> DEFINE L == Len(t) + Len(v)
<1>1. /\ t \in Seq(Byte) /\ v \in Seq(Byte)
      /\ Len(t) \in Nat /\ Len(t) <= 1 /\ Len(v) \in Nat /\ Len(v) >= 1
      /\ L \in Nat /\ L < 256 /\ L >= 1
      /\ (t = <<>> \/ Len(t) = 1)
      /\ v[1] \in Byte
  BY GoodSizes, GoodTypes
<1>2. Len(rest) \in Nat /\ Len(rest) >= 1 /\ Len(rest) <= 256 /\ Len(b) \in Nat
  <2>1. Len(rest) \in Nat /\ Len(b) \in Nat
    BY LenProperties
  <2> QED BY <1>1, <2>1 DEF Follows
<1>3. /\ Len(b) = 2 + L + Len(rest)
      /\ \A i \in 1..Len(t) : b[2 + i] = t[i]
      /\ \A i \in 1..Len(v) : b[2 + Len(t) + i] = v[i]
      /\ \A i \in 1..Len(rest) : b[2 + L + i] = rest[i]
  BY DEF FieldAt
<1>4. Len(rest) > 1 => b[L + 3] = rest[1] /\ rest[1] \in Byte /\ rest[1] > name
  <2>1. b[2 + L + 1] = rest[1]
    BY <1>2, <1>3
  <2>2. 2 + L + 1 = L + 3
    BY <1>1
  <2> QED BY <2>1, <2>2 DEF Follows
<1>5. t = <<>> => b[3] = v[1] /\ v[1] \in Byte /\ (L > 1 => v[1] > 49)
  <2> SUFFICES ASSUME t = <<>> PROVE b[3] = v[1] /\ v[1] \in Byte /\ (L > 1 => v[1] > 49)
    OBVIOUS
  <2>1. Len(t) = 0
    OBVIOUS
  <2>2. b[2 + Len(t) + 1] = v[1] /\ v[1] \in Byte
    BY <1>1, <1>3
  <2>3. Len(v) > 1 => v[1] > 49
    BY <2>1 DEF GoodBytes
  <2> QED BY <1>1, <2>1, <2>2, <2>3
<1>6. Len(t) = 1 => /\ b[3] = t[1] /\ t = <<b[3]>> /\ b[3] \in Nat /\ b[3] <= 49 /\ b[4] = v[1]
                    /\ v[1] \in Byte /\ (b[3] = Str => Decodable(v) /\ v[1] # Bin)
  <2> SUFFICES ASSUME Len(t) = 1
               PROVE  /\ b[3] = t[1] /\ t = <<b[3]>> /\ b[3] \in Nat /\ b[3] <= 49 /\ b[4] = v[1]
                      /\ v[1] \in Byte /\ (b[3] = Str => Decodable(v) /\ v[1] # Bin)
    OBVIOUS
  <2>1. b[2 + 1] = t[1]
    BY <1>3
  <2>2. b[2 + 1 + 1] = v[1] /\ v[1] \in Byte
    BY <1>1, <1>3
  <2>3. t # <<>> /\ t[1] \in Byte /\ t = <<t[1]>>
    <3>1. t \in Seq(Byte)
      BY <1>1
    <3> QED BY <3>1, OneIs
  <2>4. t[1] \in Byte /\ t = <<t[1]>>
    BY <2>3
  <2>5. t[1] <= 49 /\ (t[1] = Str => Decodable(v) /\ v[1] # Bin)
    BY <2>3 DEF GoodBytes
  <2> QED BY <2>1, <2>2, <2>4, <2>5, ByteIs
<1>7. t = <<>> \/ Len(t) = 1
  BY <1>1
<1>8. b[3] \in Byte
  BY <1>5, <1>6, <1>7, ByteIs
<1>9. ~LongField(b)
  <2> SUFFICES ASSUME LongField(b) PROVE FALSE
    OBVIOUS
  <2>1. b[4] \in {Str, Bin} /\ 3 < LongLength(b) /\ LongLength(b) <= Len(b) - 4
    BY DEF LongField
  <2>2. LongLength(b) = L + 256 * b[3]
    BY DEF LongLength
  <2>3. b[3] = 0
    <3> DEFINE x == b[3]
               r == Len(rest)
    <3>1. x \in Nat /\ r \in Nat /\ r <= 256 /\ L \in Nat /\ L + 256 * x <= (2 + L + r) - 4
      BY <1>1, <1>2, <1>3, <1>8, <2>1, <2>2, ByteIs
    <3> HIDE DEF x, r, L
    <3>2. x = 0
      BY <3>1
    <3> QED BY <3>2 DEF x
  <2>4. LongLength(b) = L /\ L > 3 /\ Len(rest) > 1
    BY <1>1, <1>2, <1>3, <2>1, <2>2, <2>3
  <2>5. Len(t) = 1
    BY <1>5, <1>7, <2>3, <2>4
  <2>6. b[4] # Bin
    BY <1>6, <2>3, <2>5 DEF Str
  <2>7. Decodable(SubSeq(b, 5, 3 + L))
    BY <2>1, <2>4, <2>6 DEF LongField, Bin, Str
  <2> DEFINE text == SubSeq(b, 5, 3 + L)
  <2>8. /\ text \in Seq(S) /\ Len(text) = (3 + L) - 5 + 1
        /\ text[L - 1] = b[5 + (L - 1) - 1]
    <3>1. \A i \in 5..(3 + L) : b[i] \in S
      BY <1>1, <1>2, <1>3, ElementOfSeq
    <3>2. 5 \in Int /\ 3 + L \in Int /\ L - 1 \in 1 .. (3 + L) - 5 + 1 /\ 5 <= 3 + L
      BY <1>1, <2>4
    <3> QED BY <3>1, <3>2, SubSeqProperties
  <2>9. L - 1 \in DOMAIN text /\ text[L - 1] = b[L + 3]
    BY <1>1, <2>4, <2>8
  <2>10. b[L + 3] < 128
    BY <2>7, <2>9 DEF Decodable
  <2> QED BY <1>4, <2>4, <2>10, ByteIs
<1>10. HeadLength(b) = 2 /\ ReadLength(b) = L
  BY <1>9 DEF HeadLength, ReadLength
<1>14. ValidLength(b) /\ ~TextGoesOn(b) /\ ReadType(b) = t
  <2>1. 0 < L /\ L <= Len(b) - 2
    BY <1>1, <1>2, <1>3
  <2>2. Len(t) = 1 => L > 1 /\ b[3] <= 49
    BY <1>1, <1>6
  <2>3. t = <<>> => ~(L > 1 /\ b[3] <= 49)
    BY <1>5, ByteIs
  <2>4. t = <<>> => Len(t) = 0
    OBVIOUS
  <2>5. ~(/\ L > 1 /\ b[3] <= 49 /\ b[3] = Str
          /\ L + 3 <= Len(b) /\ b[L + 3] < name)
    <3> SUFFICES ASSUME L > 1, b[3] <= 49, b[3] = Str, L + 3 <= Len(b), b[L + 3] < name
                 PROVE  FALSE
      OBVIOUS
    <3>1. Len(t) = 1 /\ t = <<Str>>
      BY <2>3, <1>7, <1>6
    <3>2. Len(rest) > 1
      BY <3>1, <1>2 DEF Follows
    <3> QED BY <3>2, <1>4, ByteIs
  <2>6. 2 + L + 1 = L + 3 /\ 2 + 1 = 3
    BY <1>1
  <2>7. Len(t) = 1 => t = <<b[3]>>
    BY <1>6
  <2> HIDE DEF L
  <2>8. ValidLength(b)
    BY <1>10, <2>1 DEF ValidLength
  <2>9. HasType(b) <=> Len(t) = 1
    BY <1>10, <1>7, <2>2, <2>3, <2>4, <2>6, <2>8 DEF HasType
  <2>10. ReadType(b) = t
    <3>1. HasType(b) => ReadType(b) = <<b[3]>>
      BY <1>10, <2>6 DEF ReadType
    <3>2. ~HasType(b) => ReadType(b) = <<>>
      BY DEF ReadType
    <3> QED BY <1>7, <2>4, <2>7, <2>9, <3>1, <3>2
  <2>11. ~TextGoesOn(b)
    <3> SUFFICES ASSUME TextGoesOn(b) PROVE FALSE
      OBVIOUS
    <3>1. HasType(b) /\ b[3] = Str /\ L + 3 <= Len(b) /\ b[L + 3] < name
      BY <1>10, <2>6 DEF TextGoesOn
    <3>2. L > 1 /\ b[3] <= 49
      BY <3>1, <2>2, <2>9
    <3> QED BY <2>5, <3>1, <3>2
  <2> QED BY <2>8, <2>10, <2>11
<1>11. SubSeq(b, 2 + 1 + Len(t), 2 + L + 0) = v
  <2>1. v \in Seq(S)
    BY <1>1
  <2>2. 2 + L + 0 = (2 + Len(t)) + Len(v) /\ 2 + L + 0 <= Len(b)
        /\ 2 + Len(t) \in Nat /\ 2 + 1 + Len(t) = (2 + Len(t)) + 1
    BY <1>1, <1>2, <1>3
  <2>3. \A i \in 1..Len(v) : b[(2 + Len(t)) + i] = v[i]
    BY <1>3
  <2> HIDE DEF L
  <2> DEFINE m == 2 + Len(t)
             z == 2 + L + 0
  <2>4. m \in Nat /\ z = m + Len(v) /\ z <= Len(b) /\ \A i \in 1..Len(v) : b[m + i] = v[i]
    BY <2>2, <2>3
  <2> HIDE DEF m, z
  <2>5. SubSeq(b, m + 1, z) = v
    BY <2>1, <2>4, PartIs
  <2> QED BY <2>2, <2>5 DEF m, z
<1>12. (1 + Len(t) + Len(v)) + (2 - 1) = 2 + L /\ L > 0
  BY <1>1
<1>15. ReadValue(b) = v
  <2> HIDE DEF L
  <2> QED BY <1>10, <1>11, <1>14 DEF ReadValue
<1>13. ParsedField(b) = [field |-> [type |-> t, value |-> v], size |-> 2 + L]
  <2>1. (IF ReadLength(b) > 0 THEN HeadLength(b) - 1 ELSE 0) = 2 - 1
    BY <1>10, <1>12
  <2> HIDE DEF L
  <2> QED BY <1>14, <1>15, <1>12, <2>1 DEF ParsedField
<1> QED BY <1>13 DEF FieldRead, FieldOf

LEMMA SeqWider ==
  ASSUME NEW S, NEW T, S \subseteq T, NEW s \in Seq(S)
  PROVE  s \in Seq(T)
OBVIOUS

LEMMA JoinOnes ==
  ASSUME NEW a, NEW x, NEW y
  PROVE  <<a>> \o <<x>> = <<a, x>> /\ <<a>> \o <<x, y>> = <<a, x, y>>
<1> DEFINE S == {a, x, y}
           s == <<a>>
           t == <<x>>
           u == <<x, y>>
<1>1. s \in Seq(S) /\ t \in Seq(S) /\ u \in Seq(S) /\ Len(s) = 1 /\ Len(t) = 1 /\ Len(u) = 2
      /\ s[1] = a /\ t[1] = x /\ u[1] = x /\ u[2] = y
  OBVIOUS
<1>2. <<a, x>> \in Seq(S) /\ <<a, x, y>> \in Seq(S)
  OBVIOUS
<1> HIDE DEF S, s, t, u
<1>7. s \in Seq(S) /\ t \in Seq(S) /\ u \in Seq(S)
  BY <1>1
<1>3. /\ s \o t \in Seq(S) /\ Len(s \o t) = Len(s) + Len(t)
      /\ \A i \in 1..Len(s) : (s \o t)[i] = s[i]
      /\ \A i \in 1..Len(t) : (s \o t)[Len(s) + i] = t[i]
  BY ONLY <1>7, JoinIs
<1>4. /\ s \o u \in Seq(S) /\ Len(s \o u) = Len(s) + Len(u)
      /\ \A i \in 1..Len(s) : (s \o u)[i] = s[i]
      /\ \A i \in 1..Len(u) : (s \o u)[Len(s) + i] = u[i]
  BY ONLY <1>7, JoinIs
<1>5. s \o t = <<a, x>>
  <2> DEFINE st == s \o t
  <2>1. Len(st) = 2 /\ st[1] = a /\ st[1 + 1] = x /\ st \in Seq(S)
    BY <1>1, <1>3
  <2> HIDE DEF st
  <2>2. st = <<a, x>>
    BY <2>1
  <2> QED BY <2>2 DEF st
<1>6. s \o u = <<a, x, y>>
  <2> DEFINE su == s \o u
  <2>1. Len(su) = 3 /\ su[1] = a /\ su[1 + 1] = x /\ su[1 + 2] = y /\ su \in Seq(S)
    BY <1>1, <1>4
  <2> HIDE DEF su
  <2>2. su = <<a, x, y>>
    BY <2>1
  <2> QED BY <2>2 DEF su
<1> QED BY <1>5, <1>6 DEF s, t, u

LEMMA OneOrMore ==
  \A n \in Nat : n >= 1 => n = 1 \/ n > 1
OBVIOUS

\* ParsedField() when the length has two bytes.
LEMMA LongIsRead ==
  ASSUME NEW S, NEW name \in Nat, 160 <= name, NEW t, NEW v, GoodBytes(t, v),
         Byte \subseteq S, NEW rest \in Seq(S), Follows(name, t, v, rest),
         Len(t) + Len(v) > 255, NEW b \in Seq(S), FieldAt(b, 3, t, v, rest),
         b[1] = name, LongLength(b) = Len(t) + Len(v)
  PROVE  FieldRead(b, t, v, 3)
<1> DEFINE L == Len(t) + Len(v)
<1>1. /\ t \in Seq(Byte) /\ v \in Seq(Byte)
      /\ Len(t) \in Nat /\ Len(t) <= 1 /\ Len(v) \in Nat /\ Len(v) >= 1
      /\ L \in Nat /\ L > 255
      /\ (t = <<>> \/ Len(t) = 1)
      /\ v[1] \in Byte
  BY GoodSizes, GoodTypes
<1>2. Len(rest) \in Nat /\ Len(rest) >= 1 /\ Len(b) \in Nat
  <2>1. Len(rest) \in Nat /\ Len(b) \in Nat
    BY LenProperties
  <2> QED BY <2>1 DEF Follows
<1>3. /\ Len(b) = 3 + L + Len(rest)
      /\ \A i \in 1..Len(t) : b[3 + i] = t[i]
      /\ \A i \in 1..Len(v) : b[3 + Len(t) + i] = v[i]
      /\ \A i \in 1..Len(rest) : b[3 + L + i] = rest[i]
  BY DEF FieldAt
<1>4. Len(rest) > 1 => b[L + 4] = rest[1] /\ rest[1] \in Byte /\ rest[1] > name
  <2>1. b[3 + L + 1] = rest[1]
    BY <1>2, <1>3
  <2>2. 3 + L + 1 = L + 4
    BY <1>1
  <2> QED BY <2>1, <2>2 DEF Follows
<1>5. /\ Len(t) = 1 /\ t # <<>> /\ t[1] <= 49 /\ t[1] \in {Str, Bin}
      /\ t[1] = Str => Decodable(v)
  <2>1. ~(Len(t) = 0 /\ t = <<>> /\ Len(v) < 256)
    BY <1>1
  <2> QED BY <2>1 DEF GoodBytes
<1>6. b[4] = t[1] /\ t = <<b[4]>>
  <2>1. b[3 + 1] = t[1]
    BY <1>3, <1>5
  <2>2. t = <<t[1]>>
    BY <1>1, <1>5, OneIs
  <2> QED BY <2>1, <2>2
<1>7. /\ SubSeq(b, 4 + 1, 3 + L) = v
      /\ 3 + L <= Len(b) /\ Len(b) - L >= 4 /\ Len(b) >= 4
  <2> DEFINE z == 3 + L
  <2>1. v \in Seq(S)
    BY <1>1
  <2>2. z = 4 + Len(v) /\ z <= Len(b) /\ Len(b) - L >= 4 /\ Len(b) >= 4
    BY <1>1, <1>2, <1>3, <1>5
  <2>3. \A i \in 1..Len(v) : b[4 + i] = v[i]
    <3>1. 3 + Len(t) = 4
      BY <1>5
    <3> QED BY <1>3, <3>1
  <2> HIDE DEF z
  <2>4. SubSeq(b, 4 + 1, z) = v
    BY <2>1, <2>2, <2>3, PartIs
  <2> QED BY <2>2, <2>4 DEF z
<1>8. b[4] = Bin => Len(b) - L = 4 \/ b[4 + L] > b[1]
  <2>1. Len(rest) = 1 => Len(b) - L = 4
    BY <1>1, <1>3
  <2>2. 4 + L = L + 4
    BY <1>1
  <2>3. Len(rest) = 1 \/ Len(rest) > 1
    BY <1>2, OneOrMore
  <2> QED BY <1>4, <2>1, <2>2, <2>3
<1>9. LongField(b)
  <2>1. LongLength(b) = L /\ 3 < L /\ L <= Len(b) - 4
    BY <1>1, <1>2, <1>7
  <2>2. b[4] \in {Str, Bin}
    BY <1>5, <1>6
  <2>3. b[4] # Bin => Decodable(SubSeq(b, 5, 3 + L))
    <3> SUFFICES ASSUME b[4] # Bin PROVE Decodable(SubSeq(b, 5, 3 + L))
      OBVIOUS
    <3>1. t[1] = Str
      BY <1>6, <2>2
    <3>2. Decodable(v) /\ 4 + 1 = 5
      BY <1>5, <3>1
    <3> HIDE DEF L
    <3> QED BY <1>7, <3>2
  <2> HIDE DEF L
  <2> QED BY <1>7, <1>8, <2>1, <2>2, <2>3 DEF LongField
<1>10. HeadLength(b) = 3 /\ ReadLength(b) = L
  BY <1>9 DEF HeadLength, ReadLength
<1>11. ValidLength(b) /\ HasType(b) /\ ReadType(b) = t
  <2>1. 0 < L /\ L <= Len(b) - 2 /\ L > 1
    BY <1>1, <1>2, <1>3
  <2>2. b[3 + 1] <= 49
    BY <1>5, <1>6
  <2> HIDE DEF L
  <2>3. ValidLength(b) /\ HasType(b)
    BY <1>10, <2>1, <2>2 DEF ValidLength, HasType
  <2>4. ReadType(b) = <<b[3 + 1]>>
    BY <1>10, <2>3 DEF ReadType
  <2> QED BY <1>6, <2>3, <2>4
<1>12. ~TextGoesOn(b)
  <2> SUFFICES ASSUME TextGoesOn(b) PROVE FALSE
    OBVIOUS
  <2>1. b[4] = Str /\ L + 4 <= Len(b) /\ b[L + 4] < name
    <3>1. 3 + L + 1 = L + 4
      BY <1>1
    <3> HIDE DEF L
    <3> QED BY <1>10, <3>1 DEF TextGoesOn
  <2>2. Len(rest) > 1
    <3>1. t = <<Str>>
      BY <1>6, <2>1
    <3>2. Len(rest) # 1
      BY <3>1 DEF Follows
    <3> QED BY <3>2, <1>2, OneOrMore
  <2> QED BY <1>4, <2>1, <2>2, ByteIs
<1>13. ReadValue(b) = v
  <2>1. 3 + 1 + Len(t) = 4 + 1 /\ 3 + L + 0 = 3 + L
    BY <1>1, <1>5
  <2> HIDE DEF L
  <2> QED BY <1>10, <1>7, <1>11, <1>12, <2>1 DEF ReadValue
<1>14. ParsedField(b) = [field |-> [type |-> t, value |-> v], size |-> 3 + L]
  <2>1. (IF ReadLength(b) > 0 THEN HeadLength(b) - 1 ELSE 0) = 3 - 1
    BY <1>10, <1>1
  <2>2. (1 + Len(t) + Len(v)) + (3 - 1) = 3 + L
    BY <1>1
  <2> HIDE DEF L
  <2> QED BY <1>11, <1>13, <2>1, <2>2 DEF ParsedField
<1> QED BY <1>14 DEF FieldRead, FieldOf

\* The bytes of a field: those of its name and length, its type, its value.
HexIs(hex, s, name, t, v) ==
  /\ s \in Seq(Byte) /\ Len(s) \in Nat /\ Len(s) >= 1 /\ s[1] = name
  /\ Len(t) + Len(v) < 256 => Len(s) = 2 /\ s[2] = Len(t) + Len(v)
  /\ Len(t) + Len(v) > 255 => Len(s) = 3 /\ s[2] + 256 * s[3] = Len(t) + Len(v)
  /\ hex = s \o t \o v
  /\ hex \in Seq(Byte) /\ Len(hex) = Len(s) + (Len(t) + Len(v)) /\ hex[1] = name
  /\ Len(hex) \in Nat /\ Len(hex) >= 1

LEMMA FieldHexIs ==
  ASSUME NEW name \in Byte, NEW t, NEW v, GoodBytes(t, v)
  PROVE  \E s : HexIs(FieldHex(name, FieldOf(t, v)), s, name, t, v)
<1> DEFINE L == Len(t) + Len(v)
           s == <<name>> \o LengthBytes(L)
           hex == FieldHex(name, FieldOf(t, v))
<1>1. /\ t \in Seq(Byte) /\ v \in Seq(Byte) /\ Len(t) \in Nat /\ Len(v) \in Nat
      /\ L \in Nat /\ 1 <= L /\ L < 65536 /\ name \in Nat
  BY GoodSizes, ByteIs
<1>2. hex = s \o t \o v
  BY DEF FieldHex, FieldOf, FieldLength
<1>3. /\ L < 256 => s = <<name, L>>
      /\ L > 255 => s = <<name, L % 256, L \div 256>> /\ L % 256 \in Byte
                    /\ L \div 256 \in Byte /\ (L % 256) + 256 * (L \div 256) = L
  <2> HIDE DEF L
  <2>1. /\ L < 256 => LengthBytes(L) = <<L>>
        /\ L > 255 => /\ LengthBytes(L) = <<L % 256, L \div 256>>
                      /\ L % 256 \in Byte /\ L \div 256 \in Byte
                      /\ (L % 256) + 256 * (L \div 256) = L
    BY <1>1, LengthBytesAre
  <2>2. L < 256 => s = <<name>> \o <<L>>
    BY <2>1
  <2>3. L > 255 => s = <<name>> \o <<L % 256, L \div 256>>
    BY <2>1
  <2> HIDE DEF s
  <2>4. <<name>> \o <<L>> = <<name, L>>
    BY JoinOnes
  <2> DEFINE x == L % 256
             y == L \div 256
  <2>5. <<name>> \o <<x, y>> = <<name, x, y>>
    <3> HIDE DEF x, y
    <3> QED BY JoinOnes
  <2> QED BY <2>1, <2>2, <2>3, <2>4, <2>5
<1>4. /\ s \in Seq(Byte) /\ s[1] = name
      /\ L < 256 => Len(s) = 2 /\ s[2] = L
      /\ L > 255 => Len(s) = 3 /\ s[2] + 256 * s[3] = L
  <2>1. L < 256 => L \in Byte
    BY <1>1, ByteIs
  <2>2. L < 256 \/ L > 255
    BY <1>1
  <2> HIDE DEF L, s
  <2>3. CASE L < 256
    <3>1. s = <<name, L>> /\ L \in Byte /\ ~(L > 255)
      BY <1>1, <1>3, <2>1, <2>3
    <3> QED BY <3>1, <2>3
  <2>4. CASE L > 255
    <3> DEFINE x == L % 256
               y == L \div 256
    <3>1. s = <<name, x, y>> /\ x \in Byte /\ y \in Byte /\ x + 256 * y = L /\ ~(L < 256)
      BY <1>1, <1>3, <2>4
    <3> HIDE DEF x, y
    <3>2. s \in Seq(Byte) /\ s[1] = name /\ Len(s) = 3 /\ s[2] = x /\ s[3] = y
      BY <3>1
    <3>3. s[2] + 256 * s[3] = L
      BY <3>1, <3>2
    <3> QED BY <3>1, <3>2, <3>3, <2>4
  <2> QED BY <2>2, <2>3, <2>4
<1> HIDE DEF s, hex
<1>8. hex \in Seq(Byte) /\ Len(hex) = Len(s) + L /\ hex[1] = name
  <2>1. s \o t \in Seq(Byte) /\ Len(s \o t) = Len(s) + Len(t)
        /\ \A i \in 1..Len(s) : (s \o t)[i] = s[i]
    BY <1>1, <1>4, JoinIs
  <2> DEFINE st == s \o t
  <2>2. st \in Seq(Byte) /\ Len(st) = Len(s) + Len(t) /\ st[1] = name
    BY <2>1, <1>4, <1>1
  <2> HIDE DEF st
  <2>3. st \o v \in Seq(Byte) /\ Len(st \o v) = Len(st) + Len(v)
        /\ \A i \in 1..Len(st) : (st \o v)[i] = st[i]
    <3>1. st \in Seq(Byte) /\ v \in Seq(Byte)
      BY <2>2, <1>1
    <3> QED BY ONLY <3>1, JoinIs
  <2>4. Len(s) \in Nat /\ Len(s) >= 1
    BY <1>1, <1>4
  <2>5. hex = st \o v
    BY <1>2 DEF st
  <2> QED BY <1>1, <2>2, <2>3, <2>4, <2>5
<1>9. Len(s) \in Nat /\ Len(s) >= 1 /\ Len(hex) \in Nat /\ Len(hex) >= 1
  <2>1. L < 256 \/ L > 255
    BY <1>1
  <2>2. Len(s) = 2 \/ Len(s) = 3
    BY <1>4, <2>1
  <2>3. Len(hex) = Len(s) + L
    BY <1>8
  <2> DEFINE n == Len(s)
             h == Len(hex)
  <2>4. (n = 2 \/ n = 3) /\ h = n + L /\ L \in Nat
    BY <1>1, <2>2, <2>3
  <2> HIDE DEF n, h, L
  <2>5. n \in Nat /\ n >= 1 /\ h \in Nat /\ h >= 1
    BY <2>4
  <2> QED BY <2>5 DEF n, h
<1>10. HexIs(hex, s, name, t, v)
  BY <1>2, <1>4, <1>8, <1>9 DEF HexIs
<1> QED BY <1>10 DEF hex

\* A field is read from its bytes, whatever good follows them.
LEMMA FieldIsRead ==
  ASSUME NEW name \in Byte, 160 <= name, NEW t, NEW v, GoodBytes(t, v),
         NEW rest \in Seq(Nat), Follows(name, t, v, rest)
  PROVE  ParsedField(FieldHex(name, FieldOf(t, v)) \o rest) =
           [field |-> FieldOf(t, v), size |-> Len(FieldHex(name, FieldOf(t, v)))]
<1> DEFINE L == Len(t) + Len(v)
           hex == FieldHex(name, FieldOf(t, v))
           b == hex \o rest
<1>1. /\ t \in Seq(Byte) /\ v \in Seq(Byte) /\ L \in Nat /\ name \in Nat
  BY GoodSizes, ByteIs
<1>2. PICK s : HexIs(hex, s, name, t, v)
  BY FieldHexIs
<1> HIDE DEF hex
<1>3. /\ s \in Seq(Byte) /\ s[1] = name /\ Len(hex) = Len(s) + L
      /\ L < 256 => Len(s) = 2 /\ s[2] = L
      /\ L > 255 => Len(s) = 3 /\ s[2] + 256 * s[3] = L
  BY <1>2 DEF HexIs
<1>4. b = s \o t \o v \o rest
  BY <1>2 DEF HexIs
<1>5. Byte \subseteq Nat
  BY ByteIs
<1>6. s \in Seq(Nat) /\ t \in Seq(Nat) /\ v \in Seq(Nat)
  <2>1. s \in Seq(Byte) /\ t \in Seq(Byte) /\ v \in Seq(Byte)
    BY <1>1, <1>3
  <2> QED BY <2>1, <1>5, SeqWider
<1>7. /\ b \in Seq(Nat) /\ FieldAt(b, Len(s), t, v, rest)
      /\ \A i \in 1..Len(s) : b[i] = s[i]
  BY <1>4, <1>6, BytesPlaced
<1> HIDE DEF b
<1>8. CASE L < 256
  <2>1. Len(s) = 2 /\ b[1] = name /\ b[2] = Len(t) + Len(v)
    <3>1. Len(s) = 2 /\ s[1] = name /\ s[2] = L
      BY <1>3, <1>8
    <3>2. b[1] = s[1] /\ b[2] = s[2]
      <4>1. 1 \in 1..Len(s) /\ 2 \in 1..Len(s)
        BY <3>1
      <4> QED BY <4>1, <1>7
    <3> QED BY <3>1, <3>2
  <2>2. FieldAt(b, 2, t, v, rest)
    BY <1>7, <2>1
  <2>3. FieldRead(b, t, v, 2)
    BY <1>1, <1>5, <1>7, <1>8, <2>1, <2>2, ShortIsRead
  <2> QED BY <2>1, <2>3, <1>3 DEF FieldRead, b, hex
<1>9. CASE L > 255
  <2>1. Len(s) = 3 /\ b[1] = name /\ b[2] = s[2] /\ b[3] = s[3]
    <3>1. Len(s) = 3 /\ s[1] = name
      BY <1>3, <1>9
    <3>2. b[1] = s[1] /\ b[2] = s[2] /\ b[3] = s[3]
      <4>1. 1 \in 1..Len(s) /\ 2 \in 1..Len(s) /\ 3 \in 1..Len(s)
        BY <3>1
      <4> QED BY <4>1, <1>7
    <3> QED BY <3>1, <3>2
  <2>2. FieldAt(b, 3, t, v, rest)
    BY <1>7, <2>1
  <2>3. LongLength(b) = Len(t) + Len(v)
    BY <2>1, <1>3, <1>9 DEF LongLength
  <2>4. FieldRead(b, t, v, 3)
    BY <1>1, <1>5, <1>7, <1>9, <2>1, <2>2, <2>3, LongIsRead
  <2> QED BY <2>1, <2>4, <1>3 DEF FieldRead, b, hex
<1>10. L < 256 \/ L > 255
  BY <1>1
<1> QED BY <1>8, <1>9, <1>10

\* The end of a sequence.
LEMMA EndIs ==
  ASSUME NEW S, NEW b \in Seq(S), NEW i \in Nat, i <= Len(b)
  PROVE  LET end == SubSeq(b, i + 1, Len(b))
         IN /\ end \in Seq(S) /\ Len(end) = Len(b) - i
            /\ \A j \in 1 .. Len(b) - i : end[j] = b[i + j]
<1>1. Len(b) \in Nat
  BY LenProperties
<1>2. \A j \in i + 1 .. Len(b) : b[j] \in S
  BY <1>1, ElementOfSeq
<1> QED BY <1>1, <1>2

\* What follows the first part of such an end.
LEMMA EndOfEnd ==
  ASSUME NEW S, NEW b \in Seq(S), NEW i \in Nat, i <= Len(b), NEW h \in Seq(S),
         NEW r \in Seq(S), SubSeq(b, i + 1, Len(b)) = h \o r
  PROVE  /\ Len(b) = (i + Len(h)) + Len(r)
         /\ SubSeq(b, (i + Len(h)) + 1, Len(b)) = r
         /\ \A j \in 1..Len(h) : b[i + j] = h[j]
<1> DEFINE end == h \o r
<1>1. /\ end \in Seq(S) /\ Len(end) = Len(b) - i
      /\ \A j \in 1 .. Len(b) - i : end[j] = b[i + j]
  BY EndIs
<1>2. /\ Len(end) = Len(h) + Len(r)
      /\ \A j \in 1..Len(h) : end[j] = h[j]
      /\ \A j \in 1..Len(r) : end[Len(h) + j] = r[j]
  BY JoinIs
<1>3. Len(b) \in Nat /\ Len(h) \in Nat /\ Len(r) \in Nat
  BY LenProperties
<1> HIDE DEF end
<1>4. Len(b) = (i + Len(h)) + Len(r)
  BY <1>1, <1>2, <1>3
<1>5. \A j \in 1..Len(h) : b[i + j] = h[j]
  BY <1>1, <1>2, <1>3, <1>4
<1>6. \A j \in 1..Len(r) : b[(i + Len(h)) + j] = r[j]
  <2> SUFFICES ASSUME NEW j \in 1..Len(r) PROVE b[(i + Len(h)) + j] = r[j]
    OBVIOUS
  <2>1. Len(h) + j \in 1 .. Len(b) - i /\ i + (Len(h) + j) = (i + Len(h)) + j
    BY <1>3, <1>4
  <2>2. end[Len(h) + j] = r[j] /\ end[Len(h) + j] = b[i + (Len(h) + j)]
    BY <1>1, <1>2, <2>1
  <2> QED BY <2>1, <2>2
<1> DEFINE n == i + Len(h)
           m == Len(b)
<1>7. n \in Nat /\ m = n + Len(r) /\ m <= Len(b) /\ \A j \in 1..Len(r) : b[n + j] = r[j]
  BY <1>3, <1>4, <1>6
<1> HIDE DEF n, m
<1>8. SubSeq(b, n + 1, m) = r
  BY <1>7, PartIs
<1> QED BY <1>4, <1>5, <1>8 DEF n, m

\* Reading goes forward.
LEMMA SizeIs ==
  ASSUME NEW b \in Seq(Nat), Len(b) >= 2
  PROVE  ParsedField(b).size \in Nat /\ ParsedField(b).size >= 1
<1>1. Len(b) \in Nat
  BY LenProperties
<1>2. ReadLength(b) \in Nat
  <2>1. 1 \in 1..Len(b) /\ 2 \in 1..Len(b)
    BY <1>1
  <2>2. b[2] \in Nat
    BY <2>1, ElementOfSeq
  <2>3. LongField(b) => LongLength(b) \in Nat
    <3> SUFFICES ASSUME LongField(b) PROVE LongLength(b) \in Nat
      OBVIOUS
    <3>1. Len(b) >= 4
      BY DEF LongField
    <3>2. 3 \in 1..Len(b)
      BY <1>1, <3>1
    <3>3. b[3] \in Nat
      BY <3>2, ElementOfSeq
    <3> QED BY <2>2, <3>3 DEF LongLength
  <2> QED BY <2>2, <2>3 DEF ReadLength
<1>3. HeadLength(b) \in Nat /\ HeadLength(b) >= 1
  BY DEF HeadLength
<1>4. Len(ReadType(b)) \in Nat
  <2>1. HasType(b) => Len(ReadType(b)) = 1
    BY DEF ReadType
  <2>2. ~HasType(b) => Len(ReadType(b)) = 0
    BY DEF ReadType
  <2> QED BY <2>1, <2>2
<1>5. Len(ReadValue(b)) \in Nat
  <2>1. CASE ~ValidLength(b)
    <3>1. ReadValue(b) = <<>>
      BY <2>1 DEF ReadValue
    <3> QED BY <3>1
  <2>2. CASE ValidLength(b)
    <3> DEFINE m == HeadLength(b) + 1 + Len(ReadType(b))
               more == IF TextGoesOn(b) THEN 1 ELSE 0
               n == HeadLength(b) + ReadLength(b) + more
               S == {b[i] : i \in m..n}
    <3>1. more \in Int
      OBVIOUS
    <3> HIDE DEF more
    <3>2. m \in Int /\ n \in Int
      BY <1>2, <1>3, <1>4, <3>1
    <3>3. ReadValue(b) = SubSeq(b, m, n)
      BY <2>2 DEF ReadValue, more
    <3> HIDE DEF m, n
    <3>4. \A i \in m..n : b[i] \in S
      OBVIOUS
    <3> HIDE DEF S
    <3>5. SubSeq(b, m, n) \in Seq(S)
      BY <3>2, <3>4, SubSeqProperties
    <3> QED BY <3>3, <3>5, LenProperties
  <2> QED BY <2>1, <2>2
<1> DEFINE head == IF ReadLength(b) > 0 THEN HeadLength(b) - 1 ELSE 0
<1>6. head \in Nat
  BY <1>2, <1>3
<1>7. ParsedField(b).size = 1 + Len(ReadType(b)) + Len(ReadValue(b)) + head
  BY DEF ParsedField
<1> HIDE DEF head
<1> DEFINE x == Len(ReadType(b))
           y == Len(ReadValue(b))
<1>8. x \in Nat /\ y \in Nat /\ ParsedField(b).size = 1 + x + y + head
  BY <1>4, <1>5, <1>7
<1> HIDE DEF x, y
<1> QED BY <1>6, <1>8

(***************************************************************************)
(* from is the function of ParsedFields() for the positions from n.        *)
(***************************************************************************)
WithField(rest, name, field) ==
  [n \in DOMAIN rest \cup {name} |-> IF n \in DOMAIN rest THEN rest[n] ELSE field]

NextAt(b, i) == Min({i + ParsedField(SubSeq(b, i + 1, Len(b))).size, Len(b)})

OneParse(from, b, i) ==
  IF i >= Len(b) - 1 THEN <<>>
  ELSE WithField(from[NextAt(b, i)], b[i + 1], ParsedField(SubSeq(b, i + 1, Len(b))).field)

IsParse(from, b, n) == from = [i \in n..Len(b) |-> OneParse(from, b, i)]

LEMMA NextIs ==
  ASSUME NEW b \in Seq(Nat), NEW i \in Nat, i < Len(b) - 1
  PROVE  NextAt(b, i) \in i + 1 .. Len(b)
<1> DEFINE end == SubSeq(b, i + 1, Len(b))
           size == ParsedField(end).size
<1>1. Len(b) \in Nat /\ i <= Len(b)
  BY LenProperties
<1>2. end \in Seq(Nat) /\ Len(end) = Len(b) - i
  BY <1>1, EndIs
<1> HIDE DEF end
<1>3. size \in Nat /\ size >= 1
  BY <1>1, <1>2, SizeIs
<1>4. NextAt(b, i) = Min({i + size, Len(b)})
  BY DEF NextAt, end
<1> HIDE DEF size
<1> DEFINE least == Min({i + size, Len(b)})
           T == {i + size, Len(b)}
<1>5. T \in SUBSET Nat /\ T # {} /\ i + size \in T /\ Len(b) \in T
  BY <1>1, <1>3
<1>6. least \in T /\ \A y \in T : least <= y
  <2> HIDE DEF T
  <2>1. Min(T) \in T /\ \A y \in T : Min(T) <= y
    BY <1>5, MinIs
  <2> QED BY <2>1 DEF T
<1>7. least = i + size \/ least = Len(b)
  BY <1>6
<1>8. least <= Len(b)
  BY <1>5, <1>6
<1> HIDE DEF least
<1>9. least \in i + 1 .. Len(b)
  BY <1>1, <1>3, <1>7, <1>8
<1> QED BY <1>4, <1>9 DEF least

LEMMA ParseExists ==
  ASSUME NEW b \in Seq(Nat)
  PROVE  \E from : IsParse(from, b, 0)
<1> DEFINE S == {k \in Nat : k <= Len(b) => \E from : IsParse(from, b, Len(b) - k)}
<1>0. Len(b) \in Nat
  BY LenProperties
<1>1. 0 \in S
  <2> DEFINE z == Len(b)
             from == [i \in z..z |-> <<>>]
             next == [i \in z..z |-> OneParse(from, b, i)]
  <2>1. \A i \in z..z : i >= Len(b) - 1
    BY <1>0
  <2>2. \A i \in z..z : OneParse(from, b, i) = <<>>
    BY <2>1 DEF OneParse
  <2>3. from = next
    BY <2>2
  <2>4. IsParse(from, b, z)
    BY <2>3 DEF IsParse
  <2> HIDE DEF from
  <2>5. Len(b) - 0 = z /\ 0 \in Nat
    BY <1>0
  <2> QED BY <2>4, <2>5
<1>2. ASSUME NEW k \in S PROVE k + 1 \in S
  <2>1. k \in Nat /\ k + 1 \in Nat
    OBVIOUS
  <2> SUFFICES ASSUME k + 1 <= Len(b) PROVE \E from : IsParse(from, b, Len(b) - (k + 1))
    BY <2>1
  <2> DEFINE n == Len(b) - (k + 1)
  <2>2. n \in Nat /\ Len(b) - k = n + 1 /\ n + 1 <= Len(b)
    BY <1>0, <2>1
  <2>3. \E from : IsParse(from, b, Len(b) - k)
    BY <1>0, <2>1
  <2> HIDE DEF S
  <2>4. PICK from : IsParse(from, b, n + 1)
    BY <2>2, <2>3
  <2> HIDE DEF n
  <2> DEFINE Old == n + 1 .. Len(b)
             New == n .. Len(b)
             first == OneParse(from, b, n)
             more == [i \in New |-> IF i = n THEN first ELSE from[i]]
  <2>5. \A i \in Old : from[i] = OneParse(from, b, i)
    BY <2>4 DEF IsParse
  <2>6. /\ \A i \in Old : i \in New /\ i # n
        /\ \A i \in New : i = n \/ i \in Old
    BY <1>0, <2>2
  <2>7. \A i \in Old : more[i] = from[i]
    BY <2>6
  <2>8. more[n] = first
    BY <1>0, <2>2
  <2>9. \A i \in New : i < Len(b) - 1 => NextAt(b, i) \in Old
    <3> SUFFICES ASSUME NEW i \in New, i < Len(b) - 1 PROVE NextAt(b, i) \in Old
      OBVIOUS
    <3>1. i \in Nat /\ n <= i
      BY <1>0, <2>2
    <3>2. NextAt(b, i) \in i + 1 .. Len(b)
      BY <3>1, NextIs
    <3> QED BY <1>0, <2>2, <3>1, <3>2
  <2>10. more = [i \in New |-> more[i]]
    OBVIOUS
  <2> HIDE DEF more
  <2>11. \A i \in New : OneParse(more, b, i) = OneParse(from, b, i)
    <3> SUFFICES ASSUME NEW i \in New PROVE OneParse(more, b, i) = OneParse(from, b, i)
      OBVIOUS
    <3>1. CASE i >= Len(b) - 1
      BY <3>1 DEF OneParse
    <3>2. CASE ~(i >= Len(b) - 1)
      <4>1. i < Len(b) - 1
        BY <1>0, <2>2, <3>2
      <4>2. more[NextAt(b, i)] = from[NextAt(b, i)]
        BY <2>7, <2>9, <4>1
      <4> QED BY <4>2 DEF OneParse
    <3> QED BY <3>1, <3>2
  <2>12. \A i \in New : more[i] = OneParse(more, b, i)
    <3> SUFFICES ASSUME NEW i \in New PROVE more[i] = OneParse(more, b, i)
      OBVIOUS
    <3>1. more[i] = OneParse(from, b, i)
      BY <2>5, <2>6, <2>7, <2>8
    <3> QED BY <2>11, <3>1
  <2>13. more = [i \in New |-> OneParse(more, b, i)]
    BY <2>10, <2>12
  <2>14. IsParse(more, b, n)
    BY <2>13 DEF IsParse
  <2> QED BY <2>14 DEF n
<1>3. S = Nat
  <2> HIDE DEF S
  <2>1. S \subseteq Nat
    BY DEF S
  <2> QED BY <1>1, <1>2, <2>1, NatSet
<1>4. \E from : IsParse(from, b, Len(b) - Len(b))
  BY <1>0, <1>3
<1>5. Len(b) - Len(b) = 0
  BY <1>0
<1> QED BY <1>4, <1>5

\* What is read of the fields from a position.
LEMMA ParseIs ==
  ASSUME NEW b \in Seq(Nat)
  PROVE  \A i \in 0..Len(b) :
           /\ i >= Len(b) - 1 => ParsedFields(b, i) = <<>>
           /\ i < Len(b) - 1 =>
                ParsedFields(b, i) =
                  WithField(ParsedFields(b, NextAt(b, i)), b[i + 1],
                            ParsedField(SubSeq(b, i + 1, Len(b))).field)
<1> DEFINE Right(from) == from = [i \in 0..Len(b) |->
             IF i >= Len(b) - 1 THEN <<>>
             ELSE LET f == ParsedField(SubSeq(b, i + 1, Len(b)))
                      rest == from[Min({i + f.size, Len(b)})]
                  IN [name \in DOMAIN rest \cup {b[i + 1]} |->
                        IF name \in DOMAIN rest THEN rest[name] ELSE f.field]]
           from == CHOOSE from : Right(from)
<1>1. \A i : ParsedFields(b, i) = from[i]
  BY DEF ParsedFields
<1>2. \A g : IsParse(g, b, 0) <=> Right(g)
  BY DEF IsParse, OneParse, WithField, NextAt
<1>3. \E g : Right(g)
  <2> HIDE DEF Right
  <2> QED BY <1>2, ParseExists
<1>4. Right(from)
  <2> HIDE DEF Right
  <2> QED BY <1>3
<1>5. IsParse(from, b, 0)
  <2> HIDE DEF from, Right
  <2> QED BY <1>2, <1>4
<1> HIDE DEF from
<1>6. \A i \in 0..Len(b) : from[i] = OneParse(from, b, i)
  BY <1>5 DEF IsParse
<1>7. Len(b) \in Nat
  BY LenProperties
<1> SUFFICES ASSUME NEW i \in 0..Len(b)
             PROVE  /\ i >= Len(b) - 1 => ParsedFields(b, i) = <<>>
                    /\ i < Len(b) - 1 =>
                         ParsedFields(b, i) =
                           WithField(ParsedFields(b, NextAt(b, i)), b[i + 1],
                                     ParsedField(SubSeq(b, i + 1, Len(b))).field)
  OBVIOUS
<1>8. i < Len(b) - 1 => ~(i >= Len(b) - 1)
  BY <1>7
<1>9. ParsedFields(b, i) = OneParse(from, b, i)
  BY <1>1, <1>6
<1>10. ParsedFields(b, NextAt(b, i)) = from[NextAt(b, i)]
  BY <1>1
<1> QED BY <1>8, <1>9, <1>10 DEF OneParse

\* Induction from a number down.
LEMMA Downward ==
  ASSUME NEW N \in Nat, NEW T, N \in T, \A n \in Nat : n < N /\ n + 1 \in T => n \in T
  PROVE  \A n \in Nat : n <= N => n \in T
<1> DEFINE S == {k \in Nat : k <= N => N - k \in T}
<1>1. 0 \in S
  OBVIOUS
<1>2. ASSUME NEW k \in S PROVE k + 1 \in S
  <2>1. k \in Nat /\ k + 1 \in Nat
    OBVIOUS
  <2> SUFFICES ASSUME k + 1 <= N PROVE N - (k + 1) \in T
    BY <2>1
  <2>2. N - k \in T
    BY <2>1
  <2>3. N - (k + 1) \in Nat /\ N - (k + 1) < N /\ (N - (k + 1)) + 1 = N - k
    BY <2>1
  <2> QED BY <2>2, <2>3
<1>3. S = Nat
  <2> HIDE DEF S
  <2>1. S \subseteq Nat
    BY DEF S
  <2> QED BY <1>1, <1>2, <2>1, NatSet
<1> SUFFICES ASSUME NEW n \in Nat, n <= N PROVE n \in T
  OBVIOUS
<1>4. N - n \in S /\ N - n <= N /\ N - (N - n) = n
  <2>1. N - n \in Nat /\ N - n <= N /\ N - (N - n) = n
    OBVIOUS
  <2> HIDE DEF S
  <2> QED BY <1>3, <2>1
<1> QED BY <1>4

\* The checksum is a number.
LEMMA XorIs ==
  ASSUME NEW b \in Seq(Nat)
  PROVE  XorOf(b) \in Nat
<1> DEFINE Ones(bit) == Cardinality({i \in DOMAIN b : (b[i] \div bit) % 2 = 1})
           BitOf(bit) == bit * (Ones(bit) % 2)
<1>1. IsFiniteSet(DOMAIN b)
  <2>1. Len(b) \in Nat /\ DOMAIN b = 1..Len(b)
    BY LenProperties
  <2> QED BY <2>1, FS_Interval
<1>2. ASSUME NEW bit \in Nat PROVE BitOf(bit) \in Nat
  <2> DEFINE P == {i \in DOMAIN b : (b[i] \div bit) % 2 = 1}
  <2>1. P \subseteq DOMAIN b
    OBVIOUS
  <2>2. Ones(bit) = Cardinality(P)
    OBVIOUS
  <2> HIDE DEF P
  <2>3. Cardinality(P) \in Nat
    BY <1>1, <2>1, FS_Subset, FS_CardinalityType
  <2> DEFINE n == Ones(bit)
  <2>4. n \in Nat
    BY <2>2, <2>3
  <2> HIDE DEF n
  <2>5. n % 2 \in Nat
    BY <2>4
  <2> DEFINE m == n % 2
  <2>6. m \in Nat
    BY <2>5
  <2> HIDE DEF m
  <2>7. bit * m \in Nat
    BY <2>6
  <2> QED BY <2>7 DEF m, n
<1>3. XorOf(b) = BitOf(1) + BitOf(2) + BitOf(4) + BitOf(8) + BitOf(16) + BitOf(32) + BitOf(64) + BitOf(128)
  BY DEF XorOf
<1> HIDE DEF BitOf
<1>4. BitOf(1) \in Nat /\ BitOf(2) \in Nat /\ BitOf(4) \in Nat /\ BitOf(8) \in Nat
  BY <1>2
<1>5. BitOf(16) \in Nat /\ BitOf(32) \in Nat /\ BitOf(64) \in Nat /\ BitOf(128) \in Nat
  BY <1>2
<1> DEFINE a1 == BitOf(1)
           a2 == BitOf(2)
           a3 == BitOf(4)
           a4 == BitOf(8)
           a5 == BitOf(16)
           a6 == BitOf(32)
           a7 == BitOf(64)
           a8 == BitOf(128)
<1>6. /\ a1 \in Nat /\ a2 \in Nat /\ a3 \in Nat /\ a4 \in Nat /\ a5 \in Nat
      /\ a6 \in Nat /\ a7 \in Nat /\ a8 \in Nat
      /\ XorOf(b) = a1 + a2 + a3 + a4 + a5 + a6 + a7 + a8
  BY <1>3, <1>4, <1>5, Zenon
<1> HIDE DEF a1, a2, a3, a4, a5, a6, a7, a8
<1> QED BY <1>6

GoodFields(f) ==
  /\ DOMAIN f \subseteq Byte /\ f = [n \in DOMAIN f |-> f[n]]
  /\ \A n \in DOMAIN f : GoodField(f[n])

LEMMA AboveIs ==
  ASSUME NEW f, DOMAIN f \subseteq Byte, NEW n \in Nat
  PROVE  /\ n > 255 => Above(f, n) = {}
         /\ n \notin DOMAIN f => Above(f, n) = Above(f, n + 1)
         /\ n \in DOMAIN f =>
              /\ Above(f, n) # {} /\ Min(Above(f, n)) = n
              /\ Above(f, n) \ {n} = Above(f, n + 1)
              /\ Above(f, n) = Above(f, n + 1) \cup {n}
              /\ {x \in DOMAIN f : x > n} = Above(f, n + 1)
<1>1. \A x \in DOMAIN f : x \in Nat /\ x <= 255
  BY ByteIs
<1>2. n > 255 => Above(f, n) = {}
  BY <1>1 DEF Above
<1>3. n \notin DOMAIN f => Above(f, n) = Above(f, n + 1)
  BY <1>1 DEF Above
<1>4. ASSUME n \in DOMAIN f
      PROVE  /\ Above(f, n) # {} /\ Min(Above(f, n)) = n
             /\ Above(f, n) \ {n} = Above(f, n + 1)
             /\ Above(f, n) = Above(f, n + 1) \cup {n}
             /\ {x \in DOMAIN f : x > n} = Above(f, n + 1)
  <2>1. n \in Above(f, n) /\ Above(f, n) \in SUBSET Nat
    BY <1>1, <1>4 DEF Above
  <2>2. Above(f, n) \ {n} = Above(f, n + 1) /\ Above(f, n) = Above(f, n + 1) \cup {n}
    BY <1>1, <1>4 DEF Above
  <2>3. {x \in DOMAIN f : x > n} = Above(f, n + 1)
    BY <1>1 DEF Above
  <2> DEFINE least == Min(Above(f, n))
  <2>4. least \in Above(f, n) /\ least <= n
    BY <2>1, MinIs
  <2>5. least \in Nat /\ n <= least /\ least <= n
    <3>1. least \in Nat
      BY <2>1, <2>4
    <3>2. n <= least
      BY <2>4 DEF Above
    <3> QED BY <2>4, <3>1, <3>2
  <2> HIDE DEF least
  <2>6. least = n
    BY <2>5
  <2> QED BY <2>1, <2>2, <2>3, <2>6 DEF least
<1> QED BY <1>2, <1>3, <1>4

\* The bytes of the fields from a name.
BodyGood(f, n) ==
  LET body == BodyOf(f, Above(f, n))
  IN /\ body \in Seq(Byte)
     /\ Above(f, n) = {} => body = <<>>
     /\ Above(f, n) # {} => Len(body) >= 1 /\ body[1] \in Above(f, n)

LEMMA BodyStep ==
  ASSUME NEW f, GoodFields(f), NEW n \in DOMAIN f
  PROVE  \E t, v, s :
           /\ f[n] = FieldOf(t, v) /\ GoodBytes(t, v)
           /\ HexIs(FieldHex(n, FieldOf(t, v)), s, n, t, v)
           /\ BodyOf(f, Above(f, n)) = FieldHex(n, FieldOf(t, v)) \o BodyOf(f, Above(f, n + 1))
<1>1. DOMAIN f \subseteq Byte /\ n \in Byte /\ n \in Nat /\ GoodField(f[n])
  BY ByteIs DEF GoodFields
<1>2. PICK t, v : f[n] = FieldOf(t, v) /\ GoodBytes(t, v)
  BY <1>1, GoodIs
<1>3. PICK s : HexIs(FieldHex(n, FieldOf(t, v)), s, n, t, v)
  BY <1>1, <1>2, FieldHexIs
<1>4. /\ Above(f, n) # {} /\ Min(Above(f, n)) = n
      /\ Above(f, n) \ {n} = Above(f, n + 1)
  BY <1>1, AboveIs
<1>5. Above(f, n) \in SUBSET DOMAIN f
  BY DEF Above
<1> DEFINE names == Above(f, n)
<1>6. names \in SUBSET DOMAIN f /\ names # {}
  BY <1>4, <1>5
<1> HIDE DEF names
<1>7. BodyOf(f, names) = FieldHex(Min(names), f[Min(names)]) \o BodyOf(f, names \ {Min(names)})
  BY <1>1, <1>6, BodyIs
<1>8. BodyOf(f, Above(f, n)) = FieldHex(n, FieldOf(t, v)) \o BodyOf(f, Above(f, n + 1))
  BY <1>2, <1>4, <1>7 DEF names
<1> QED BY <1>2, <1>3, <1>8

LEMMA BodyIsGood ==
  ASSUME NEW f, GoodFields(f)
  PROVE  \A n \in Nat : n <= 256 => BodyGood(f, n)
<1> DEFINE T == {n \in Nat : BodyGood(f, n)}
<1>0. DOMAIN f \subseteq Byte
  BY DEF GoodFields
<1>1. 256 \in T
  <2>1. Above(f, 256) = {}
    BY <1>0, AboveIs
  <2>2. BodyOf(f, {}) = <<>>
    BY <1>0, BodyIs
  <2>3. BodyGood(f, 256)
    <3>1. BodyOf(f, Above(f, 256)) = <<>> /\ <<>> \in Seq(Byte)
      <4>1. BodyOf(f, Above(f, 256)) = <<>>
        BY <2>1, <2>2, Zenon
      <4> QED BY <4>1
    <3> QED BY <2>1, <3>1 DEF BodyGood
  <2> QED BY <2>3
<1>2. ASSUME NEW n \in Nat, n < 256, n + 1 \in T PROVE n \in T
  <2>1. BodyGood(f, n + 1)
    BY <1>2
  <2>2. CASE n \notin DOMAIN f
    <3>1. Above(f, n) = Above(f, n + 1)
      BY <1>0, <2>2, AboveIs
    <3> QED BY <2>1, <3>1 DEF BodyGood
  <2>3. CASE n \in DOMAIN f
    <3>1. PICK t, v, s :
           /\ f[n] = FieldOf(t, v) /\ GoodBytes(t, v)
           /\ HexIs(FieldHex(n, FieldOf(t, v)), s, n, t, v)
           /\ BodyOf(f, Above(f, n)) = FieldHex(n, FieldOf(t, v)) \o BodyOf(f, Above(f, n + 1))
      BY <2>3, BodyStep
    <3> DEFINE hex == FieldHex(n, FieldOf(t, v))
               rest == BodyOf(f, Above(f, n + 1))
               body == BodyOf(f, Above(f, n))
    <3>2. hex \in Seq(Byte) /\ hex[1] = n /\ Len(hex) \in Nat /\ Len(hex) >= 1
      BY <3>1 DEF HexIs
    <3>3. rest \in Seq(Byte)
      BY <2>1 DEF BodyGood
    <3>4. body = hex \o rest
      BY <3>1
    <3>5. n \in Above(f, n) /\ Above(f, n) # {}
      BY <2>3 DEF Above
    <3> HIDE DEF hex, rest, body
    <3>6. /\ hex \o rest \in Seq(Byte) /\ Len(hex \o rest) = Len(hex) + Len(rest)
          /\ \A i \in 1..Len(hex) : (hex \o rest)[i] = hex[i]
      BY <3>2, <3>3, JoinIs
    <3>7. body \in Seq(Byte) /\ Len(body) >= 1 /\ body[1] = n
      <4>1. Len(rest) \in Nat
        BY <3>3, LenProperties
      <4> QED BY <3>2, <3>4, <3>6, <4>1
    <3> QED BY <3>5, <3>7 DEF BodyGood, body
  <2> QED BY <2>2, <2>3
<1> HIDE DEF T
<1>3. \A n \in Nat : n <= 256 => n \in T
  <2>1. 256 \in Nat /\ \A n \in Nat : n < 256 /\ n + 1 \in T => n \in T
    BY <1>2
  <2> QED BY ONLY <1>1, <2>1, Downward
<1> QED BY <1>3 DEF T

\* Messages that are read as they were built: after a short field there are
\* not too many bytes, and the last field is not a text.
Readable(f) ==
  /\ GoodFields(f)
  /\ \A n \in DOMAIN f :
       /\ n >= 160
       /\ FieldLength(f[n]) > 255 \/ Len(BodyOf(f, Above(f, n + 1))) < 256
       /\ Above(f, n + 1) = {} => f[n].type # <<Str>>

ReadFrom(b, f, sum, n) ==
  \A i \in 0..Len(b) :
    SubSeq(b, i + 1, Len(b)) = BodyOf(f, Above(f, n)) \o <<sum>>
      => ParsedFields(b, i) = [x \in Above(f, n) |-> f[x]]

LEMMA LastRead ==
  ASSUME NEW f, Readable(f), NEW b \in Seq(Nat), NEW sum \in Nat
  PROVE  ReadFrom(b, f, sum, 256)
<1>1. Above(f, 256) = {}
  BY AboveIs DEF Readable, GoodFields
<1>2. BodyOf(f, {}) = <<>>
  BY BodyIs DEF Readable, GoodFields
<1>3. BodyOf(f, Above(f, 256)) = <<>>
  BY <1>1, <1>2, Zenon
<1> SUFFICES ASSUME NEW i \in 0..Len(b),
                    SubSeq(b, i + 1, Len(b)) = BodyOf(f, Above(f, 256)) \o <<sum>>
             PROVE  ParsedFields(b, i) = [x \in Above(f, 256) |-> f[x]]
  BY DEF ReadFrom
<1>4. <<sum>> \in Seq(Nat) /\ <<>> \in Seq(Nat) /\ Len(<<sum>>) = 1 /\ Len(<<>>) = 0
  OBVIOUS
<1>5. SubSeq(b, i + 1, Len(b)) = <<>> \o <<sum>>
  BY <1>3
<1>6. i \in Nat /\ i <= Len(b) /\ Len(b) \in Nat
  BY LenProperties
<1>7. Len(b) = (i + Len(<<>>)) + Len(<<sum>>)
  <2> DEFINE h == <<>>
             r == <<sum>>
  <2>1. h \in Seq(Nat) /\ r \in Seq(Nat) /\ SubSeq(b, i + 1, Len(b)) = h \o r
    BY <1>4, <1>5
  <2> HIDE DEF h, r
  <2>2. Len(b) = (i + Len(h)) + Len(r)
    BY <1>6, <2>1, EndOfEnd
  <2> QED BY <2>2 DEF h, r
<1>8. i >= Len(b) - 1
  BY <1>4, <1>6, <1>7
<1>9. ParsedFields(b, i) = <<>>
  BY <1>8, ParseIs
<1>10. [x \in {} |-> f[x]] = <<>>
  OBVIOUS
<1> QED BY <1>1, <1>9, <1>10

LEMMA FollowsIs ==
  ASSUME NEW f, Readable(f), NEW n \in DOMAIN f, NEW t, NEW v, f[n] = FieldOf(t, v),
         NEW sum \in Nat
  PROVE  LET rest == BodyOf(f, Above(f, n + 1)) \o <<sum>>
         IN rest \in Seq(Nat) /\ Follows(n, t, v, rest)
<1> DEFINE body == BodyOf(f, Above(f, n + 1))
           rest == body \o <<sum>>
<1>1. n \in Nat /\ n + 1 <= 256 /\ n + 1 \in Nat
  <2>1. n \in Byte
    BY DEF Readable, GoodFields
  <2> QED BY <2>1, ByteIs
<1>2. BodyGood(f, n + 1)
  BY <1>1, BodyIsGood DEF Readable
<1>3. /\ body \in Seq(Byte)
      /\ Above(f, n + 1) = {} => body = <<>>
      /\ Above(f, n + 1) # {} => Len(body) >= 1 /\ body[1] \in Above(f, n + 1)
  BY <1>2 DEF BodyGood
<1>4. body \in Seq(Nat) /\ Len(body) \in Nat
  <2>1. body \in Seq(Byte)
    BY <1>3
  <2>2. Byte \subseteq Nat
    BY ByteIs
  <2> HIDE DEF body
  <2> QED BY <2>1, <2>2, SeqWider, LenProperties
<1>5. <<sum>> \in Seq(Nat) /\ Len(<<sum>>) = 1
  OBVIOUS
<1>6. f[n].type = t /\ f[n].value = v
  BY DEF FieldOf
<1>7. /\ FieldLength(f[n]) > 255 \/ Len(body) < 256
      /\ Above(f, n + 1) = {} => f[n].type # <<Str>>
  BY DEF Readable
<1>8. FieldLength(f[n]) = Len(t) + Len(v)
  BY <1>6 DEF FieldLength
<1>9. \A x \in Above(f, n + 1) : x \in Byte /\ x > n
  <2> SUFFICES ASSUME NEW x \in Above(f, n + 1) PROVE x \in Byte /\ x > n
    OBVIOUS
  <2>1. x \in DOMAIN f /\ x >= n + 1
    BY DEF Above
  <2>2. x \in Byte
    BY <2>1 DEF Readable, GoodFields
  <2>3. x \in Nat
    BY <2>2, ByteIs
  <2> QED BY <1>1, <2>1, <2>2, <2>3
<1> HIDE DEF body
<1>10. /\ rest \in Seq(Nat) /\ Len(rest) = Len(body) + Len(<<sum>>)
       /\ \A i \in 1..Len(body) : rest[i] = body[i]
  <2>1. body \in Seq(Nat) /\ <<sum>> \in Seq(Nat)
    BY <1>4, <1>5
  <2> QED BY ONLY <2>1, JoinIs
<1> HIDE DEF rest
<1>11. Len(rest) = Len(body) + 1
  BY <1>5, <1>10
<1>12. Len(rest) >= 1
  BY <1>4, <1>11
<1>13. Len(rest) = 1 => t # <<Str>>
  <2> SUFFICES ASSUME Len(rest) = 1 PROVE t # <<Str>>
    OBVIOUS
  <2>1. ~(Len(body) >= 1)
    BY <1>4, <1>11
  <2>2. Above(f, n + 1) = {}
    BY <1>3, <2>1
  <2> QED BY <1>6, <1>7, <2>2
<1>14. Len(rest) > 1 => rest[1] \in Byte /\ rest[1] > n
  <2> SUFFICES ASSUME Len(rest) > 1 PROVE rest[1] \in Byte /\ rest[1] > n
    OBVIOUS
  <2>1. Len(body) >= 1
    BY <1>4, <1>11
  <2>2. Above(f, n + 1) # {}
    <3> SUFFICES ASSUME Above(f, n + 1) = {} PROVE FALSE
      OBVIOUS
    <3>1. body = <<>>
      BY <1>3
    <3>2. Len(body) = 0
      BY <3>1
    <3> QED BY <2>1, <3>2
  <2>3. body[1] \in Above(f, n + 1)
    BY <1>3, <2>2
  <2>4. rest[1] = body[1]
    BY <1>4, <1>10, <2>1
  <2> QED BY <1>9, <2>3, <2>4
<1>15. Len(t) + Len(v) > 255 \/ Len(rest) <= 256
  BY <1>4, <1>7, <1>8, <1>11
<1>16. Follows(n, t, v, rest)
  BY <1>12, <1>13, <1>14, <1>15 DEF Follows
<1> QED BY <1>10, <1>16 DEF rest, body

\* One field more is read, from the bytes of the field and what is read of
\* those after it.
LEMMA OneMoreRead ==
  ASSUME NEW f, Readable(f), NEW b \in Seq(Nat), NEW sum \in Nat, NEW n \in DOMAIN f,
         ReadFrom(b, f, sum, n + 1)
  PROVE  ReadFrom(b, f, sum, n)
<1> SUFFICES ASSUME NEW i \in 0..Len(b),
                    SubSeq(b, i + 1, Len(b)) = BodyOf(f, Above(f, n)) \o <<sum>>
             PROVE  ParsedFields(b, i) = [x \in Above(f, n) |-> f[x]]
  BY DEF ReadFrom
<1>1. n \in Byte /\ n \in Nat /\ 160 <= n /\ n + 1 \in Nat /\ n + 1 <= 256
  <2>1. n \in Byte /\ n >= 160
    BY DEF Readable, GoodFields
  <2> QED BY <2>1, ByteIs
<1>2. PICK t, v, s :
        /\ f[n] = FieldOf(t, v) /\ GoodBytes(t, v)
        /\ HexIs(FieldHex(n, FieldOf(t, v)), s, n, t, v)
        /\ BodyOf(f, Above(f, n)) = FieldHex(n, FieldOf(t, v)) \o BodyOf(f, Above(f, n + 1))
  BY BodyStep DEF Readable
<1> DEFINE hex == FieldHex(n, FieldOf(t, v))
           body == BodyOf(f, Above(f, n + 1))
           rest == body \o <<sum>>
           end == SubSeq(b, i + 1, Len(b))
<1>3. rest \in Seq(Nat) /\ Follows(n, t, v, rest)
  BY <1>2, FollowsIs
<1>4. ParsedField(hex \o rest) = [field |-> FieldOf(t, v), size |-> Len(hex)]
  <2> HIDE DEF rest
  <2> QED BY <1>1, <1>2, <1>3, FieldIsRead
<1>5. hex \in Seq(Byte) /\ hex[1] = n /\ Len(hex) \in Nat /\ Len(hex) >= 1
  BY <1>2 DEF HexIs
<1>6. hex \in Seq(Nat)
  <2>1. Byte \subseteq Nat
    BY ByteIs
  <2> HIDE DEF hex
  <2> QED BY <1>5, <2>1, SeqWider
<1>7. body \in Seq(Nat)
  <2>1. BodyGood(f, n + 1)
    BY <1>1, BodyIsGood DEF Readable
  <2>2. body \in Seq(Byte)
    BY <2>1 DEF BodyGood
  <2>3. Byte \subseteq Nat
    BY ByteIs
  <2> HIDE DEF body
  <2> QED BY <2>2, <2>3, SeqWider
<1>8. end = (hex \o body) \o <<sum>>
  BY <1>2
<1>9. end = hex \o rest
  <2> DEFINE last == <<sum>>
  <2>1. hex \in Seq(Nat) /\ body \in Seq(Nat) /\ last \in Seq(Nat)
    BY <1>6, <1>7
  <2> HIDE DEF hex, body, last
  <2>2. (hex \o body) \o last = hex \o (body \o last)
    <3>1. \A x, y, z \in Seq(Nat) : (x \o y) \o z = x \o (y \o z)
      BY ONLY ConcatAssociative, SMTT(30)
    <3> QED BY ONLY <2>1, <3>1
  <2> HIDE DEF end
  <2> QED BY <1>8, <2>2 DEF last
<1>10. i \in Nat /\ i <= Len(b) /\ Len(b) \in Nat
  BY LenProperties
<1> HIDE DEF hex, rest
<1>11. /\ Len(b) = (i + Len(hex)) + Len(rest)
       /\ SubSeq(b, (i + Len(hex)) + 1, Len(b)) = rest
       /\ \A j \in 1..Len(hex) : b[i + j] = hex[j]
  <2>1. SubSeq(b, i + 1, Len(b)) = hex \o rest
    BY <1>9
  <2> HIDE DEF end
  <2> QED BY <1>3, <1>6, <1>10, <2>1, EndOfEnd
<1>12. Len(rest) \in Nat /\ Len(rest) >= 1
  <2>1. Len(rest) \in Nat
    BY <1>3, LenProperties
  <2> QED BY <1>3, <2>1 DEF Follows
<1> DEFINE next == i + Len(hex)
<1>13. /\ i < Len(b) - 1 /\ b[i + 1] = n
       /\ next \in 0..Len(b) /\ next <= Len(b) /\ Len(b) = next + Len(rest)
  <2> DEFINE h == Len(hex)
             r == Len(rest)
             z == Len(b)
  <2>1. h \in Nat /\ h >= 1 /\ r \in Nat /\ r >= 1 /\ i \in Nat /\ z \in Nat /\ z = (i + h) + r
    BY <1>5, <1>10, <1>11, <1>12
  <2>2. b[i + 1] = n
    <3>1. 1 \in 1..Len(hex)
      BY <1>5
    <3> QED BY <1>5, <1>11, <3>1
  <2> HIDE DEF h, r, z
  <2>3. i < z - 1 /\ i + h \in 0..z /\ i + h <= z
    BY <2>1
  <2> QED BY <2>1, <2>2, <2>3 DEF h, r, z
<1>19. ParsedField(end).size = Len(hex) /\ ParsedField(end).field = FieldOf(t, v)
  <2> HIDE DEF end
  <2>1. ParsedField(end) = [field |-> FieldOf(t, v), size |-> Len(hex)]
    BY <1>4, <1>9, Zenon
  <2> QED BY <2>1
<1>14. NextAt(b, i) = next
  <2>1. NextAt(b, i) = Min({next, Len(b)})
    BY <1>19 DEF NextAt
  <2> HIDE DEF next
  <2> DEFINE T == {next, Len(b)}
             least == Min(T)
  <2>2. T \in SUBSET Nat /\ T # {} /\ next \in T
    BY <1>10, <1>13
  <2>3. \A y \in T : next <= y
    BY <1>10, <1>13
  <2> HIDE DEF T
  <2>4. least \in T /\ \A y \in T : least <= y
    BY <2>2, MinIs
  <2>5. least <= next /\ next <= least /\ least \in Nat /\ next \in Nat
    BY <2>2, <2>3, <2>4
  <2> HIDE DEF least
  <2>6. least = next
    BY <2>5
  <2> QED BY <2>1, <2>6 DEF least, T
<1>15. ParsedFields(b, next) = [x \in Above(f, n + 1) |-> f[x]]
  <2>1. SubSeq(b, next + 1, Len(b)) = BodyOf(f, Above(f, n + 1)) \o <<sum>>
    BY <1>11 DEF rest
  <2> HIDE DEF next
  <2> QED BY <1>13, <2>1 DEF ReadFrom
<1>16. ParsedFields(b, i) = WithField([x \in Above(f, n + 1) |-> f[x]], n, FieldOf(t, v))
  <2>1. ParsedField(end).field = FieldOf(t, v)
    BY <1>19
  <2>2. ParsedFields(b, i) =
          WithField(ParsedFields(b, NextAt(b, i)), b[i + 1], ParsedField(end).field)
    BY <1>13, ParseIs
  <2> HIDE DEF end, next
  <2> QED BY <1>13, <1>14, <1>15, <2>1, <2>2
<1>17. Above(f, n) = Above(f, n + 1) \cup {n} /\ n \notin Above(f, n + 1)
  <2>1. Above(f, n) = Above(f, n + 1) \cup {n} /\ Above(f, n) \ {n} = Above(f, n + 1)
    BY <1>1, AboveIs DEF Readable, GoodFields
  <2> QED BY <2>1
<1> HIDE DEF end, next
<1>18. WithField([x \in Above(f, n + 1) |-> f[x]], n, FieldOf(t, v)) = [x \in Above(f, n) |-> f[x]]
  BY <1>2, <1>17 DEF WithField
<1> QED BY <1>16, <1>18

LEMMA AllRead ==
  ASSUME NEW f, Readable(f), NEW b \in Seq(Nat), NEW sum \in Nat
  PROVE  \A n \in Nat : n <= 256 => ReadFrom(b, f, sum, n)
<1> DEFINE T == {n \in Nat : ReadFrom(b, f, sum, n)}
<1>1. 256 \in T
  BY LastRead
<1>2. ASSUME NEW n \in Nat, n < 256, n + 1 \in T PROVE n \in T
  <2>1. ReadFrom(b, f, sum, n + 1)
    BY <1>2
  <2>2. CASE n \in DOMAIN f
    BY <2>1, <2>2, OneMoreRead
  <2>3. CASE n \notin DOMAIN f
    <3>1. Above(f, n) = Above(f, n + 1)
      BY <2>3, AboveIs DEF Readable, GoodFields
    <3> QED BY <2>1, <3>1 DEF ReadFrom
  <2> QED BY <2>2, <2>3
<1> HIDE DEF T
<1>3. \A n \in Nat : n <= 256 => n \in T
  <2>1. 256 \in Nat /\ \A n \in Nat : n < 256 /\ n + 1 \in T => n \in T
    BY <1>2
  <2> QED BY ONLY <1>1, <2>1, Downward
<1> QED BY <1>3 DEF T

NoIncrement(x) == x \in 160..169

\* The header and the increment, and where the fields begin.
LEMMA MessageIs ==
  ASSUME NEW inc, inc = <<>> \/ \E x \in Byte : ~NoIncrement(x) /\ inc = <<x>>,
         NEW f, GoodFields(f), NEW n \in DOMAIN f, NoIncrement(n), Above(f, n) = DOMAIN f
  PROVE  \E sum \in Nat :
           LET b == Hex(inc, f)
               start == 9 + Len(inc)
           IN /\ b \in Seq(Nat) /\ start \in 0..Len(b)
              /\ SubSeq(b, start + 1, Len(b)) = Body(f) \o <<sum>>
              /\ inc = <<>> => NoIncrement(b[10])
              /\ inc # <<>> => ~NoIncrement(b[10]) /\ inc = <<b[10]>>
<1> DEFINE body == Body(f)
           length == 9 + Len(inc) + Len(body) + 1
           head == <<255, 9, length % 256, length \div 256, 3, 0, 15, 4, 5>>
           hi == head \o inc
           all == hi \o body
           sum == XorOf(all)
           last == <<sum>>
           rest == body \o last
           b == Hex(inc, f)
<1>1. /\ inc \in Seq(Nat) /\ Len(inc) \in Nat
      /\ inc = <<>> => Len(inc) = 0
      /\ inc # <<>> => Len(inc) = 1 /\ inc = <<inc[1]>> /\ ~NoIncrement(inc[1])
  <2>1. CASE inc = <<>>
    BY <2>1
  <2>2. CASE \E x \in Byte : ~NoIncrement(x) /\ inc = <<x>>
    <3>1. PICK x \in Byte : ~NoIncrement(x) /\ inc = <<x>>
      BY <2>2
    <3>2. x \in Nat
      BY ByteIs
    <3> QED BY <3>1, <3>2
  <2> QED BY <2>1, <2>2
<1>2. /\ body \in Seq(Nat) /\ Len(body) \in Nat /\ Len(body) >= 1 /\ body[1] = n
  <2>1. PICK t, v, s :
        /\ f[n] = FieldOf(t, v) /\ GoodBytes(t, v)
        /\ HexIs(FieldHex(n, FieldOf(t, v)), s, n, t, v)
        /\ BodyOf(f, Above(f, n)) = FieldHex(n, FieldOf(t, v)) \o BodyOf(f, Above(f, n + 1))
    BY BodyStep
  <2> DEFINE hex == FieldHex(n, FieldOf(t, v))
             more == BodyOf(f, Above(f, n + 1))
  <2>2. n \in Nat /\ n + 1 \in Nat /\ n + 1 <= 256 /\ Byte \subseteq Nat
    <3>1. n \in Byte
      BY DEF GoodFields
    <3> QED BY <3>1, ByteIs
  <2>3. hex \in Seq(Byte) /\ Len(hex) \in Nat /\ Len(hex) >= 1 /\ hex[1] = n
    BY <2>1 DEF HexIs
  <2>4. BodyGood(f, n + 1)
    BY <2>2, BodyIsGood
  <2>5. more \in Seq(Byte) /\ Len(more) \in Nat
    <3>1. more \in Seq(Byte)
      BY <2>4 DEF BodyGood
    <3> HIDE DEF more
    <3> QED BY <3>1, LenProperties
  <2>6. body = hex \o more
    BY <2>1 DEF Body
  <2> HIDE DEF hex, more, body
  <2>7. /\ hex \o more \in Seq(Byte) /\ Len(hex \o more) = Len(hex) + Len(more)
        /\ \A i \in 1..Len(hex) : (hex \o more)[i] = hex[i]
    BY <2>3, <2>5, JoinIs
  <2>8. body \in Seq(Byte) /\ Len(body) \in Nat /\ Len(body) >= 1 /\ body[1] = n
    BY <2>3, <2>5, <2>6, <2>7
  <2> QED BY <2>2, <2>8, SeqWider
<1>3. head \in Seq(Nat) /\ Len(head) = 9
  <2>1. length \in Nat
    BY <1>1, <1>2
  <2> HIDE DEF length
  <2> DEFINE x == length % 256
             y == length \div 256
  <2>2. x \in Nat /\ y \in Nat
    BY <2>1
  <2> HIDE DEF x, y
  <2>3. <<255, 9, x, y, 3, 0, 15, 4, 5>> \in Seq(Nat)
        /\ Len(<<255, 9, x, y, 3, 0, 15, 4, 5>>) = 9
    BY <2>2
  <2> QED BY <2>3 DEF x, y
<1> HIDE DEF head, length
<1>4. /\ hi \in Seq(Nat) /\ Len(hi) = 9 + Len(inc)
      /\ \A i \in 1..Len(inc) : hi[9 + i] = inc[i]
  <2>1. inc \in Seq(Nat) /\ head \in Seq(Nat)
    BY <1>1, <1>3
  <2>2. /\ hi \in Seq(Nat) /\ Len(hi) = Len(head) + Len(inc)
        /\ \A i \in 1..Len(inc) : hi[Len(head) + i] = inc[i]
    BY ONLY <2>1, JoinIs
  <2> HIDE DEF hi
  <2> QED BY <1>3, <2>2
<1>5. b = Append(all, sum)
  BY DEF Hex, head, length
<1> HIDE DEF hi, body
<1>6. all \in Seq(Nat)
  BY <1>2, <1>4, JoinIs
<1>7. sum \in Nat
  <2> HIDE DEF all
  <2> QED BY <1>6, XorIs
<1>8. b = hi \o rest
  <2> HIDE DEF sum
  <2>1. hi \in Seq(Nat) /\ body \in Seq(Nat) /\ last \in Seq(Nat)
    BY <1>2, <1>4, <1>7
  <2>2. Append(all, sum) = all \o last
    <3> HIDE DEF all
    <3> QED BY <1>6, <1>7
  <2> HIDE DEF last
  <2>3. (hi \o body) \o last = hi \o (body \o last)
    <3>1. \A x, y, z \in Seq(Nat) : (x \o y) \o z = x \o (y \o z)
      BY ONLY ConcatAssociative, SMTT(30)
    <3> QED BY ONLY <2>1, <3>1
  <2> HIDE DEF b
  <2> QED BY <1>5, <2>2, <2>3
<1> HIDE DEF b, all, sum
<1>9. /\ rest \in Seq(Nat) /\ Len(rest) \in Nat /\ Len(rest) >= 1 /\ rest[1] = n
  <2>1. body \in Seq(Nat) /\ last \in Seq(Nat) /\ Len(last) = 1
    BY <1>2, <1>7
  <2> HIDE DEF last
  <2>2. /\ rest \in Seq(Nat) /\ Len(rest) = Len(body) + Len(last)
        /\ \A i \in 1..Len(body) : rest[i] = body[i]
    BY <2>1, JoinIs
  <2> HIDE DEF rest
  <2> QED BY <1>2, <2>1, <2>2
<1> HIDE DEF rest, last
<1>10. /\ b \in Seq(Nat) /\ Len(b) = Len(hi) + Len(rest)
       /\ \A i \in 1..Len(hi) : b[i] = hi[i]
       /\ \A i \in 1..Len(rest) : b[Len(hi) + i] = rest[i]
  <2>1. hi \in Seq(Nat) /\ rest \in Seq(Nat)
    BY <1>4, <1>9
  <2>2. /\ hi \o rest \in Seq(Nat) /\ Len(hi \o rest) = Len(hi) + Len(rest)
        /\ \A i \in 1..Len(hi) : (hi \o rest)[i] = hi[i]
        /\ \A i \in 1..Len(rest) : (hi \o rest)[Len(hi) + i] = rest[i]
    BY ONLY <2>1, JoinIs
  <2> QED BY <1>8, <2>2
<1> DEFINE start == 9 + Len(inc)
<1>11. start \in 0..Len(b) /\ start \in Nat /\ Len(hi) = start /\ Len(b) = start + Len(rest)
       /\ Len(b) \in Nat
  BY <1>1, <1>4, <1>9, <1>10
<1>12. SubSeq(b, start + 1, Len(b)) = rest
  <2> DEFINE z == Len(b)
  <2>1. start \in Nat /\ z = start + Len(rest) /\ z <= Len(b)
        /\ \A i \in 1..Len(rest) : b[start + i] = rest[i]
    <3>1. \A i \in 1..Len(rest) : b[start + i] = rest[i]
      BY <1>10, <1>11
    <3>2. z = start + Len(rest) /\ z <= Len(b)
      <4> HIDE DEF start
      <4> QED BY <1>11
    <3> QED BY <1>11, <3>1, <3>2
  <2> HIDE DEF start, z
  <2>2. SubSeq(b, start + 1, z) = rest
    BY <1>9, <1>10, <2>1, PartIs
  <2> QED BY <2>2 DEF z
<1>13. inc = <<>> => NoIncrement(b[10])
  <2> SUFFICES ASSUME inc = <<>> PROVE NoIncrement(b[10])
    OBVIOUS
  <2>1. Len(hi) = 9
    BY <1>1, <1>4
  <2>2. b[9 + 1] = rest[1]
    <3>1. 1 \in 1..Len(rest)
      BY <1>9
    <3>2. b[Len(hi) + 1] = rest[1]
      BY <1>10, <3>1
    <3> QED BY <2>1, <3>2
  <2>3. b[10] = n
    BY <1>9, <2>2
  <2> QED BY <2>3
<1>14. inc # <<>> => ~NoIncrement(b[10]) /\ inc = <<b[10]>>
  <2> SUFFICES ASSUME inc # <<>> PROVE ~NoIncrement(b[10]) /\ inc = <<b[10]>>
    OBVIOUS
  <2>1. Len(inc) = 1 /\ Len(hi) = 10
    <3>1. Len(inc) = 1
      BY <1>1
    <3>2. Len(hi) = 9 + Len(inc)
      BY <1>4
    <3> QED BY <3>1, <3>2
  <2>2. hi[9 + 1] = inc[1]
    BY <1>4, <2>1
  <2>3. b[10] = inc[1]
    BY <1>10, <2>1, <2>2
  <2> QED BY <1>1, <2>3
<1>15. rest = Body(f) \o <<sum>>
  BY DEF rest, last, body
<1> QED BY <1>7, <1>10, <1>11, <1>12, <1>13, <1>14, <1>15 DEF b

\* The fields and the increment are among those that may be.
FieldsAre ==
  /\ increment \in Increments
  /\ DOMAIN msgFields \subseteq DOMAIN FieldChoices
  /\ msgFields = [n \in DOMAIN msgFields |-> msgFields[n]]
  /\ \A n \in DOMAIN msgFields : msgFields[n] \in FieldChoices[n]

LEMMA FieldsGood ==
  ASSUME FieldsAre
  PROVE  /\ GoodFields(msgFields)
         /\ increment = <<>> \/ \E x \in Byte : ~NoIncrement(x) /\ increment = <<x>>
<1>1. GoodFields(msgFields)
  BY FieldAssumption DEF FieldsAre, GoodFields
<1>2. increment \in {<<>>} \cup {<<x>> : x \in Byte \ (160..169)}
  BY FieldAssumption DEF FieldsAre
<1>3. increment = <<>> \/ \E x \in Byte : ~NoIncrement(x) /\ increment = <<x>>
  <2> SUFFICES ASSUME increment # <<>>
               PROVE  \E x \in Byte : ~NoIncrement(x) /\ increment = <<x>>
    OBVIOUS
  <2>1. PICK x \in Byte \ (160..169) : increment = <<x>>
    BY <1>2
  <2>2. x \in Byte /\ ~NoIncrement(x)
    BY DEF NoIncrement
  <2> QED BY <2>1, <2>2
<1> QED BY <1>1, <1>3

LEMMA ReadsAsBuilt ==
  ASSUME FieldsAre
  PROVE  ReadAsBuilt
<1> DEFINE f == msgFields
           inc == increment
<1>1. /\ GoodFields(f)
      /\ inc = <<>> \/ \E x \in Byte : ~NoIncrement(x) /\ inc = <<x>>
  BY FieldsGood
<1> SUFFICES ASSUME StartsRight, ~EndsInText,
                    \A n \in DOMAIN f : FieldLength(f[n]) > 255 \/ BytesAfter(n) < 256
             PROVE  Parsed(Hex(inc, f)) = [increment |-> inc, fields |-> f]
  BY DEF ReadAsBuilt
<1>2. DOMAIN f \subseteq Byte /\ f = [n \in DOMAIN f |-> f[n]]
  BY <1>1 DEF GoodFields
<1>3. \A n \in DOMAIN f : n \in Nat /\ n <= 255
  BY <1>2, ByteIs
<1> DEFINE least == Min(DOMAIN f)
<1>4. f # <<>> /\ NoIncrement(least)
  BY DEF StartsRight, NoIncrement
<1>5. DOMAIN f # {}
  <2> SUFFICES ASSUME DOMAIN f = {} PROVE FALSE
    OBVIOUS
  <2>1. f = [n \in {} |-> f[n]]
    BY <1>2
  <2>2. [n \in {} |-> f[n]] = <<>>
    OBVIOUS
  <2> QED BY <1>4, <2>1, <2>2
<1>6. least \in DOMAIN f /\ \A n \in DOMAIN f : least <= n
  <2>1. DOMAIN f \in SUBSET Nat
    BY <1>3
  <2> QED BY <1>5, <2>1, MinIs
<1> HIDE DEF least, f, inc
<1>7. least >= 160
  <2>1. least \in Nat
    BY <1>3, <1>6
  <2> QED BY <1>4, <2>1 DEF NoIncrement
<1>8. Above(f, least) = DOMAIN f /\ Above(f, 0) = DOMAIN f
  BY <1>3, <1>6 DEF Above
<1>9. Readable(f)
  <2> SUFFICES ASSUME NEW n \in DOMAIN f
               PROVE  /\ n >= 160
                      /\ FieldLength(f[n]) > 255 \/ Len(BodyOf(f, Above(f, n + 1))) < 256
                      /\ Above(f, n + 1) = {} => f[n].type # <<Str>>
    BY <1>1 DEF Readable
  <2>1. n \in Nat /\ least \in Nat /\ least <= n
    BY <1>3, <1>6
  <2>2. n >= 160
    BY <1>7, <2>1
  <2>3. {x \in DOMAIN f : x > n} = Above(f, n + 1)
    BY <1>2, <2>1, AboveIs
  <2>4. FieldLength(f[n]) > 255 \/ Len(BodyOf(f, Above(f, n + 1))) < 256
    <3>1. BytesAfter(n) = Len(BodyOf(f, {x \in DOMAIN f : x > n}))
      BY DEF BytesAfter, f
    <3>2. BytesAfter(n) = Len(BodyOf(f, Above(f, n + 1)))
      BY <2>3, <3>1
    <3> QED BY <3>2
  <2>5. Above(f, n + 1) = {} => f[n].type # <<Str>>
    <3> SUFFICES ASSUME Above(f, n + 1) = {} PROVE f[n].type # <<Str>>
      OBVIOUS
    <3> DEFINE most == Max(DOMAIN f)
    <3>1. \A x \in DOMAIN f : n >= x
      <4> SUFFICES ASSUME NEW x \in DOMAIN f PROVE n >= x
        OBVIOUS
      <4>1. ~(x > n)
        BY <2>3
      <4> QED BY <1>3, <2>1, <4>1
    <3>2. \E x \in DOMAIN f : \A y \in DOMAIN f : x >= y
      BY <3>1
    <3>3. most \in DOMAIN f /\ \A y \in DOMAIN f : most >= y
      BY <3>2 DEF Max
    <3>4. most \in Nat /\ most >= n /\ n >= most
      BY <1>3, <3>1, <3>3
    <3>5. ~(f[most].type = <<Str>>)
      BY DEF EndsInText, f
    <3> HIDE DEF most
    <3>6. most = n
      BY <2>1, <3>4
    <3> QED BY <3>5, <3>6
  <2> QED BY <2>2, <2>4, <2>5
<1> DEFINE b == Hex(inc, f)
           start == 9 + Len(inc)
<1>10. PICK sum \in Nat :
         /\ b \in Seq(Nat) /\ start \in 0..Len(b)
         /\ SubSeq(b, start + 1, Len(b)) = Body(f) \o <<sum>>
         /\ inc = <<>> => NoIncrement(b[10])
         /\ inc # <<>> => ~NoIncrement(b[10]) /\ inc = <<b[10]>>
  BY <1>1, <1>4, <1>6, <1>8, MessageIs
<1> HIDE DEF b
<1>11. Body(f) = BodyOf(f, Above(f, 0))
  BY <1>8 DEF Body
<1>12. ParsedFields(b, start) = [x \in Above(f, 0) |-> f[x]]
  <2>1. ReadFrom(b, f, sum, 0)
    BY <1>9, <1>10, AllRead
  <2>2. SubSeq(b, start + 1, Len(b)) = BodyOf(f, Above(f, 0)) \o <<sum>>
    BY <1>10, <1>11
  <2> HIDE DEF start
  <2> QED BY <1>10, <2>1, <2>2 DEF ReadFrom
<1>13. ParsedFields(b, start) = f
  BY <1>2, <1>8, <1>12
<1> DEFINE found == IF b[10] \in 160..169 THEN <<>> ELSE <<b[10]>>
<1>14. found = inc
  <2>1. found = IF NoIncrement(b[10]) THEN <<>> ELSE <<b[10]>>
    BY DEF NoIncrement
  <2> HIDE DEF found
  <2> QED BY <1>10, <2>1
<1>15. Parsed(b) = [increment |-> found, fields |-> ParsedFields(b, 9 + Len(found))]
  BY DEF Parsed
<1> HIDE DEF found
<1>16. Parsed(b) = [increment |-> inc, fields |-> f]
  BY <1>13, <1>14, <1>15
<1> QED BY <1>16 DEF b

(***************************************************************************)
(* Fields with parts.  Each part is written after those before it, and     *)
(* what is written stays until the field is read.                          *)
(***************************************************************************)
LEMMA ZerosAre ==
  ASSUME NEW n \in Nat
  PROVE  /\ Zeros(n) \in Seq(Nat) /\ Len(Zeros(n)) = n
         /\ \A i \in 1..n : Zeros(n)[i] = 0
BY DEF Zeros

LEMMA PaddedIs ==
  ASSUME NEW b \in Seq(Nat), NEW n \in Nat
  PROVE  /\ Padded(b, n) \in Seq(Nat) /\ Len(Padded(b, n)) = n
         /\ \A i \in 1..n : Padded(b, n)[i] = IF i <= Len(b) THEN b[i] ELSE 0
<1> DEFINE m == Min({n, Len(b)})
           k == Max({0, n - Len(b)})
           s == SubSeq(b, 1, m)
           z == Zeros(k)
<1>1. Len(b) \in Nat
  BY LenProperties
<1>2. m \in Nat /\ m <= n /\ m <= Len(b) /\ (m = n \/ m = Len(b))
  <2>1. m \in {n, Len(b)} /\ m <= n /\ m <= Len(b)
    <3> DEFINE l == Len(b)
    <3>1. n \in Int /\ l \in Int
      BY <1>1
    <3> HIDE DEF l
    <3>2. Min({n, l}) \in {n, l} /\ Min({n, l}) <= n /\ Min({n, l}) <= l
      BY ONLY <3>1, MaxOfTwo
    <3> QED BY <3>2 DEF l
  <2> HIDE DEF m
  <2> QED BY <1>1, <2>1
<1>3. k \in Nat /\ k >= n - Len(b) /\ (k = 0 \/ k = n - Len(b))
  <2>1. n - Len(b) \in Int
    BY <1>1
  <2>2. k \in {0, n - Len(b)} /\ k >= 0 /\ k >= n - Len(b)
    <3> DEFINE l == n - Len(b)
    <3>1. 0 \in Int /\ l \in Int
      BY <2>1
    <3> HIDE DEF l
    <3>2. Max({0, l}) \in {0, l} /\ Max({0, l}) >= 0 /\ Max({0, l}) >= l
      BY ONLY <3>1, MaxOfTwo
    <3> QED BY <3>2 DEF l
  <2> HIDE DEF k
  <2> QED BY <1>1, <2>1, <2>2
<1> HIDE DEF m, k
<1>4. m + k = n
  BY <1>1, <1>2, <1>3
<1>5. s \in Seq(Nat) /\ Len(s) = m /\ \A i \in 1..m : s[i] = b[i]
  <2>1. \A i \in 1..m : b[i] \in Nat
    BY <1>1, <1>2, ElementOfSeq
  <2> QED BY <1>1, <1>2, <2>1
<1>6. z \in Seq(Nat) /\ Len(z) = k /\ \A i \in 1..k : z[i] = 0
  BY <1>3, ZerosAre
<1> HIDE DEF s, z
<1>7. /\ s \o z \in Seq(Nat) /\ Len(s \o z) = Len(s) + Len(z)
      /\ \A i \in 1..Len(s) : (s \o z)[i] = s[i]
      /\ \A i \in 1..Len(z) : (s \o z)[Len(s) + i] = z[i]
  <2>1. s \in Seq(Nat) /\ z \in Seq(Nat)
    BY <1>5, <1>6
  <2> QED BY ONLY <2>1, JoinIs
<1> DEFINE p == s \o z
<1>8. p \in Seq(Nat) /\ Len(p) = n
  BY <1>4, <1>5, <1>6, <1>7
<1>9. ASSUME NEW i \in 1..n PROVE p[i] = IF i <= Len(b) THEN b[i] ELSE 0
  <2>1. CASE i <= m
    <3>1. i \in 1..m
      BY <1>2, <2>1
    <3>2. p[i] = b[i]
      BY <1>5, <1>7, <3>1
    <3>3. i <= Len(b)
      BY <1>1, <1>2, <2>1
    <3> QED BY <3>2, <3>3
  <2>2. CASE ~(i <= m)
    <3>1. i - m \in 1..k /\ m + (i - m) = i
      BY <1>2, <1>3, <1>4, <2>2
    <3>2. p[m + (i - m)] = z[i - m]
      BY <1>5, <1>6, <1>7, <3>1
    <3>3. z[i - m] = 0
      BY <1>6, <3>1
    <3>4. ~(i <= Len(b))
      BY <1>1, <1>2, <2>2
    <3> QED BY <3>1, <3>2, <3>3, <3>4
  <2> QED BY <2>1, <2>2
<1>10. Padded(b, n) = p
  BY DEF Padded, m, k, s, z
<1> HIDE DEF p
<1> QED BY <1>8, <1>9, <1>10

(***************************************************************************)
(* The four kinds of parts, with their bytes.                              *)
(***************************************************************************)
NumberPart(part, full) ==
  /\ part.type # Str /\ ~HasLengthByte(part)
  /\ full = LittleEndian(part.value, Width(part.type))
  /\ full \in Seq(Nat) /\ Len(full) = Width(part.type) /\ PartLength(part) = Len(full)
  /\ Width(part.type) \in Nat /\ Width(part.type) >= 1
  /\ Decoded(full, part.signed) = part.value

FixedPart(part, full) ==
  /\ part.type = Str /\ ~HasLengthByte(part) /\ part.value \in Seq(Letters) /\ Bare(part.value)
  /\ full \in Seq(Nat) /\ Len(full) = part.length /\ PartLength(part) = Len(full)
  /\ part.length \in Nat /\ part.length >= 1
  /\ \A i \in 1..Len(full) : full[i] = IF i <= Len(part.value) THEN part.value[i] ELSE 0

EmptyPart(part, full) ==
  /\ part.type = Str /\ HasLengthByte(part) /\ part.value = <<>> /\ full = <<>>
  /\ PartLength(part) = 1

CountedPart(part, full) ==
  /\ part.type = Str /\ HasLengthByte(part) /\ part.value \in Seq(Letters) /\ Bare(part.value)
  /\ full \in Seq(Nat) /\ Len(full) = Len(part.value) + 1 /\ PartLength(part) = Len(full)
  /\ Len(part.value) \in Nat /\ Len(part.value) >= 1 /\ full[1] = Len(part.value)
  /\ \A i \in 1..Len(part.value) : full[1 + i] = part.value[i]

PartKinds(part, full) ==
  \/ NumberPart(part, full) \/ FixedPart(part, full)
  \/ EmptyPart(part, full) \/ CountedPart(part, full)

LEMMA LettersAre == Letters \subseteq Nat /\ \A x \in Letters : x >= 32
BY DEF Letters, Space

\* Which kind a part is.
LEMMA KindIs ==
  ASSUME NEW part, GoodPart(part)
  PROVE  PartKinds(part, EncodedPart(part)) /\ part.gap \in Nat
<1> DEFINE ty == part.type
           v == part.value
           l == part.length
           sg == part.signed
           full == EncodedPart(part)
<1>1. /\ part.gap \in Nat /\ l \in Nat /\ sg \in BOOLEAN
      /\ \/ ty = Str /\ v \in Seq(Letters) /\ Len(v) < 256 /\ Bare(v)
         \/ ty \in {Ui, Sile, Var} /\ v \in Int /\ Fits(v, Width(ty), sg)
  BY DEF GoodPart
<1>2. HasLengthByte(part) <=> ty = Str /\ l = 0
  BY DEF HasLengthByte
<1>3. full = IF ty = Str THEN EncodedText(v, l) ELSE LittleEndian(v, Width(ty))
  BY DEF EncodedPart
<1>4. PartLength(part) = IF HasLengthByte(part) THEN Len(v) + 1 ELSE Len(full)
  BY DEF PartLength
<1>5. (part.type = ty) /\ (part.value = v) /\ (part.length = l) /\ (part.signed = sg)
  OBVIOUS
<1> HIDE DEF ty, v, l, sg, full
<1>6. CASE ty # Str
  <2>1. ty \in {Ui, Sile, Var} /\ v \in Int /\ Fits(v, Width(ty), sg)
    BY <1>1, <1>6
  <2> DEFINE w == Width(ty)
  <2>2. w \in {1, 2, 4}
    BY <2>1 DEF Width, Ui, Sile, Var
  <2>3. full = LittleEndian(v, w) /\ ~HasLengthByte(part)
    BY <1>2, <1>3, <1>6
  <2> HIDE DEF w
  <2>4. BytesOf(full, v, w) /\ Decoded(full, sg) = v
    BY <1>1, <2>1, <2>2, <2>3, LittleEndianIs, DecodedIs DEF w
  <2>5. full \in Seq(Byte) /\ Len(full) = w
    BY <2>4 DEF BytesOf
  <2>6. full \in Seq(Nat)
    <3>1. Byte \subseteq Nat
      BY ByteIs
    <3> QED BY <2>5, <3>1, SeqWider
  <2>7. w \in Nat /\ w >= 1
    BY <2>2
  <2>8. PartLength(part) = Len(full)
    BY <1>4, <2>3
  <2>9. NumberPart(part, full)
    BY <1>5, <1>6, <2>3, <2>4, <2>5, <2>6, <2>7, <2>8 DEF NumberPart, w
  <2> QED BY <1>1, <2>9 DEF PartKinds, full
<1>7. CASE ty = Str
  <2>1. v \in Seq(Letters) /\ Len(v) \in Nat /\ v \in Seq(Nat) /\ Bare(v)
    <3>1. v \in Seq(Letters) /\ Bare(v)
      BY <1>1, <1>7 DEF Str, Ui, Sile, Var
    <3>2. Letters \subseteq Nat
      BY LettersAre
    <3>3. v \in Seq(Nat)
      BY <3>1, <3>2, SeqWider
    <3> QED BY <3>1, <3>3, LenProperties
  <2>2. full = EncodedText(v, l)
    BY <1>3, <1>7
  <2>3. CASE l > 0
    <3>1. full = Padded(v, l) /\ l >= 1 /\ ~HasLengthByte(part)
      BY <1>1, <1>2, <2>2, <2>3 DEF EncodedText
    <3>2. /\ full \in Seq(Nat) /\ Len(full) = l
          /\ \A i \in 1..l : full[i] = IF i <= Len(v) THEN v[i] ELSE 0
      BY <1>1, <2>1, <3>1, PaddedIs
    <3>3. PartLength(part) = Len(full)
      BY <1>4, <3>1
    <3>4. FixedPart(part, full)
      BY <1>1, <1>5, <1>7, <2>1, <3>1, <3>2, <3>3 DEF FixedPart
    <3> QED BY <1>1, <3>4 DEF PartKinds, full
  <2>4. CASE l = 0 /\ v = <<>>
    <3>1. HasLengthByte(part) /\ full = <<>>
      BY <1>2, <1>7, <2>2, <2>4 DEF EncodedText
    <3>2. Len(v) = 0
      BY <2>4
    <3>3. PartLength(part) = 1
      BY <1>4, <3>1, <3>2
    <3>4. EmptyPart(part, full)
      BY <1>5, <1>7, <2>4, <3>1, <3>3 DEF EmptyPart
    <3> QED BY <1>1, <3>4 DEF PartKinds, full
  <2>5. CASE l = 0 /\ v # <<>>
    <3> DEFINE one == <<Len(v)>>
    <3>1. HasLengthByte(part) /\ full = one \o v
      BY <1>2, <1>7, <2>2, <2>5 DEF EncodedText
    <3>2. one \in Seq(Nat) /\ Len(one) = 1 /\ one[1] = Len(v)
      BY <2>1
    <3>3. Len(v) # 0
      BY <2>1, <2>5, EmptySeq
    <3>4. Len(v) >= 1
      BY <2>1, <3>3
    <3> HIDE DEF one
    <3>5. /\ one \o v \in Seq(Nat) /\ Len(one \o v) = Len(one) + Len(v)
          /\ \A i \in 1..Len(one) : (one \o v)[i] = one[i]
          /\ \A i \in 1..Len(v) : (one \o v)[Len(one) + i] = v[i]
      <4>1. one \in Seq(Nat) /\ v \in Seq(Nat)
        BY <2>1, <3>2
      <4> QED BY ONLY <4>1, JoinIs
    <3>6. /\ full \in Seq(Nat) /\ Len(full) = Len(v) + 1 /\ full[1] = Len(v)
          /\ \A i \in 1..Len(v) : full[1 + i] = v[i]
      <4>1. Len(full) = Len(v) + 1
        BY <2>1, <3>1, <3>2, <3>5
      <4> QED BY <3>1, <3>2, <3>5, <4>1
    <3>7. PartLength(part) = Len(full)
      BY <1>4, <3>1, <3>6
    <3>8. CountedPart(part, full)
      BY <1>5, <1>7, <2>1, <3>1, <3>4, <3>6, <3>7 DEF CountedPart
    <3> QED BY <1>1, <3>8 DEF PartKinds, full
  <2> QED BY <1>1, <2>3, <2>4, <2>5
<1> QED BY <1>6, <1>7

\* What is written of a part: all, or the beginning of a text.
CodeIs(part, full, room, code) ==
  \/ code = full
  \/ /\ part.type = Str /\ room >= 1 /\ room < Len(full) /\ Len(code) = room
     /\ HasLengthByte(part) => /\ code[1] = room - 1
                               /\ \A i \in 1 .. room - 1 : code[1 + i] = full[1 + i]
     /\ ~HasLengthByte(part) => \A i \in 1..room : code[i] = full[i]

LEMMA EncodedIs ==
  ASSUME NEW part, GoodPart(part)
  PROVE  EncodedPart(part) \in Seq(Nat) /\ Len(EncodedPart(part)) \in Nat
<1> DEFINE full == EncodedPart(part)
<1>1. PartKinds(part, full)
  BY KindIs
<1> HIDE DEF full
<1>2. full \in Seq(Nat)
  <2>1. CASE NumberPart(part, full)
    BY <2>1 DEF NumberPart
  <2>2. CASE FixedPart(part, full)
    BY <2>2 DEF FixedPart
  <2>3. CASE EmptyPart(part, full)
    <3>1. full = <<>>
      BY <2>3 DEF EmptyPart
    <3> QED BY <3>1
  <2>4. CASE CountedPart(part, full)
    BY <2>4 DEF CountedPart
  <2> QED BY <1>1, <2>1, <2>2, <2>3, <2>4 DEF PartKinds
<1>3. Len(full) \in Nat
  BY <1>2, LenProperties
<1> QED BY <1>2, <1>3 DEF full

LEMMA CutIs ==
  ASSUME NEW part, GoodPart(part), NEW room \in Int
  PROVE  /\ CodeIs(part, EncodedPart(part), room, CutTo(room, part))
         /\ CutTo(room, part) \in Seq(Nat)
         /\ Len(CutTo(room, part)) \in Nat
         /\ Len(CutTo(room, part)) <= Len(EncodedPart(part))
<1> DEFINE full == EncodedPart(part)
           cut == SubSeq(full, 1, room)
           first == <<room - 1>>
           code == CutTo(room, part)
<1>1. full \in Seq(Nat) /\ Len(full) \in Nat
  BY EncodedIs
<1> HIDE DEF full
<1>2. code = IF part.type # Str \/ room <= 0 \/ Len(full) <= room THEN full
             ELSE IF HasLengthByte(part) THEN first \o Tail(cut) ELSE cut
  BY DEF CutTo, full
<1> HIDE DEF code
<1>3. CASE part.type # Str \/ room <= 0 \/ Len(full) <= room
  <2>1. code = full
    BY <1>2, <1>3
  <2>2. CodeIs(part, full, room, code)
    BY <2>1 DEF CodeIs
  <2>3. Len(code) \in Nat /\ Len(code) <= Len(full) /\ code \in Seq(Nat)
    BY <1>1, <2>1
  <2> QED BY <2>2, <2>3 DEF full, code
<1>4. CASE ~(part.type # Str \/ room <= 0 \/ Len(full) <= room)
  <2>1. part.type = Str /\ room >= 1 /\ room < Len(full) /\ room \in Nat
    BY <1>1, <1>4
  <2>2. cut \in Seq(Nat) /\ Len(cut) = room /\ \A i \in 1..room : cut[i] = full[i]
    <3>1. \A i \in 1..room : full[i] \in Nat
      BY <1>1, <2>1, ElementOfSeq
    <3> QED BY <1>1, <2>1, <3>1
  <2> HIDE DEF cut
  <2>3. CASE ~HasLengthByte(part)
    <3>1. code = cut
      BY <1>2, <1>4, <2>3
    <3>2. CodeIs(part, full, room, code)
      BY <2>1, <2>2, <2>3, <3>1 DEF CodeIs
    <3>3. Len(code) \in Nat /\ Len(code) <= Len(full) /\ code \in Seq(Nat)
      BY <1>1, <2>1, <2>2, <3>1
    <3> QED BY <3>2, <3>3 DEF full, code
  <2>4. CASE HasLengthByte(part)
    <3> DEFINE tail == Tail(cut)
    <3>1. code = first \o tail
      BY <1>2, <1>4, <2>4
    <3>2. cut # <<>>
      BY <2>1, <2>2
    <3>3. tail \in Seq(Nat) /\ Len(tail) = room - 1
          /\ \A i \in 1 .. room - 1 : tail[i] = cut[i + 1]
      BY <2>2, <3>2, HeadTailProperties
    <3> HIDE DEF tail
    <3>4. first \in Seq(Nat) /\ Len(first) = 1 /\ first[1] = room - 1
      BY <2>1
    <3> HIDE DEF first
    <3>5. /\ first \o tail \in Seq(Nat) /\ Len(first \o tail) = Len(first) + Len(tail)
          /\ \A i \in 1..Len(first) : (first \o tail)[i] = first[i]
          /\ \A i \in 1..Len(tail) : (first \o tail)[Len(first) + i] = tail[i]
      <4>1. first \in Seq(Nat) /\ tail \in Seq(Nat)
        BY <3>3, <3>4
      <4> QED BY ONLY <4>1, JoinIs
    <3>6. code \in Seq(Nat) /\ Len(code) = room /\ code[1] = room - 1
      BY <2>1, <3>1, <3>3, <3>4, <3>5
    <3>7. \A i \in 1 .. room - 1 : code[1 + i] = full[1 + i]
      <4> SUFFICES ASSUME NEW i \in 1 .. room - 1 PROVE code[1 + i] = full[1 + i]
        OBVIOUS
      <4>1. i + 1 \in 1..room /\ i + 1 = 1 + i
        BY <2>1
      <4>2. code[1 + i] = tail[i]
        BY <3>1, <3>3, <3>4, <3>5
      <4>3. tail[i] = cut[i + 1]
        BY <3>3
      <4>4. cut[i + 1] = full[i + 1]
        BY <2>2, <4>1
      <4> QED BY <4>1, <4>2, <4>3, <4>4
    <3>8. CodeIs(part, full, room, code)
      BY <2>1, <2>4, <3>6, <3>7 DEF CodeIs
    <3>9. Len(code) \in Nat /\ Len(code) <= Len(full)
      BY <1>1, <2>1, <3>6
    <3> QED BY <3>6, <3>8, <3>9 DEF full, code
  <2> QED BY <2>3, <2>4
<1> QED BY <1>3, <1>4

\* A value after a part was written into it.
WrittenTo(value, at, code, new) ==
  /\ new \in Seq(Nat) /\ Len(new) \in Nat
  /\ Len(new) >= Len(value) /\ Len(new) >= at + Len(code)
  /\ Len(new) = Len(value) \/ Len(new) = at + Len(code)
  /\ \A x \in 1..Len(new) :
       x <= at => new[x] = IF x <= Len(value) THEN value[x] ELSE 0
  /\ \A k \in 1..Len(code) : new[at + k] = code[k]
  /\ \A x \in 1..Len(new) : x > at + Len(code) => x <= Len(value) /\ new[x] = value[x]

LEMMA WrittenIs ==
  ASSUME NEW part, GoodPart(part), NEW value \in Seq(Nat), NEW at \in Nat,
         EncodedPart(part) # <<>>
  PROVE  WrittenTo(value, at, CutTo(Len(value) - at, part), Written(value, at, part))
<1> DEFINE l == Len(value)
           size == Max({at, l})
           before == Padded(value, size)
           code == CutTo(l - at, part)
           s == SubSeq(before, 1, at)
           n == at + Len(code)
           e == SubSeq(before, n + 1, Len(before))
           new == Written(value, at, part)
<1>1. l \in Nat
  BY LenProperties
<1>2. new = s \o code \o e
  BY DEF Written
<1>3. size \in Nat /\ size >= at /\ size >= l /\ (size = at \/ size = l)
  <2> HIDE DEF l
  <2>1. at \in Int /\ l \in Int
    BY <1>1
  <2>2. Max({at, l}) \in {at, l} /\ Max({at, l}) >= at /\ Max({at, l}) >= l
    BY ONLY <2>1, MaxOfTwo
  <2> QED BY <1>1, <2>2
<1> HIDE DEF size
<1>4. /\ before \in Seq(Nat) /\ Len(before) = size
      /\ \A i \in 1..size : before[i] = IF i <= l THEN value[i] ELSE 0
  BY <1>3, PaddedIs
<1>5. code \in Seq(Nat) /\ Len(code) \in Nat
  <2>1. l - at \in Int
    BY <1>1
  <2> HIDE DEF l
  <2> QED BY <2>1, CutIs
<1> HIDE DEF before, code, new
<1>6. s \in Seq(Nat) /\ Len(s) = at /\ \A i \in 1..at : s[i] = before[i]
  <2>1. \A i \in 1..at : before[i] \in Nat
    BY <1>3, <1>4, ElementOfSeq
  <2> QED BY <1>3, <1>4, <2>1
<1> HIDE DEF s
<1>7. /\ s \o code \in Seq(Nat) /\ Len(s \o code) = Len(s) + Len(code)
      /\ \A i \in 1..Len(s) : (s \o code)[i] = s[i]
      /\ \A i \in 1..Len(code) : (s \o code)[Len(s) + i] = code[i]
  <2>1. s \in Seq(Nat) /\ code \in Seq(Nat)
    BY <1>5, <1>6
  <2> QED BY ONLY <2>1, JoinIs
<1> DEFINE sc == s \o code
<1>8. /\ sc \in Seq(Nat) /\ Len(sc) = n /\ n \in Nat
      /\ \A i \in 1..at : sc[i] = before[i]
      /\ \A i \in 1..Len(code) : sc[at + i] = code[i]
  BY <1>5, <1>6, <1>7
<1> HIDE DEF sc, n
<1>9. /\ e \in Seq(Nat)
      /\ n < size => Len(e) = size - n /\ \A i \in 1 .. size - n : e[i] = before[n + i]
      /\ n >= size => Len(e) = 0
  <2>1. CASE n < size
    <3>1. n \in Nat /\ n <= Len(before)
      BY <1>3, <1>4, <1>8, <2>1
    <3>2. /\ e \in Seq(Nat) /\ Len(e) = Len(before) - n
          /\ \A i \in 1 .. Len(before) - n : e[i] = before[n + i]
      BY <1>4, <3>1, EndIs
    <3> QED BY <1>3, <1>4, <1>8, <2>1, <3>2
  <2>2. CASE n >= size
    <3>1. e = <<>>
      <4>1. n + 1 \in Int /\ Len(before) \in Int /\ Len(before) < n + 1
        BY <1>3, <1>4, <1>8, <2>2
      <4> QED BY <4>1, SubSeqEmpty
    <3>2. ~(n < size)
      BY <1>3, <1>8, <2>2
    <3>3. e \in Seq(Nat) /\ Len(e) = 0
      <4>1. <<>> \in Seq(Nat) /\ Len(<<>>) = 0
        OBVIOUS
      <4> QED BY <3>1, <4>1, Zenon
    <3> QED BY <3>2, <3>3
  <2> QED BY <1>3, <1>8, <2>1, <2>2
<1> HIDE DEF e
<1>10. /\ new \in Seq(Nat) /\ Len(new) = Len(sc) + Len(e)
       /\ \A i \in 1..Len(sc) : new[i] = sc[i]
       /\ \A i \in 1..Len(e) : new[Len(sc) + i] = e[i]
  <2>1. sc \in Seq(Nat) /\ e \in Seq(Nat)
    BY <1>8, <1>9
  <2>2. /\ sc \o e \in Seq(Nat) /\ Len(sc \o e) = Len(sc) + Len(e)
        /\ \A i \in 1..Len(sc) : (sc \o e)[i] = sc[i]
        /\ \A i \in 1..Len(e) : (sc \o e)[Len(sc) + i] = e[i]
    BY ONLY <2>1, JoinIs
  <2>3. new = sc \o e
    BY <1>2 DEF sc
  <2> QED BY <2>2, <2>3
<1>11. /\ n < size => Len(new) = size
       /\ n >= size => Len(new) = n
  <2> DEFINE a == Len(e)
             z == Len(new)
  <2>1. z = n + a /\ n \in Nat /\ size \in Nat
    BY <1>3, <1>8, <1>10
  <2>2. (n < size => a = size - n) /\ (n >= size => a = 0)
    BY <1>9
  <2> HIDE DEF a, z
  <2>3. (n < size => z = size) /\ (n >= size => z = n)
    BY <2>1, <2>2
  <2> QED BY <2>3 DEF z
<1>12. n = at + Len(code) /\ n >= at
  BY <1>5 DEF n
<1>13. /\ Len(new) \in Nat /\ Len(new) >= l /\ Len(new) >= n
       /\ Len(new) = l \/ Len(new) = n
  BY <1>1, <1>3, <1>8, <1>11, <1>12
<1>14. ASSUME NEW x \in 1..Len(new), x <= at
       PROVE  new[x] = IF x <= l THEN value[x] ELSE 0
  <2>1. x \in 1..at /\ x \in 1..Len(sc) /\ x \in 1..size
    BY <1>3, <1>8, <1>12, <1>13, <1>14
  <2>2. new[x] = sc[x] /\ sc[x] = before[x]
    BY <1>8, <1>10, <2>1
  <2> HIDE DEF l
  <2> QED BY <1>4, <2>1, <2>2
<1>15. ASSUME NEW k \in 1..Len(code)
       PROVE  new[at + k] = code[k]
  <2>1. at + k \in 1..Len(sc)
    BY <1>5, <1>8, <1>12
  <2> QED BY <1>8, <1>10, <2>1
<1>16. ASSUME NEW x \in 1..Len(new), x > n
       PROVE  x <= l /\ new[x] = value[x]
  <2>1. n < size
    BY <1>3, <1>8, <1>11, <1>16
  <2>2. size = l /\ Len(new) = size
    BY <1>3, <1>8, <1>11, <1>12, <2>1
  <2>3. x - n \in 1..Len(e) /\ n + (x - n) = x /\ x \in 1..size /\ x <= l
    BY <1>8, <1>9, <1>16, <2>1, <2>2
  <2>4. new[x] = e[x - n] /\ e[x - n] = before[x]
    <3>1. new[Len(sc) + (x - n)] = e[x - n]
      BY <1>10, <2>3
    <3>2. e[x - n] = before[n + (x - n)]
      BY <1>9, <2>1, <2>3
    <3> QED BY <1>8, <2>3, <3>1, <3>2
  <2> HIDE DEF l
  <2> QED BY <1>4, <2>3, <2>4
<1>17. WrittenTo(value, at, code, new)
  BY <1>10, <1>12, <1>13, <1>14, <1>15, <1>16 DEF WrittenTo, l
<1> QED BY <1>17 DEF code, new, l

\* The parts of a layout written one after the other.
ComposeStep(done, layout, i) ==
  IF i = 0 THEN [at |-> 0, value |-> Zeros(layout.length)]
  ELSE WritePart(done[i - 1], layout.parts[i])
ComposeTo(done, layout, n) == done = [i \in 0..n |-> ComposeStep(done, layout, i)]

ComposeNext(done, layout, i) == done[i] = WritePart(done[i - 1], layout.parts[i])

LEMMA ComposeExists ==
  ASSUME NEW layout
  PROVE  \A n \in Nat : \E done : ComposeTo(done, layout, n)
<1> DEFINE S == {n \in Nat : \E done : ComposeTo(done, layout, n)}
<1>1. 0 \in S
  <2> DEFINE zero == [at |-> 0, value |-> Zeros(layout.length)]
             done == [i \in 0..0 |-> zero]
             next == [i \in 0..0 |-> ComposeStep(done, layout, i)]
  <2>1. \A i \in 0..0 : ComposeStep(done, layout, i) = zero
    <3> HIDE DEF done
    <3> QED BY DEF ComposeStep
  <2> HIDE DEF zero
  <2>2. done = next
    BY <2>1
  <2>3. ComposeTo(done, layout, 0)
    BY <2>2 DEF ComposeTo
  <2> HIDE DEF done
  <2> QED BY <2>3
<1>2. ASSUME NEW n \in S PROVE n + 1 \in S
  <2>1. n \in Nat /\ n + 1 \in Nat
    OBVIOUS
  <2>2. PICK done : ComposeTo(done, layout, n)
    OBVIOUS
  <2> HIDE DEF S
  <2> DEFINE last == ComposeStep(done, layout, n + 1)
             Old == 0..n
             New == 0 .. n + 1
             more == [i \in New |-> IF i = n + 1 THEN last ELSE done[i]]
  <2>3. \A i \in Old : done[i] = ComposeStep(done, layout, i)
    BY <2>2 DEF ComposeTo
  <2>4. /\ \A i \in Old : i \in New /\ i # n + 1
        /\ \A i \in New : i = n + 1 \/ i \in Old
        /\ \A i \in New : i # 0 => i - 1 \in Old
        /\ n + 1 \in New
    BY <2>1
  <2>5. /\ \A i \in Old : more[i] = done[i]
        /\ more[n + 1] = last
    BY <2>4
  <2>6. more = [i \in New |-> more[i]]
    OBVIOUS
  <2> HIDE DEF more, Old, New
  <2>7. \A i \in New : ComposeStep(more, layout, i) = ComposeStep(done, layout, i)
    <3> SUFFICES ASSUME NEW i \in New
                 PROVE  ComposeStep(more, layout, i) = ComposeStep(done, layout, i)
      OBVIOUS
    <3>1. CASE i = 0
      BY <3>1 DEF ComposeStep
    <3>2. CASE i # 0
      <4>1. more[i - 1] = done[i - 1]
        BY <2>4, <2>5, <3>2
      <4> QED BY <3>2, <4>1 DEF ComposeStep
    <3> QED BY <3>1, <3>2
  <2>8. \A i \in New : more[i] = ComposeStep(more, layout, i)
    BY <2>3, <2>4, <2>5, <2>7
  <2> HIDE DEF last
  <2>9. more = [i \in New |-> ComposeStep(more, layout, i)]
    BY <2>6, <2>8
  <2>10. ComposeTo(more, layout, n + 1)
    BY <2>9 DEF ComposeTo, New
  <2> QED BY <2>1, <2>10 DEF S
<1>3. S = Nat
  <2> HIDE DEF S
  <2>1. S \subseteq Nat
    BY DEF S
  <2> QED BY <1>1, <1>2, <2>1, NatSet
<1> QED BY <1>3

LEMMA ComposeIs ==
  ASSUME NEW layout, NEW n \in Nat, Len(layout.parts) = n
  PROVE  \E done : /\ Composed(layout) = done[n].value
                   /\ done[0] = [at |-> 0, value |-> Zeros(layout.length)]
                   /\ \A i \in 1..n : ComposeNext(done, layout, i)
<1> DEFINE Right(done) == done = [i \in 0..Len(layout.parts) |->
             IF i = 0 THEN [at |-> 0, value |-> Zeros(layout.length)]
             ELSE WritePart(done[i - 1], layout.parts[i])]
           done == CHOOSE done : Right(done)
<1>1. Composed(layout) = done[n].value
  BY DEF Composed
<1>2. \A g : ComposeTo(g, layout, n) <=> Right(g)
  BY DEF ComposeTo, ComposeStep
<1>3. \E g : ComposeTo(g, layout, n)
  BY ComposeExists
<1>4. \E g : Right(g)
  <2> HIDE DEF Right
  <2> QED BY <1>2, <1>3
<1>5. Right(done)
  <2> HIDE DEF Right
  <2> QED BY <1>4
<1>6. ComposeTo(done, layout, n)
  <2> HIDE DEF done, Right
  <2> QED BY <1>2, <1>5
<1> HIDE DEF done
<1>7. \A i \in 0..n : done[i] = ComposeStep(done, layout, i)
  BY <1>6 DEF ComposeTo
<1>8. done[0] = [at |-> 0, value |-> Zeros(layout.length)]
  <2>1. done[0] = ComposeStep(done, layout, 0)
    BY <1>7
  <2> QED BY <2>1 DEF ComposeStep
<1>9. \A i \in 1..n : ComposeNext(done, layout, i)
  <2> SUFFICES ASSUME NEW i \in 1..n PROVE ComposeNext(done, layout, i)
    OBVIOUS
  <2>1. i \in 0..n /\ i # 0
    OBVIOUS
  <2>2. done[i] = ComposeStep(done, layout, i)
    BY <1>7, <2>1
  <2> QED BY <2>1, <2>2 DEF ComposeStep, ComposeNext
<1> QED BY <1>1, <1>8, <1>9

\* The parts of a value read one after the other.
ReadingStep(done, value, parts, i) ==
  IF i = 0 THEN [at |-> 0, read |-> <<>>]
  ELSE ReadPart(done[i - 1], value, parts[i])
ReadingTo(done, value, parts, n) == done = [i \in 0..n |-> ReadingStep(done, value, parts, i)]

ReadingNext(done, value, parts, i) == done[i] = ReadPart(done[i - 1], value, parts[i])

LEMMA ReadingExists ==
  ASSUME NEW value, NEW parts
  PROVE  \A n \in Nat : \E done : ReadingTo(done, value, parts, n)
<1> DEFINE S == {n \in Nat : \E done : ReadingTo(done, value, parts, n)}
<1>1. 0 \in S
  <2> DEFINE zero == [at |-> 0, read |-> <<>>]
             done == [i \in 0..0 |-> zero]
             next == [i \in 0..0 |-> ReadingStep(done, value, parts, i)]
  <2>1. \A i \in 0..0 : ReadingStep(done, value, parts, i) = zero
    <3> HIDE DEF done
    <3> QED BY DEF ReadingStep
  <2> HIDE DEF zero
  <2>2. done = next
    BY <2>1
  <2>3. ReadingTo(done, value, parts, 0)
    BY <2>2 DEF ReadingTo
  <2> HIDE DEF done
  <2> QED BY <2>3
<1>2. ASSUME NEW n \in S PROVE n + 1 \in S
  <2>1. n \in Nat /\ n + 1 \in Nat
    OBVIOUS
  <2>2. PICK done : ReadingTo(done, value, parts, n)
    OBVIOUS
  <2> HIDE DEF S
  <2> DEFINE last == ReadingStep(done, value, parts, n + 1)
             Old == 0..n
             New == 0 .. n + 1
             more == [i \in New |-> IF i = n + 1 THEN last ELSE done[i]]
  <2>3. \A i \in Old : done[i] = ReadingStep(done, value, parts, i)
    BY <2>2 DEF ReadingTo
  <2>4. /\ \A i \in Old : i \in New /\ i # n + 1
        /\ \A i \in New : i = n + 1 \/ i \in Old
        /\ \A i \in New : i # 0 => i - 1 \in Old
        /\ n + 1 \in New
    BY <2>1
  <2>5. /\ \A i \in Old : more[i] = done[i]
        /\ more[n + 1] = last
    BY <2>4
  <2>6. more = [i \in New |-> more[i]]
    OBVIOUS
  <2> HIDE DEF more, Old, New
  <2>7. \A i \in New : ReadingStep(more, value, parts, i) = ReadingStep(done, value, parts, i)
    <3> SUFFICES ASSUME NEW i \in New
                 PROVE  ReadingStep(more, value, parts, i) = ReadingStep(done, value, parts, i)
      OBVIOUS
    <3>1. CASE i = 0
      BY <3>1 DEF ReadingStep
    <3>2. CASE i # 0
      <4>1. more[i - 1] = done[i - 1]
        BY <2>4, <2>5, <3>2
      <4> QED BY <3>2, <4>1 DEF ReadingStep
    <3> QED BY <3>1, <3>2
  <2>8. \A i \in New : more[i] = ReadingStep(more, value, parts, i)
    BY <2>3, <2>4, <2>5, <2>7
  <2> HIDE DEF last
  <2>9. more = [i \in New |-> ReadingStep(more, value, parts, i)]
    BY <2>6, <2>8
  <2>10. ReadingTo(more, value, parts, n + 1)
    BY <2>9 DEF ReadingTo, New
  <2> QED BY <2>1, <2>10 DEF S
<1>3. S = Nat
  <2> HIDE DEF S
  <2>1. S \subseteq Nat
    BY DEF S
  <2> QED BY <1>1, <1>2, <2>1, NatSet
<1> QED BY <1>3

LEMMA ReadingIs ==
  ASSUME NEW value, NEW parts, NEW n \in Nat, Len(parts) = n
  PROVE  \E done : /\ ReadParts(value, parts) = done[n].read
                   /\ done[0] = [at |-> 0, read |-> <<>>]
                   /\ \A i \in 1..n : ReadingNext(done, value, parts, i)
<1> DEFINE Right(done) == done = [i \in 0..Len(parts) |->
             IF i = 0 THEN [at |-> 0, read |-> <<>>]
             ELSE ReadPart(done[i - 1], value, parts[i])]
           done == CHOOSE done : Right(done)
<1>1. ReadParts(value, parts) = done[n].read
  BY DEF ReadParts
<1>2. \A g : ReadingTo(g, value, parts, n) <=> Right(g)
  BY DEF ReadingTo, ReadingStep
<1>3. \E g : ReadingTo(g, value, parts, n)
  BY ReadingExists
<1>4. \E g : Right(g)
  <2> HIDE DEF Right
  <2> QED BY <1>2, <1>3
<1>5. Right(done)
  <2> HIDE DEF Right
  <2> QED BY <1>4
<1>6. ReadingTo(done, value, parts, n)
  <2> HIDE DEF done, Right
  <2> QED BY <1>2, <1>5
<1> HIDE DEF done
<1>7. \A i \in 0..n : done[i] = ReadingStep(done, value, parts, i)
  BY <1>6 DEF ReadingTo
<1>8. done[0] = [at |-> 0, read |-> <<>>]
  <2>1. done[0] = ReadingStep(done, value, parts, 0)
    BY <1>7
  <2> QED BY <2>1 DEF ReadingStep
<1>9. \A i \in 1..n : ReadingNext(done, value, parts, i)
  <2> SUFFICES ASSUME NEW i \in 1..n PROVE ReadingNext(done, value, parts, i)
    OBVIOUS
  <2>1. i \in 0..n /\ i # 0
    OBVIOUS
  <2>2. done[i] = ReadingStep(done, value, parts, i)
    BY <1>7, <2>1
  <2> QED BY <2>1, <2>2 DEF ReadingStep, ReadingNext
<1> QED BY <1>1, <1>8, <1>9

\* What can be printed of some bytes.
PrintingStep(done, bytes, i) ==
  IF i = 0 THEN <<>>
  ELSE IF bytes[i] \in Letters THEN Append(done[i - 1], bytes[i]) ELSE done[i - 1]
PrintingTo(done, bytes, n) == done = [i \in 0..n |-> PrintingStep(done, bytes, i)]

PrintingNext(done, bytes, i) == done[i] = IF bytes[i] \in Letters THEN Append(done[i - 1], bytes[i]) ELSE done[i - 1]

LEMMA PrintingExists ==
  ASSUME NEW bytes
  PROVE  \A n \in Nat : \E done : PrintingTo(done, bytes, n)
<1> DEFINE S == {n \in Nat : \E done : PrintingTo(done, bytes, n)}
<1>1. 0 \in S
  <2> DEFINE zero == <<>>
             done == [i \in 0..0 |-> zero]
             next == [i \in 0..0 |-> PrintingStep(done, bytes, i)]
  <2>1. \A i \in 0..0 : PrintingStep(done, bytes, i) = zero
    <3> HIDE DEF done
    <3> QED BY DEF PrintingStep
  <2> HIDE DEF zero
  <2>2. done = next
    BY <2>1
  <2>3. PrintingTo(done, bytes, 0)
    BY <2>2 DEF PrintingTo
  <2> HIDE DEF done
  <2> QED BY <2>3
<1>2. ASSUME NEW n \in S PROVE n + 1 \in S
  <2>1. n \in Nat /\ n + 1 \in Nat
    OBVIOUS
  <2>2. PICK done : PrintingTo(done, bytes, n)
    OBVIOUS
  <2> HIDE DEF S
  <2> DEFINE last == PrintingStep(done, bytes, n + 1)
             Old == 0..n
             New == 0 .. n + 1
             more == [i \in New |-> IF i = n + 1 THEN last ELSE done[i]]
  <2>3. \A i \in Old : done[i] = PrintingStep(done, bytes, i)
    BY <2>2 DEF PrintingTo
  <2>4. /\ \A i \in Old : i \in New /\ i # n + 1
        /\ \A i \in New : i = n + 1 \/ i \in Old
        /\ \A i \in New : i # 0 => i - 1 \in Old
        /\ n + 1 \in New
    BY <2>1
  <2>5. /\ \A i \in Old : more[i] = done[i]
        /\ more[n + 1] = last
    BY <2>4
  <2>6. more = [i \in New |-> more[i]]
    OBVIOUS
  <2> HIDE DEF more, Old, New
  <2>7. \A i \in New : PrintingStep(more, bytes, i) = PrintingStep(done, bytes, i)
    <3> SUFFICES ASSUME NEW i \in New
                 PROVE  PrintingStep(more, bytes, i) = PrintingStep(done, bytes, i)
      OBVIOUS
    <3>1. CASE i = 0
      BY <3>1 DEF PrintingStep
    <3>2. CASE i # 0
      <4>1. more[i - 1] = done[i - 1]
        BY <2>4, <2>5, <3>2
      <4> QED BY <3>2, <4>1 DEF PrintingStep
    <3> QED BY <3>1, <3>2
  <2>8. \A i \in New : more[i] = PrintingStep(more, bytes, i)
    BY <2>3, <2>4, <2>5, <2>7
  <2> HIDE DEF last
  <2>9. more = [i \in New |-> PrintingStep(more, bytes, i)]
    BY <2>6, <2>8
  <2>10. PrintingTo(more, bytes, n + 1)
    BY <2>9 DEF PrintingTo, New
  <2> QED BY <2>1, <2>10 DEF S
<1>3. S = Nat
  <2> HIDE DEF S
  <2>1. S \subseteq Nat
    BY DEF S
  <2> QED BY <1>1, <1>2, <2>1, NatSet
<1> QED BY <1>3

LEMMA PrintingIs ==
  ASSUME NEW bytes, NEW n \in Nat, Len(bytes) = n
  PROVE  \E done : /\ Visible(bytes) = done[n]
                   /\ done[0] = <<>>
                   /\ \A i \in 1..n : PrintingNext(done, bytes, i)
<1> DEFINE Right(done) == done = [i \in 0..Len(bytes) |->
             IF i = 0 THEN <<>>
             ELSE IF bytes[i] \in Letters THEN Append(done[i - 1], bytes[i]) ELSE done[i - 1]]
           done == CHOOSE done : Right(done)
<1>1. Visible(bytes) = done[n]
  BY DEF Visible
<1>2. \A g : PrintingTo(g, bytes, n) <=> Right(g)
  BY DEF PrintingTo, PrintingStep
<1>3. \E g : PrintingTo(g, bytes, n)
  BY PrintingExists
<1>4. \E g : Right(g)
  <2> HIDE DEF Right
  <2> QED BY <1>2, <1>3
<1>5. Right(done)
  <2> HIDE DEF Right
  <2> QED BY <1>4
<1>6. PrintingTo(done, bytes, n)
  <2> HIDE DEF done, Right
  <2> QED BY <1>2, <1>5
<1> HIDE DEF done
<1>7. \A i \in 0..n : done[i] = PrintingStep(done, bytes, i)
  BY <1>6 DEF PrintingTo
<1>8. done[0] = <<>>
  <2>1. done[0] = PrintingStep(done, bytes, 0)
    BY <1>7
  <2> QED BY <2>1 DEF PrintingStep
<1>9. \A i \in 1..n : PrintingNext(done, bytes, i)
  <2> SUFFICES ASSUME NEW i \in 1..n PROVE PrintingNext(done, bytes, i)
    OBVIOUS
  <2>1. i \in 0..n /\ i # 0
    OBVIOUS
  <2>2. done[i] = PrintingStep(done, bytes, i)
    BY <1>7, <2>1
  <2> QED BY <2>1, <2>2 DEF PrintingStep, PrintingNext
<1> QED BY <1>1, <1>8, <1>9

\* Of letters before zeros the letters are visible.
Shown(text, bytes, m) ==
  /\ text \in Seq(Letters) /\ Len(text) = m /\ \A i \in 1..m : text[i] = bytes[i]

LEMMA VisibleIs ==
  ASSUME NEW bytes \in Seq(Nat), NEW m \in Nat, m <= Len(bytes),
         \A i \in 1..m : bytes[i] \in Letters,
         \A i \in 1..Len(bytes) : i > m => bytes[i] = 0
  PROVE  Shown(Visible(bytes), bytes, m)
<1> DEFINE z == Len(bytes)
<1>1. z \in Nat
  BY LenProperties
<1>2. PICK done : /\ Visible(bytes) = done[z] /\ done[0] = <<>>
                  /\ \A i \in 1..z : PrintingNext(done, bytes, i)
  BY <1>1, PrintingIs
<1>3. 0 \notin Letters
  BY DEF Letters, Space
<1> DEFINE Right(i) == /\ i <= m => Shown(done[i], bytes, i)
                       /\ i >= m => Shown(done[i], bytes, m)
           S == {i \in Nat : i <= z => Right(i)}
<1>4. 0 \in S
  <2>1. Shown(<<>>, bytes, 0)
    BY DEF Shown
  <2>2. 0 >= m => m = 0
    OBVIOUS
  <2>3. Right(0)
    BY <1>2, <2>1, <2>2
  <2> HIDE DEF Right
  <2> QED BY <2>3
<1>5. ASSUME NEW i \in S PROVE i + 1 \in S
  <2>1. i \in Nat /\ i + 1 \in Nat
    OBVIOUS
  <2> SUFFICES ASSUME i + 1 <= z PROVE Right(i + 1)
    BY <2>1
  <2>2. Right(i)
    BY <1>1, <2>1
  <2> DEFINE n == i + 1
  <2>3. n \in 1..z /\ n - 1 = i /\ n \in Nat
    BY <1>1, <2>1
  <2>4. done[n] = IF bytes[n] \in Letters THEN Append(done[i], bytes[n]) ELSE done[i]
    BY <1>2, <2>3 DEF PrintingNext
  <2> HIDE DEF n, S
  <2>5. CASE n <= m
    <3>1. bytes[n] \in Letters /\ i <= m
      BY <2>1, <2>3, <2>5
    <3> DEFINE old == done[i]
               more == Append(old, bytes[n])
    <3>2. old \in Seq(Letters) /\ Len(old) = i /\ \A j \in 1..i : old[j] = bytes[j]
      BY <2>2, <3>1 DEF Shown
    <3> HIDE DEF old
    <3>3. more \in Seq(Letters) /\ Len(more) = n /\ more[n] = bytes[n]
          /\ \A j \in 1..i : more[j] = old[j]
      BY <2>1, <2>3, <3>1, <3>2
    <3>4. \A j \in 1..n : j = n \/ j \in 1..i
      BY <2>1, <2>3
    <3>5. done[n] = more
      BY <2>4, <3>1 DEF old
    <3> HIDE DEF more
    <3>6. Shown(done[n], bytes, n)
      BY <3>2, <3>3, <3>4, <3>5 DEF Shown
    <3>7. n >= m => n = m
      BY <2>3, <2>5
    <3>8. Right(n)
      BY <3>6, <3>7
    <3> HIDE DEF Right
    <3> QED BY <3>8 DEF n
  <2>6. CASE n > m
    <3>1. bytes[n] = 0 /\ i >= m
      BY <1>1, <2>1, <2>3, <2>6
    <3>2. done[n] = done[i]
      BY <1>3, <2>4, <3>1
    <3>3. Shown(done[n], bytes, m)
      BY <2>2, <3>1, <3>2
    <3>4. ~(n <= m)
      BY <2>3, <2>6
    <3>5. Right(n)
      BY <3>3, <3>4
    <3> HIDE DEF Right
    <3> QED BY <3>5 DEF n
  <2>7. n <= m \/ n > m
    BY <2>3
  <2> QED BY <2>5, <2>6, <2>7
<1>6. S = Nat
  <2> HIDE DEF S
  <2>1. S \subseteq Nat
    BY DEF S
  <2> QED BY <1>4, <1>5, <2>1, NatSet
<1>7. Right(z)
  <2>1. z \in S /\ z <= z
    BY <1>1, <1>6
  <2> HIDE DEF Right
  <2> QED BY <2>1
<1> QED BY <1>2, <1>7

\* The greatest of some places.
LEMMA GreatestIs ==
  ASSUME NEW n \in Nat, NEW S \in SUBSET (1..n), S # {}
  PROVE  Max(S) \in S /\ \A y \in S : Max(S) >= y
<1> DEFINE T == {n - x : x \in S}
<1>1. T \subseteq Nat /\ T # {}
  <2>1. \A x \in S : n - x \in Nat
    <3> SUFFICES ASSUME NEW x \in S PROVE n - x \in Nat
      OBVIOUS
    <3>1. x \in 1..n
      OBVIOUS
    <3> QED BY <3>1
  <2>2. PICK x : x \in S
    OBVIOUS
  <2>3. n - x \in T
    BY <2>2
  <2> QED BY <2>1, <2>3
<1> HIDE DEF T
<1>2. Min(T) \in T /\ \A y \in T : Min(T) <= y
  BY <1>1, MinIs
<1>3. PICK x \in S : Min(T) = n - x
  BY <1>2 DEF T
<1>4. ASSUME NEW y \in S PROVE x >= y
  <2>1. n - y \in T
    BY DEF T
  <2>2. n - x <= n - y
    BY <1>2, <1>3, <2>1
  <2> QED BY <2>2
<1>5. \E z \in S : \A y \in S : z >= y
  BY <1>4
<1> QED BY <1>5 DEF Max

LEMMA SpanIs ==
  ASSUME NEW b \in Seq(Nat), NEW n \in Nat, NEW m \in Nat, n <= m, m <= Len(b)
  PROVE  /\ SubSeq(b, n + 1, m) \in Seq(Nat) /\ Len(SubSeq(b, n + 1, m)) = m - n
         /\ \A j \in 1 .. m - n : SubSeq(b, n + 1, m)[j] = b[n + j]
<1>1. Len(b) \in Nat
  BY LenProperties
<1> DEFINE s == SubSeq(b, n + 1, m)
<1>2. \A i \in n + 1 .. m : b[i] \in Nat
  BY <1>1, ElementOfSeq
<1>3. s \in Seq(Nat)
  BY <1>2, SubSeqProperties
<1>4. Len(s) = m - n
  BY <1>1
<1>5. ASSUME NEW j \in 1 .. m - n PROVE s[j] = b[n + j]
  BY <1>1, <1>4
<1> QED BY <1>3, <1>4, <1>5

\* Bytes without the blanks around them, when the first byte is not blank.
StrippedTo(bytes, some, e) ==
  /\ e \in 0..Len(bytes) /\ some \in Seq(Nat) /\ Len(some) = e
  /\ \A i \in 1..e : some[i] = bytes[i]
  /\ e < Len(bytes) => bytes[Len(bytes)] \in Blanks

LEMMA StrippedIs ==
  ASSUME NEW bytes \in Seq(Nat), bytes # <<>> => bytes[1] \notin Blanks
  PROVE  \E e : StrippedTo(bytes, Stripped(bytes), e)
<1> DEFINE z == Len(bytes)
           inner == {i \in DOMAIN bytes : bytes[i] \notin Blanks}
           some == Stripped(bytes)
<1>1. z \in Nat /\ DOMAIN bytes = 1..z
  BY LenProperties
<1>2. some = IF inner = {} THEN <<>> ELSE SubSeq(bytes, Min(inner), Max(inner))
  BY DEF Stripped
<1>3. inner \subseteq 1..z /\ inner \subseteq Nat
  BY <1>1
<1>4. \A i \in 1..z : i \notin inner => bytes[i] \in Blanks
  BY <1>1
<1>5. bytes # <<>> => 1 \in inner
  <2> SUFFICES ASSUME bytes # <<>> PROVE 1 \in inner
    OBVIOUS
  <2>1. z # 0
    BY <1>1, EmptySeq
  <2>2. 1 \in DOMAIN bytes
    BY <1>1, <2>1
  <2> QED BY <2>2
<1> HIDE DEF inner, some
<1>6. CASE bytes = <<>>
  <2>1. z = 0
    BY <1>6
  <2>2. inner = {}
    BY <1>3, <2>1
  <2>3. some \in Seq(Nat) /\ Len(some) = 0
    <3>1. <<>> \in Seq(Nat) /\ Len(<<>>) = 0
      OBVIOUS
    <3> QED BY <1>2, <2>2, <3>1
  <2>4. StrippedTo(bytes, some, 0)
    BY <2>1, <2>3 DEF StrippedTo
  <2> QED BY <2>4 DEF some
<1>7. CASE bytes # <<>>
  <2> DEFINE e == Max(inner)
  <2>1. Min(inner) = 1
    <3>1. Min(inner) \in inner /\ \A y \in inner : Min(inner) <= y
      BY <1>3, <1>5, <1>7, MinIs
    <3> DEFINE m == Min(inner)
    <3>2. m \in 1..z /\ m <= 1
      BY <1>3, <1>5, <1>7, <3>1
    <3> HIDE DEF m
    <3>3. m = 1
      BY <1>1, <3>2
    <3> QED BY <3>3 DEF m
  <2>2. e \in inner /\ \A y \in inner : e >= y
    BY <1>1, <1>3, <1>5, <1>7, GreatestIs
  <2> HIDE DEF e
  <2>3. e \in 1..z
    BY <1>3, <2>2
  <2>4. some = SubSeq(bytes, 1, e)
    BY <1>2, <1>5, <1>7, <2>1 DEF e
  <2>5. /\ SubSeq(bytes, 0 + 1, e) \in Seq(Nat) /\ Len(SubSeq(bytes, 0 + 1, e)) = e - 0
        /\ \A j \in 1 .. e - 0 : SubSeq(bytes, 0 + 1, e)[j] = bytes[0 + j]
    <3>1. 0 \in Nat /\ e \in Nat /\ 0 <= e /\ e <= Len(bytes)
      BY <1>1, <2>3
    <3> QED BY ONLY <3>1, bytes \in Seq(Nat), SpanIs
  <2>6. /\ some \in Seq(Nat) /\ Len(some) = e
        /\ \A j \in 1..e : some[j] = bytes[j]
    BY <1>1, <2>3, <2>4, <2>5
  <2>7. e < z => bytes[z] \in Blanks
    <3> SUFFICES ASSUME e < z PROVE bytes[z] \in Blanks
      OBVIOUS
    <3>1. z \in 1..z /\ z \notin inner
      BY <1>1, <2>2, <2>3
    <3> QED BY <1>4, <3>1
  <2>8. e \in 0..z
    BY <1>1, <2>3
  <2>9. StrippedTo(bytes, some, e)
    BY <2>6, <2>7, <2>8 DEF StrippedTo
  <2> QED BY <2>9 DEF some
<1> QED BY <1>6, <1>7

\* Of letters before zeros the letters are printed, but for spaces at the end.
LEMMA PrintableIs ==
  ASSUME NEW bytes \in Seq(Nat), NEW m \in Nat, m <= Len(bytes),
         \A i \in 1..m : bytes[i] \in Letters,
         \A i \in 1..Len(bytes) : i > m => bytes[i] = 0,
         m >= 1 => bytes[1] # Space
  PROVE  \E k \in 0..m : /\ Shown(Printable(bytes), bytes, k)
                         /\ (m >= 1 /\ bytes[m] # Space) => k = m
<1> DEFINE z == Len(bytes)
           some == Stripped(bytes)
<1>1. z \in Nat
  BY LenProperties
<1>2. 0 \notin Blanks /\ \A x \in Letters : x # Space => x \notin Blanks
  BY DEF Letters, Blanks, Space
<1>3. bytes # <<>> => bytes[1] \notin Blanks
  <2> SUFFICES ASSUME bytes # <<>> PROVE bytes[1] \notin Blanks
    OBVIOUS
  <2>1. z # 0
    BY <1>1, EmptySeq
  <2>2. 1 \in 1..z
    BY <1>1, <2>1
  <2>3. CASE m >= 1
    <3>1. 1 \in 1..m
      BY <2>3
    <3> QED BY <1>2, <2>3, <3>1
  <2>4. CASE ~(m >= 1)
    <3>1. 1 > m
      BY <2>4
    <3> QED BY <1>2, <2>2, <3>1
  <2> QED BY <2>3, <2>4
<1>4. PICK e : StrippedTo(bytes, some, e)
  BY <1>3, StrippedIs
<1> HIDE DEF some
<1>5. /\ e \in 0..z /\ some \in Seq(Nat) /\ Len(some) = e
      /\ \A i \in 1..e : some[i] = bytes[i]
      /\ e < z => bytes[z] \in Blanks
  BY <1>4 DEF StrippedTo
<1>6. m < z => e = z
  <2> SUFFICES ASSUME m < z PROVE e = z
    OBVIOUS
  <2>1. z \in 1..z /\ z > m
    BY <1>1
  <2>2. bytes[z] = 0
    BY <2>1
  <2> QED BY <1>1, <1>2, <1>5, <2>2
<1>7. (m = z /\ m >= 1 /\ bytes[m] # Space) => e = z
  <2> SUFFICES ASSUME m = z, m >= 1, bytes[m] # Space PROVE e = z
    OBVIOUS
  <2>1. m \in 1..m
    OBVIOUS
  <2>2. bytes[m] \notin Blanks
    BY <1>2, <2>1
  <2> QED BY <1>1, <1>5, <2>2
<1> DEFINE k == IF e >= m THEN m ELSE e
<1>8. k \in 0..m /\ k <= e /\ k \in Nat /\ (e = z => k = m) /\ (m < e => k = m) /\ (e <= m => k = e)
  BY <1>1, <1>5
<1> HIDE DEF k, z
<1>9. /\ \A i \in 1..k : some[i] \in Letters
      /\ \A i \in 1..Len(some) : i > k => some[i] = 0
  <2>1. ASSUME NEW i \in 1..k PROVE some[i] \in Letters
    <3>1. i \in 1..m /\ i \in 1..e
      BY <1>1, <1>5, <1>8
    <3> QED BY <1>5, <3>1
  <2>2. ASSUME NEW i \in 1..Len(some), i > k PROVE some[i] = 0
    <3>1. i \in 1..e
      BY <1>5
    <3>2. i > m /\ i \in 1..z
      BY <1>1, <1>5, <1>8, <2>2, <3>1
    <3> QED BY <1>5, <3>1, <3>2 DEF z
  <2> QED BY <2>1, <2>2
<1>10. Shown(Visible(some), some, k)
  BY <1>5, <1>8, <1>9, VisibleIs
<1> DEFINE x == Visible(some)
<1>11. Printable(bytes) = x
  BY DEF Printable, some
<1> HIDE DEF x
<1>12. Shown(x, bytes, k)
  <2>1. \A i \in 1..k : i \in 1..e
    BY <1>1, <1>5, <1>8
  <2> QED BY <1>5, <1>10, <2>1 DEF Shown, x
<1>13. (m >= 1 /\ bytes[m] # Space) => k = m
  <2>1. m < z \/ m = z
    BY <1>1 DEF z
  <2> QED BY <1>6, <1>7, <1>8, <2>1
<1> QED BY <1>8, <1>11, <1>12, <1>13

\* What is written up to a place is kept; beyond it there are zeros.
Kept(v, w, at) ==
  /\ w \in Seq(Nat) /\ Len(w) \in Nat /\ Len(w) >= Len(v)
  /\ \A x \in 1..Len(w) : x <= at => w[x] = IF x <= Len(v) THEN v[x] ELSE 0
ZerosFrom(v, at) == \A x \in 1..Len(v) : x > at => v[x] = 0

\* A part is in its place.
PlacedIn(w, at, part, code) ==
  /\ \/ EncodedPart(part) = <<>> /\ code = <<>>
     \/ EncodedPart(part) # <<>> /\ at + Len(code) <= Len(w) /\ Len(code) >= 1
  /\ \A k \in 1..PartLength(part) :
       at + k <= Len(w) => w[at + k] = IF k <= Len(code) THEN code[k] ELSE 0

LEMMA LengthIs ==
  ASSUME NEW part, GoodPart(part)
  PROVE  /\ PartLength(part) \in Nat /\ PartLength(part) >= 1
         /\ PartLength(part) >= Len(EncodedPart(part))
         /\ EncodedPart(part) # <<>> => PartLength(part) = Len(EncodedPart(part))
<1> DEFINE full == EncodedPart(part)
<1>1. PartKinds(part, full)
  BY KindIs
<1> HIDE DEF full
<1>2. CASE NumberPart(part, full)
  BY <1>2 DEF NumberPart, full
<1>3. CASE FixedPart(part, full)
  BY <1>3 DEF FixedPart, full
<1>4. CASE EmptyPart(part, full)
  <2>1. full = <<>> /\ PartLength(part) = 1
    BY <1>4 DEF EmptyPart
  <2>2. Len(full) = 0
    BY <2>1
  <2> QED BY <2>1, <2>2 DEF full
<1>5. CASE CountedPart(part, full)
  BY <1>5 DEF CountedPart, full
<1> QED BY <1>1, <1>2, <1>3, <1>4, <1>5 DEF PartKinds

\* One part more.
WroteOne(value, a, part, at, code, new) ==
  /\ new.at \in Nat /\ new.at = at + PartLength(part) /\ new.at >= a /\ at >= a /\ at \in Nat
  /\ Kept(value, new.value, at) /\ ZerosFrom(new.value, new.at)
  /\ PlacedIn(new.value, at, part, code)
  /\ code \in Seq(Nat) /\ Len(code) \in Nat /\ Len(code) <= Len(EncodedPart(part))
  /\ CodeIs(part, EncodedPart(part), Len(value) - at, code)
  /\ Len(value) <= a => Len(new.value) <= new.at /\ code = EncodedPart(part)

LEMMA WritesOne ==
  ASSUME NEW part, GoodPart(part), NEW done, NEW value \in Seq(Nat), done.value = value,
         NEW a \in Nat, done.at = a, ZerosFrom(value, a)
  PROVE  LET at == a + part.gap
         IN WroteOne(value, a, part, at, CutTo(Len(value) - at, part), WritePart(done, part))
<1> DEFINE at == a + part.gap
           full == EncodedPart(part)
           code == CutTo(Len(value) - at, part)
           w == Written(value, at, part)
           pl == PartLength(part)
           new == WritePart(done, part)
           room == Len(value) - at
<1>1. new.at = at + pl /\ new.value = w
  BY DEF WritePart
<1>2. at \in Nat /\ at >= a
  <2>1. part.gap \in Nat
    BY KindIs
  <2> DEFINE g == part.gap
  <2> HIDE DEF g
  <2>2. g \in Nat
    BY <2>1 DEF g
  <2>3. a + g \in Nat /\ a + g >= a
    BY <2>2
  <2> QED BY <2>3 DEF g
<1> HIDE DEF at
<1>3. Len(value) \in Nat /\ full \in Seq(Nat) /\ Len(full) \in Nat
  BY EncodedIs, LenProperties
<1>4. room \in Int
  BY <1>2, <1>3
<1>5. /\ CodeIs(part, full, room, code) /\ code \in Seq(Nat) /\ Len(code) \in Nat
      /\ Len(code) <= Len(full)
  <2> HIDE DEF room
  <2>1. CutTo(room, part) = code
    BY DEF room
  <2> QED BY <1>4, <2>1, CutIs
<1>6. pl \in Nat /\ pl >= 1 /\ pl >= Len(full) /\ (full # <<>> => pl = Len(full))
  BY LengthIs
<1>7. Len(value) <= a => code = full
  <2> SUFFICES ASSUME Len(value) <= a PROVE code = full
    OBVIOUS
  <2>1. ~(room >= 1)
    BY <1>2, <1>3
  <2> HIDE DEF room
  <2> QED BY <1>5, <2>1 DEF CodeIs
<1>8. CASE full = <<>>
  <2>1. w = value
    BY <1>8 DEF Written
  <2>2. code = <<>>
    <3>1. Len(code) <= 0
      BY <1>5, <1>8
    <3>2. Len(code) = 0
      BY <1>5, <3>1
    <3> QED BY <1>5, <3>2, EmptySeq
  <2> HIDE DEF w, code, full, pl, new, room
  <2>3. Kept(value, w, at)
    BY <1>3, <2>1 DEF Kept
  <2>4. new.at \in Nat /\ new.at >= at /\ new.at >= a
    BY <1>1, <1>2, <1>6
  <2> DEFINE na == new.at
  <2> HIDE DEF na
  <2>5. na \in Nat /\ na >= a
    BY <2>4 DEF na
  <2>6. ZerosFrom(w, na)
    BY <1>3, <2>1, <2>5 DEF ZerosFrom
  <2>7. PlacedIn(w, at, part, code)
    <3> SUFFICES ASSUME NEW k \in 1..pl, at + k <= Len(w)
                 PROVE  w[at + k] = IF k <= Len(code) THEN code[k] ELSE 0
      BY <1>8, <2>2 DEF PlacedIn, full, pl
    <3>1. Len(code) = 0
      BY <2>2
    <3>2. at + k \in 1..Len(value) /\ at + k > a /\ ~(k <= Len(code))
      BY <1>2, <1>3, <1>6, <2>1, <3>1
    <3>3. value[at + k] = 0
      BY <3>2 DEF ZerosFrom
    <3> QED BY <2>1, <3>2, <3>3
  <2>8. Len(value) <= a => Len(w) <= na
    BY <1>3, <2>1, <2>5
  <2> QED BY <1>1, <1>2, <1>5, <1>7, <2>3, <2>4, <2>6, <2>7, <2>8
          DEF WroteOne, na, w, code, full, pl, new, room, at
<1>9. CASE full # <<>>
  <2>1. WrittenTo(value, at, code, w)
    BY <1>2, <1>9, WrittenIs
  <2>2. Len(code) >= 1
    <3>1. Len(full) # 0
      BY <1>3, <1>9, EmptySeq
    <3>2. code = full \/ (Len(code) = room /\ room >= 1)
      BY <1>5 DEF CodeIs
    <3> HIDE DEF code, full, room
    <3> QED BY <1>3, <1>5, <3>1, <3>2
  <2> HIDE DEF w, code, full, pl, new, room
  <2>3. /\ w \in Seq(Nat) /\ Len(w) \in Nat
        /\ Len(w) >= Len(value) /\ Len(w) >= at + Len(code)
        /\ (Len(w) = Len(value) \/ Len(w) = at + Len(code))
        /\ \A x \in 1..Len(w) :
             x <= at => w[x] = IF x <= Len(value) THEN value[x] ELSE 0
        /\ \A k \in 1..Len(code) : w[at + k] = code[k]
        /\ \A x \in 1..Len(w) : x > at + Len(code) => x <= Len(value) /\ w[x] = value[x]
    BY <2>1 DEF WrittenTo
  <2>4. Kept(value, w, at)
    BY <2>3 DEF Kept
  <2>5. new.at \in Nat /\ new.at >= at /\ new.at >= a /\ new.at = at + Len(full)
    BY <1>1, <1>2, <1>6, <1>9
  <2> DEFINE na == new.at
  <2> HIDE DEF na
  <2>6. na \in Nat /\ na >= a /\ na = at + Len(full) /\ na >= at + Len(code)
    <3>1. na \in Nat /\ na >= a /\ na = at + Len(full)
      BY <2>5 DEF na
    <3> QED BY <1>2, <1>3, <1>5, <3>1
  <2>7. \A x \in 1..Len(w) : x > at + Len(code) => w[x] = 0
    <3> SUFFICES ASSUME NEW x \in 1..Len(w), x > at + Len(code) PROVE w[x] = 0
      OBVIOUS
    <3>1. x <= Len(value) /\ w[x] = value[x]
      BY <2>3
    <3>2. x \in 1..Len(value) /\ x > a
      BY <1>2, <1>3, <1>5, <2>3, <3>1
    <3> QED BY <3>1, <3>2 DEF ZerosFrom
  <2>8. ZerosFrom(w, na)
    <3> SUFFICES ASSUME NEW x \in 1..Len(w), x > na PROVE w[x] = 0
      BY DEF ZerosFrom
    <3>1. x > at + Len(code)
      BY <1>2, <1>5, <2>3, <2>6
    <3> QED BY <2>7, <3>1
  <2>9. PlacedIn(w, at, part, code)
    <3> SUFFICES ASSUME NEW k \in 1..pl, at + k <= Len(w)
                 PROVE  w[at + k] = IF k <= Len(code) THEN code[k] ELSE 0
      BY <1>9, <2>2, <2>3 DEF PlacedIn, full, pl
    <3>1. CASE k <= Len(code)
      <4>1. k \in 1..Len(code)
        BY <1>5, <1>6, <3>1
      <4> QED BY <2>3, <3>1, <4>1
    <3>2. CASE ~(k <= Len(code))
      <4>1. at + k \in 1..Len(w) /\ at + k > at + Len(code)
        BY <1>2, <1>5, <1>6, <2>3, <3>2
      <4> QED BY <2>7, <3>2, <4>1
    <3> QED BY <3>1, <3>2
  <2>10. Len(value) <= a => Len(w) <= na
    BY <1>2, <1>3, <1>5, <2>3, <2>6
  <2> QED BY <1>1, <1>2, <1>5, <1>7, <2>4, <2>5, <2>8, <2>9, <2>10
          DEF WroteOne, na, w, code, full, pl, new, room, at
<1> QED BY <1>8, <1>9

LEMMA StaysPlaced ==
  ASSUME NEW part, GoodPart(part), NEW code \in Seq(Nat), NEW at \in Nat, NEW b \in Nat,
         NEW v \in Seq(Nat), NEW w, PlacedIn(v, at, part, code), Kept(v, w, b),
         at + PartLength(part) <= b
  PROVE  PlacedIn(w, at, part, code)
<1> DEFINE pl == PartLength(part)
           full == EncodedPart(part)
<1>1. pl \in Nat
  BY LengthIs
<1>2. Len(v) \in Nat /\ Len(code) \in Nat
  BY LenProperties
<1>3. /\ w \in Seq(Nat) /\ Len(w) \in Nat /\ Len(w) >= Len(v)
      /\ \A x \in 1..Len(w) : x <= b => w[x] = IF x <= Len(v) THEN v[x] ELSE 0
  BY DEF Kept
<1>4. /\ \/ full = <<>> /\ code = <<>>
         \/ full # <<>> /\ at + Len(code) <= Len(v) /\ Len(code) >= 1
      /\ \A k \in 1..pl : at + k <= Len(v) => v[at + k] = IF k <= Len(code) THEN code[k] ELSE 0
  BY DEF PlacedIn
<1> HIDE DEF pl, full
<1>5. ASSUME NEW k \in 1..pl, at + k <= Len(w)
      PROVE  w[at + k] = IF k <= Len(code) THEN code[k] ELSE 0
  <2>1. at + k \in 1..Len(w) /\ at + k <= b
    BY <1>1, <1>3, <1>5 DEF pl
  <2>2. w[at + k] = IF at + k <= Len(v) THEN v[at + k] ELSE 0
    BY <1>3, <2>1
  <2>3. CASE at + k <= Len(v)
    BY <1>4, <2>2, <2>3
  <2>4. CASE ~(at + k <= Len(v))
    <3>1. ~(k <= Len(code))
      <4>1. CASE code = <<>>
        <5>1. Len(code) = 0
          BY <4>1
        <5> QED BY <1>1, <5>1
      <4>2. CASE at + Len(code) <= Len(v)
        BY <1>1, <1>2, <2>4, <4>2
      <4> QED BY <1>4, <4>1, <4>2
    <3> QED BY <2>2, <2>4, <3>1
  <2> QED BY <2>3, <2>4
<1>6. \/ full = <<>> /\ code = <<>>
      \/ full # <<>> /\ at + Len(code) <= Len(w) /\ Len(code) >= 1
  BY <1>2, <1>3, <1>4
<1> QED BY <1>5, <1>6 DEF PlacedIn, pl, full

(***************************************************************************)
(* All parts of a layout are in their places, and one after the other.     *)
(***************************************************************************)
StartOf(done, parts, j) == done[j - 1].at + parts[j].gap

InTurn(done, parts, j) ==
  /\ done[j - 1].at \in Nat /\ StartOf(done, parts, j) \in Nat
  /\ StartOf(done, parts, j) >= done[j - 1].at
  /\ done[j].at \in Nat /\ done[j].at = StartOf(done, parts, j) + PartLength(parts[j])

CodeFor(part, code, whole) ==
  /\ code \in Seq(Nat) /\ Len(code) \in Nat /\ Len(code) <= Len(EncodedPart(part))
  /\ \E room \in Int : CodeIs(part, EncodedPart(part), room, code)
  /\ HasLengthByte(part) /\ whole => code = EncodedPart(part)

PartIn(w, done, parts, j) ==
  \E code \in Seq(Nat) :
    /\ PlacedIn(w, StartOf(done, parts, j), parts[j], code)
    /\ CodeFor(parts[j], code, j < Len(parts))

WriteInv(done, layout, i) ==
  /\ done[i].at \in Nat /\ done[i].value \in Seq(Nat)
  /\ ZerosFrom(done[i].value, done[i].at)
  /\ layout.length = 0 => Len(done[i].value) <= done[i].at
  /\ \A j \in 1..i : /\ InTurn(done, layout.parts, j) /\ done[j].at <= done[i].at
                     /\ PartIn(done[i].value, done, layout.parts, j)

LEMMA LayoutIs ==
  ASSUME NEW layout \in Layouts
  PROVE  /\ layout.length \in Nat /\ Len(layout.parts) \in Nat
         /\ DOMAIN layout.parts = 1..Len(layout.parts)
         /\ \A i \in 1..Len(layout.parts) : GoodPart(layout.parts[i])
         /\ layout.length > 0 =>
              \A i \in 1..Len(layout.parts) : i < Len(layout.parts) => ~HasLengthByte(layout.parts[i])
<1> DEFINE p == layout.parts
           n == Len(p)
           l == layout.length
<1>1. /\ l \in Nat /\ p \in Seq(Range(p))
      /\ \A i \in 1..n : GoodPart(p[i])
      /\ l > 0 => \A i \in 1..(n - 1) : ~HasLengthByte(p[i])
  BY LayoutAssumption
<1> HIDE DEF p, l
<1>2. n \in Nat /\ DOMAIN p = 1..n
  BY <1>1, LenProperties
<1>3. l > 0 => \A i \in 1..n : i < n => ~HasLengthByte(p[i])
  <2> HIDE DEF n
  <2> QED BY <1>1, <1>2
<1> QED BY <1>1, <1>2, <1>3 DEF p, n, l

LEMMA WriteStep ==
  ASSUME NEW layout \in Layouts, NEW done, NEW i \in Nat, i + 1 <= Len(layout.parts),
         ComposeNext(done, layout, i + 1), WriteInv(done, layout, i)
  PROVE  WriteInv(done, layout, i + 1)
<1> DEFINE p == layout.parts
           n == i + 1
           part == p[n]
           value == done[i].value
           a == done[i].at
           at == StartOf(done, p, n)
           code == CutTo(Len(value) - at, part)
           full == EncodedPart(part)
           new == done[n]
           N == Len(p)
<1>1. /\ N \in Nat /\ n \in 1..N /\ GoodPart(part) /\ n \in Nat /\ n - 1 = i
      /\ layout.length \in Nat
      /\ layout.length > 0 => (n < N => ~HasLengthByte(part))
  BY LayoutIs
<1>2. /\ a \in Nat /\ value \in Seq(Nat) /\ ZerosFrom(value, a)
      /\ layout.length = 0 => Len(value) <= a
      /\ \A j \in 1..i : /\ InTurn(done, p, j) /\ done[j].at <= a
                         /\ PartIn(value, done, p, j)
  BY DEF WriteInv
<1>3. new = WritePart(done[i], part)
  BY <1>1 DEF ComposeNext
<1>4. at = a + part.gap
  BY <1>1 DEF StartOf
<1> HIDE DEF a, value, part, new, at, p, N
<1>5. WroteOne(value, a, part, at, code, new)
  <2> DEFINE d == done[i]
  <2>1. d.value = value /\ d.at = a
    BY DEF value, a
  <2> HIDE DEF d
  <2>2. LET t == a + part.gap
        IN WroteOne(value, a, part, t, CutTo(Len(value) - t, part), WritePart(d, part))
    BY <1>1, <1>2, <2>1, WritesOne
  <2> QED BY <1>3, <1>4, <2>2 DEF d
<1> HIDE DEF code, full
<1>6. /\ new.at \in Nat /\ new.at = at + PartLength(part) /\ new.at >= a /\ at >= a /\ at \in Nat
      /\ Kept(value, new.value, at) /\ ZerosFrom(new.value, new.at)
      /\ PlacedIn(new.value, at, part, code)
      /\ code \in Seq(Nat) /\ Len(code) \in Nat /\ Len(code) <= Len(full)
      /\ CodeIs(part, full, Len(value) - at, code)
      /\ Len(value) <= a => Len(new.value) <= new.at /\ code = full
  BY <1>5 DEF WroteOne, full
<1> DEFINE na == new.at
           nv == new.value
<1>7. na \in Nat /\ na >= a /\ nv \in Seq(Nat)
  BY <1>6 DEF Kept
<1>8. CodeFor(part, code, n < N)
  <2>1. Len(value) - at \in Int
    <3>1. Len(value) \in Nat
      BY <1>2, LenProperties
    <3> QED BY <1>6, <3>1
  <2>2. HasLengthByte(part) /\ n < N => code = full
    <3> SUFFICES ASSUME HasLengthByte(part), n < N PROVE code = full
      OBVIOUS
    <3>1. layout.length = 0
      BY <1>1
    <3> QED BY <1>2, <1>6, <3>1
  <2> DEFINE room == Len(value) - at
  <2>3. room \in Int /\ CodeIs(part, full, room, code)
    BY <1>6, <2>1
  <2> HIDE DEF room
  <2> QED BY <1>6, <2>2, <2>3 DEF CodeFor, full
<1>9. PartIn(nv, done, p, n)
  <2>1. PlacedIn(nv, at, part, code) /\ code \in Seq(Nat)
    BY <1>6
  <2> QED BY <1>8, <2>1 DEF PartIn, at, part, N
<1>10. InTurn(done, p, n)
  <2>1. done[n - 1].at = a /\ done[n].at = na
    BY <1>1 DEF a, new
  <2> HIDE DEF na
  <2>2. StartOf(done, p, n) = at /\ p[n] = part
    BY DEF at, part
  <2>3. na = at + PartLength(part)
    BY <1>6 DEF na
  <2> HIDE DEF n
  <2> QED BY <1>2, <1>6, <1>7, <2>1, <2>2, <2>3 DEF InTurn
<1>11. ASSUME NEW j \in 1..n
       PROVE  InTurn(done, p, j) /\ done[j].at <= na /\ PartIn(nv, done, p, j)
  <2>1. CASE j = n
    <3>1. done[j].at = na
      BY <2>1 DEF new
    <3>2. na <= na
      BY <1>7
    <3> QED BY <1>9, <1>10, <2>1, <3>1, <3>2
  <2>2. CASE j # n
    <3>1. j \in 1..i
      BY <1>1, <2>2
    <3>2. InTurn(done, p, j) /\ done[j].at <= a /\ PartIn(value, done, p, j)
      BY <1>2, <3>1
    <3> DEFINE s == StartOf(done, p, j)
               q == p[j]
               z == done[j].at
    <3>3. s \in Nat /\ z \in Nat /\ z = s + PartLength(q) /\ z <= a
      BY <3>2 DEF InTurn
    <3>4. GoodPart(q)
      <4>1. j \in 1..Len(layout.parts)
        BY <1>1, <3>1 DEF N, p
      <4> QED BY <4>1, LayoutIs DEF p
    <3>5. PICK c \in Seq(Nat) : PlacedIn(value, s, q, c) /\ CodeFor(q, c, j < Len(p))
      BY <3>2 DEF PartIn
    <3> HIDE DEF s, q, z, na, nv
    <3>6. s + PartLength(q) <= at
      BY <1>2, <1>6, <3>3
    <3>7. Kept(value, nv, at)
      BY <1>6 DEF nv
    <3>8. PlacedIn(nv, s, q, c)
      BY <1>2, <1>6, <3>3, <3>4, <3>5, <3>6, <3>7, StaysPlaced
    <3>9. PartIn(nv, done, p, j)
      BY <3>5, <3>8 DEF PartIn, s, q
    <3>10. z <= na
      BY <1>2, <1>7, <3>3
    <3> QED BY <3>2, <3>9, <3>10 DEF z
  <2> QED BY <2>1, <2>2
<1>12. layout.length = 0 => Len(nv) <= na
  BY <1>2, <1>6
<1>13. ZerosFrom(nv, na)
  BY <1>6
<1> HIDE DEF na, nv
<1>14. /\ done[n].at = na /\ done[n].value = nv
  BY DEF na, nv, new
<1> HIDE DEF n
<1>15. WriteInv(done, layout, n)
  BY <1>7, <1>11, <1>12, <1>13, <1>14 DEF WriteInv, p
<1> QED BY <1>15 DEF n

LEMMA AllWritten ==
  ASSUME NEW layout \in Layouts
  PROVE  \E done : /\ done[Len(layout.parts)].value = Composed(layout)
                   /\ done[0].at = 0
                   /\ WriteInv(done, layout, Len(layout.parts))
<1> DEFINE N == Len(layout.parts)
<1>1. N \in Nat /\ layout.length \in Nat
  BY LayoutIs
<1> DEFINE zeros == Zeros(layout.length)
<1>2. PICK done : /\ Composed(layout) = done[N].value
                  /\ done[0] = [at |-> 0, value |-> zeros]
                  /\ \A i \in 1..N : ComposeNext(done, layout, i)
  <2>1. N = N
    OBVIOUS
  <2> QED BY <1>1, ComposeIs
<1> DEFINE S == {i \in Nat : i <= N => WriteInv(done, layout, i)}
<1>3. 0 \in S
  <2> DEFINE l == layout.length
  <2>1. zeros \in Seq(Nat) /\ Len(zeros) = l /\ \A x \in 1..l : zeros[x] = 0
    BY <1>1, ZerosAre
  <2>2. done[0].at = 0 /\ done[0].value = zeros
    BY <1>2
  <2> HIDE DEF zeros
  <2>3. ZerosFrom(zeros, 0)
    BY <2>1 DEF ZerosFrom
  <2>4. l = 0 => Len(zeros) <= 0
    BY <2>1
  <2>5. WriteInv(done, layout, 0)
    <3>1. \A j \in 1..0 : FALSE
      OBVIOUS
    <3> QED BY <2>1, <2>2, <2>3, <2>4, <3>1 DEF WriteInv
  <2> QED BY <2>5
<1>4. ASSUME NEW i \in S PROVE i + 1 \in S
  <2>1. i \in Nat /\ i + 1 \in Nat
    OBVIOUS
  <2> SUFFICES ASSUME i + 1 <= N PROVE WriteInv(done, layout, i + 1)
    BY <2>1
  <2>2. WriteInv(done, layout, i) /\ i + 1 \in 1..N
    BY <1>1, <2>1
  <2>3. ComposeNext(done, layout, i + 1)
    BY <1>2, <2>2
  <2> HIDE DEF S, zeros
  <2> QED BY <2>1, <2>2, <2>3, WriteStep
<1>5. S = Nat
  <2> HIDE DEF S
  <2>1. S \subseteq Nat
    BY DEF S
  <2> QED BY <1>3, <1>4, <2>1, NatSet
<1>6. WriteInv(done, layout, N)
  BY <1>1, <1>5
<1>7. done[0].at = 0
  BY <1>2
<1> QED BY <1>2, <1>6, <1>7

(***************************************************************************)
(* One part is read where it was written.                                  *)
(***************************************************************************)
LEMMA MinTwo ==
  ASSUME NEW a \in Nat, NEW b \in Nat
  PROVE  /\ Min({a, b}) \in Nat /\ Min({a, b}) <= a /\ Min({a, b}) <= b
         /\ (Min({a, b}) = a \/ Min({a, b}) = b)
<1> DEFINE S == {a, b}
<1>1. S \subseteq Nat /\ S # {}
  OBVIOUS
<1>2. \A y \in S : y = a \/ y = b
  OBVIOUS
<1>3. a \in S /\ b \in S
  OBVIOUS
<1> HIDE DEF S
<1>4. Min(S) \in S /\ \A y \in S : Min(S) <= y
  BY <1>1, MinIs
<1> QED BY <1>1, <1>2, <1>3, <1>4 DEF S

\* Of which text a text is the beginning.
Begins(s, t) == IsPrefix(s, t)

LEMMA BeginsIs ==
  ASSUME NEW bytes, NEW t \in Seq(Letters), NEW m \in Nat, m <= Len(t), NEW s, Shown(s, bytes, m),
         \A i \in 1..m : bytes[i] = t[i]
  PROVE  Begins(s, t) /\ (m = Len(t) => s = t)
<1>1. s \in Seq(Letters) /\ Len(s) = m /\ \A i \in 1..m : s[i] = t[i]
  BY DEF Shown
<1>2. Len(t) \in Nat
  BY LenProperties
<1>3. SubSeq(s, 1, m) = s
  BY <1>1
<1>4. SubSeq(t, 1, m) = s
  <2> DEFINE u == SubSeq(t, 1, m)
  <2>1. \A i \in 1..m : t[i] \in Letters
    BY <1>2, ElementOfSeq
  <2>2. u \in Seq(Letters)
    BY <2>1, SubSeqProperties
  <2>3. Len(u) = m /\ \A i \in 1..m : u[i] = t[i]
    BY <1>2
  <2> HIDE DEF u
  <2>4. u = s
    BY <1>1, <2>2, <2>3, SeqEqual
  <2> QED BY <2>4 DEF u
<1>5. Begins(s, t)
  BY <1>1, <1>3, <1>4 DEF Begins, IsPrefix
<1>6. m = Len(t) => s = t
  BY <1>1, SeqEqual
<1> QED BY <1>5, <1>6

\* Which bytes are read, and where the next part begins.
ReadOne(done, r, part, s, e, bytes) ==
  /\ r.at = e
  /\ r.read = Append(done.read, IF part.type = Str THEN Printable(bytes)
                                ELSE Decoded(bytes, part.signed))

LEMMA ReadCounted ==
  ASSUME NEW done, NEW value, NEW part, NEW at, at = done.at + part.gap,
         ~(at >= Len(value)), HasLengthByte(part), NEW n, n = value[at + 1]
  PROVE  ReadOne(done, ReadPart(done, value, part), part, at + 1, (at + 1) + n,
                 SubSeq(value, (at + 1) + 1, Min({(at + 1) + n, Len(value)})))
<1> DEFINE r == ReadPart(done, value, part)
           bytes == SubSeq(value, (at + 1) + 1, Min({(at + 1) + n, Len(value)}))
<1>1. r = [at |-> (at + 1) + n,
           read |-> Append(done.read, IF part.type = Str THEN Printable(bytes)
                                      ELSE Decoded(bytes, part.signed))]
  BY DEF ReadPart
<1> HIDE DEF r, bytes
<1>2. ReadOne(done, r, part, at + 1, (at + 1) + n, bytes)
  BY <1>1 DEF ReadOne
<1> QED BY <1>2 DEF r, bytes

LEMMA ReadPlain ==
  ASSUME NEW done, NEW value, NEW part, NEW at \in Nat, at = done.at + part.gap,
         ~(at >= Len(value)), ~HasLengthByte(part), NEW n,
         n = IF part.type = Str THEN part.length ELSE Width(part.type)
  PROVE  ReadOne(done, ReadPart(done, value, part), part, at, at + n,
                 SubSeq(value, at + 1, Min({at + n, Len(value)})))
<1> DEFINE r == ReadPart(done, value, part)
           bytes == SubSeq(value, at + 1, Min({at + n, Len(value)}))
           other == SubSeq(value, (at + 0) + 1, Min({(at + 0) + n, Len(value)}))
<1>1. r = [at |-> (at + 0) + n,
           read |-> Append(done.read, IF part.type = Str THEN Printable(other)
                                      ELSE Decoded(other, part.signed))]
  BY DEF ReadPart
<1>2. at + 0 = at
  OBVIOUS
<1> DEFINE b == at + 0
<1>3. other = bytes /\ (at + 0) + n = at + n
  BY <1>2
<1> HIDE DEF r, bytes, other
<1>4. r = [at |-> at + n,
           read |-> Append(done.read, IF part.type = Str THEN Printable(bytes)
                                      ELSE Decoded(bytes, part.signed))]
  BY <1>1, <1>3
<1>5. ReadOne(done, r, part, at, at + n, bytes)
  BY <1>4 DEF ReadOne
<1> QED BY <1>5 DEF r, bytes

\* A part is read as it was written; of a text that was cut, what is there.
ReadRight(done, r, part, code, at, x) ==
  /\ r.read = Append(done.read, x)
  /\ part.type = Str => Begins(x, part.value)
  /\ part.type # Str => x = part.value
  /\ HasLengthByte(part) /\ code = EncodedPart(part) => x = part.value
  /\ ~HasLengthByte(part) \/ code = EncodedPart(part) => r.at = at + PartLength(part)

Placing(part, value, at, code, full) ==
  /\ value \in Seq(Nat) /\ at \in Nat /\ at < Len(value) /\ full = EncodedPart(part)
  /\ PlacedIn(value, at, part, code)
  /\ code \in Seq(Nat) /\ Len(code) \in Nat
  /\ \E room \in Int : CodeIs(part, full, room, code)

LEMMA NumberRead ==
  ASSUME NEW done, NEW value, NEW part, NEW at, at = done.at + part.gap,
         NEW code, NEW full, NumberPart(part, full), Placing(part, value, at, code, full)
  PROVE  \E x : ReadRight(done, ReadPart(done, value, part), part, code, at, x)
<1> DEFINE r == ReadPart(done, value, part)
           n == Width(part.type)
           bytes == SubSeq(value, at + 1, Min({at + n, Len(value)}))
           pl == PartLength(part)
<1>1. /\ value \in Seq(Nat) /\ at \in Nat /\ at < Len(value) /\ full = EncodedPart(part)
      /\ PlacedIn(value, at, part, code)
      /\ code \in Seq(Nat) /\ Len(code) \in Nat
      /\ \E room \in Int : CodeIs(part, full, room, code)
  BY DEF Placing
<1>2. /\ part.type # Str /\ ~HasLengthByte(part) /\ full \in Seq(Nat) /\ Len(full) = n
      /\ pl = Len(full) /\ n \in Nat /\ n >= 1 /\ Decoded(full, part.signed) = part.value
  BY DEF NumberPart
<1>3. Len(value) \in Nat
  BY <1>1, LenProperties
<1>4. code = full
  BY <1>1, <1>2 DEF CodeIs
<1>5. full # <<>>
  <2>1. Len(full) # 0
    BY <1>2
  <2> QED BY <2>1
<1>6. /\ at + Len(full) <= Len(value)
      /\ \A k \in 1..pl : at + k <= Len(value) =>
                            value[at + k] = IF k <= Len(full) THEN full[k] ELSE 0
  BY <1>1, <1>4, <1>5 DEF PlacedIn
<1>7. ReadOne(done, r, part, at, at + n, bytes)
  <2>1. n = IF part.type = Str THEN part.length ELSE Width(part.type)
    BY <1>2
  <2>2. ~(at >= Len(value))
    BY <1>1, <1>3
  <2> QED BY <1>1, <1>2, <2>1, <2>2, ReadPlain
<1> HIDE DEF n, pl, r
<1>8. bytes = full
  <2> DEFINE m == Min({at + n, Len(value)})
  <2>1. m = at + n
    <3> DEFINE e == at + n
    <3>1. e \in Nat /\ e <= Len(value)
      BY <1>1, <1>2, <1>6
    <3> HIDE DEF e
    <3>2. Min({e, Len(value)}) = e
      BY <1>3, <3>1, MinTwo
    <3> QED BY <3>2 DEF e
  <2> HIDE DEF m
  <2>2. \A k \in 1..Len(full) : value[at + k] = full[k]
    BY <1>1, <1>2, <1>3, <1>6
  <2>3. m = at + Len(full) /\ m <= Len(value)
    BY <1>2, <1>6, <2>1
  <2>4. SubSeq(value, at + 1, m) = full
    <3>1. value \in Seq(Nat) /\ full \in Seq(Nat) /\ at \in Nat
      BY <1>1, <1>2
    <3> HIDE DEF bytes
    <3> QED BY ONLY <2>2, <2>3, <3>1, PartIs
  <2> QED BY <2>4 DEF m
<1> HIDE DEF bytes
<1>9. r.at = at + n /\ r.read = Append(done.read, part.value)
  BY <1>2, <1>7, <1>8 DEF ReadOne
<1>10. ReadRight(done, r, part, code, at, part.value)
  <2>1. r.at = at + pl
    BY <1>2, <1>9
  <2> QED BY <1>2, <1>9, <2>1 DEF ReadRight, pl
<1> QED BY <1>10 DEF r

LEMMA FixedRead ==
  ASSUME NEW done, NEW value, NEW part, NEW at, at = done.at + part.gap,
         NEW code, NEW full, FixedPart(part, full), Placing(part, value, at, code, full)
  PROVE  \E x : ReadRight(done, ReadPart(done, value, part), part, code, at, x)
<1> DEFINE r == ReadPart(done, value, part)
           n == part.length
           m == Min({at + n, Len(value)})
           bytes == SubSeq(value, at + 1, m)
           pl == PartLength(part)
           text == part.value
<1>1. /\ value \in Seq(Nat) /\ at \in Nat /\ at < Len(value) /\ full = EncodedPart(part)
      /\ PlacedIn(value, at, part, code)
      /\ code \in Seq(Nat) /\ Len(code) \in Nat
      /\ \E room \in Int : CodeIs(part, full, room, code)
  BY DEF Placing
<1>2. /\ part.type = Str /\ ~HasLengthByte(part) /\ text \in Seq(Letters) /\ Bare(text)
      /\ full \in Seq(Nat) /\ Len(full) = n /\ pl = Len(full) /\ n \in Nat /\ n >= 1
      /\ \A i \in 1..Len(full) : full[i] = IF i <= Len(text) THEN text[i] ELSE 0
  BY DEF FixedPart
<1>3. Len(value) \in Nat /\ Len(text) \in Nat
  BY <1>1, <1>2, LenProperties
<1>4. Len(code) <= Len(full) /\ \A i \in 1..Len(code) : code[i] = full[i]
  <2>1. PICK room \in Int : CodeIs(part, full, room, code)
    BY <1>1
  <2>2. CASE code = full
    BY <1>2, <2>2
  <2>3. CASE code # full
    <3>1. room >= 1 /\ room < Len(full) /\ Len(code) = room /\ \A i \in 1..room : code[i] = full[i]
      BY <1>2, <2>1, <2>3 DEF CodeIs
    <3> QED BY <1>2, <3>1
  <2> QED BY <2>2, <2>3
<1>5. full # <<>>
  <2>1. Len(full) # 0
    BY <1>2
  <2> QED BY <2>1
<1>6. /\ at + Len(code) <= Len(value)
      /\ \A k \in 1..pl : at + k <= Len(value) =>
                            value[at + k] = IF k <= Len(code) THEN code[k] ELSE 0
  BY <1>1, <1>5 DEF PlacedIn
<1>7. ReadOne(done, r, part, at, at + n, bytes)
  <2>1. n = IF part.type = Str THEN part.length ELSE Width(part.type)
    BY <1>2
  <2>2. ~(at >= Len(value))
    BY <1>1, <1>3
  <2> QED BY <1>1, <1>2, <2>1, <2>2, ReadPlain
<1> HIDE DEF n, pl, r, text
<1>8. m \in Nat /\ at <= m /\ m <= Len(value) /\ m - at <= n /\ (m = at + n \/ m = Len(value))
  <2> DEFINE e == at + n
  <2>1. e \in Nat /\ e >= at
    BY <1>1, <1>2
  <2> HIDE DEF e
  <2>2. m \in Nat /\ m <= e /\ m <= Len(value) /\ (m = e \/ m = Len(value))
    BY <1>3, <2>1, MinTwo DEF e
  <2> HIDE DEF m
  <2>3. at <= m
    BY <1>1, <1>3, <2>1, <2>2
  <2>4. m - at <= n
    BY <1>1, <1>2, <2>2 DEF e
  <2> QED BY <2>2, <2>3, <2>4 DEF e
<1> HIDE DEF m
<1>9. /\ bytes \in Seq(Nat) /\ Len(bytes) = m - at
      /\ \A j \in 1 .. m - at : bytes[j] = value[at + j]
  BY <1>1, <1>8, SpanIs
<1> HIDE DEF bytes
\* What is there of the text.
<1> DEFINE k == Min({Len(code), Len(text)})
<1>10. k \in Nat /\ k <= Len(code) /\ k <= Len(text) /\ (k = Len(code) \/ k = Len(text))
  BY <1>1, <1>3, MinTwo
<1> HIDE DEF k
<1>11. Len(code) <= m - at
  BY <1>1, <1>2, <1>3, <1>4, <1>6, <1>8
<1>12. ASSUME NEW j \in 1 .. m - at
       PROVE  bytes[j] = IF j <= Len(code) THEN code[j] ELSE 0
  <2> DEFINE v == Len(value)
  <2>1. /\ at \in Nat /\ n \in Nat /\ m \in Nat /\ v \in Nat
        /\ m <= v /\ m - at <= n /\ pl = n
    BY <1>1, <1>2, <1>3, <1>8
  <2> HIDE DEF v
  <2>2. j \in 1..pl /\ at + j <= v
    BY ONLY <2>1, j \in 1 .. m - at
  <2>3. j \in 1..pl /\ at + j <= Len(value)
    BY ONLY <2>2 DEF v
  <2> QED BY <1>6, <1>9, <2>3
<1>13. ASSUME NEW j \in 1 .. m - at
       PROVE  bytes[j] = IF j <= k THEN text[j] ELSE 0
  <2>1. j \in Nat /\ j >= 1
    BY <1>1, <1>8
  <2>2. CASE j <= Len(code)
    <3>1. j \in 1..Len(code) /\ j \in 1..Len(full)
      BY <1>1, <1>2, <1>4, <2>1, <2>2
    <3>2. bytes[j] = IF j <= Len(text) THEN text[j] ELSE 0
      BY <1>2, <1>4, <1>12, <2>2, <3>1
    <3>3. j <= Len(text) <=> j <= k
      BY <1>1, <1>3, <1>10, <2>1, <2>2
    <3> QED BY <3>2, <3>3
  <2>3. CASE ~(j <= Len(code))
    <3>1. ~(j <= k)
      BY <1>1, <1>10, <2>1, <2>3
    <3> QED BY <1>12, <2>3, <3>1
  <2> QED BY <2>2, <2>3
<1>14. \A j \in 1..k : text[j] \in Letters
  BY <1>2, <1>3, <1>10, ElementOfSeq
<1>15. \A j \in 1..k : bytes[j] = text[j]
  <2> SUFFICES ASSUME NEW j \in 1..k PROVE bytes[j] = text[j]
    OBVIOUS
  <2>1. j \in 1 .. m - at /\ j <= k
    BY <1>1, <1>8, <1>10, <1>11
  <2> QED BY <1>13, <2>1
<1>16. k <= Len(bytes)
  BY <1>1, <1>8, <1>9, <1>10, <1>11
<1>17. \A j \in 1..Len(bytes) : j > k => bytes[j] = 0
  <2> SUFFICES ASSUME NEW j \in 1..Len(bytes), j > k PROVE bytes[j] = 0
    OBVIOUS
  <2>1. j \in 1 .. m - at /\ ~(j <= k)
    BY <1>9, <1>10
  <2> QED BY <1>13, <2>1
<1>18. \A j \in 1..k : bytes[j] \in Letters
  BY <1>14, <1>15
<1> DEFINE x == Printable(bytes)
<1>19. PICK o \in 0..k : Shown(x, bytes, o)
  <2>1. k >= 1 => bytes[1] # Space
    <3> SUFFICES ASSUME k >= 1 PROVE bytes[1] # Space
      OBVIOUS
    <3>1. text # <<>>
      <4>1. Len(text) # 0
        BY <1>3, <1>10
      <4> QED BY <4>1
    <3>2. 1 \in 1..k
      BY <1>10
    <3> QED BY <1>2, <1>15, <3>1, <3>2 DEF Bare
  <2> QED BY ONLY <1>9, <1>10, <1>16, <1>17, <1>18, <2>1, PrintableIs DEF x
<1> HIDE DEF x
<1>20. Begins(x, text)
  <2>1. o \in Nat /\ o <= Len(text) /\ o <= k
    BY <1>3, <1>10
  <2>2. \A i \in 1..o : bytes[i] = text[i]
    BY <1>10, <1>15, <2>1
  <2> QED BY <1>2, <1>19, <2>1, <2>2, BeginsIs
<1>21. r.at = at + pl /\ r.read = Append(done.read, x)
  BY <1>2, <1>7 DEF ReadOne, x
<1>22. ReadRight(done, r, part, code, at, x)
  BY <1>2, <1>20, <1>21 DEF ReadRight, pl, text
<1> QED BY <1>22 DEF r

LEMMA NothingRead ==
  ASSUME NEW done, NEW value, NEW part, NEW at, at = done.at + part.gap,
         NEW code, NEW full, EmptyPart(part, full), Placing(part, value, at, code, full)
  PROVE  \E x : ReadRight(done, ReadPart(done, value, part), part, code, at, x)
<1> DEFINE r == ReadPart(done, value, part)
           pl == PartLength(part)
<1>1. /\ value \in Seq(Nat) /\ at \in Nat /\ at < Len(value) /\ full = EncodedPart(part)
      /\ PlacedIn(value, at, part, code)
  BY DEF Placing
<1>2. /\ part.type = Str /\ HasLengthByte(part) /\ part.value = <<>> /\ full = <<>>
      /\ pl = 1
  BY DEF EmptyPart
<1>3. Len(value) \in Nat
  BY <1>1, LenProperties
<1>4. code = <<>>
  BY <1>1, <1>2 DEF PlacedIn
<1>5. value[at + 1] = 0
  <2>1. 1 \in 1..pl /\ at + 1 <= Len(value) /\ ~(1 <= Len(code))
    <3>1. Len(code) = 0
      BY <1>4
    <3> QED BY <1>1, <1>2, <1>3, <3>1
  <2> QED BY <1>1, <2>1 DEF PlacedIn
<1> DEFINE a == at + 1
           m == Min({a + 0, Len(value)})
           bytes == SubSeq(value, a + 1, m)
<1>6. ReadOne(done, r, part, a, a + 0, bytes)
  <2>1. ~(at >= Len(value))
    BY <1>1, <1>3
  <2> DEFINE n == value[at + 1]
  <2>2. n = value[at + 1] /\ n = 0
    BY <1>5
  <2> HIDE DEF n
  <2>3. ReadOne(done, r, part, at + 1, (at + 1) + n,
                SubSeq(value, (at + 1) + 1, Min({(at + 1) + n, Len(value)})))
    BY <1>2, <2>1, <2>2, ReadCounted
  <2> QED BY <2>2, <2>3
<1> HIDE DEF pl, r
<1>7. bytes \in Seq(Nat) /\ Len(bytes) = 0
  <2>1. a \in Nat /\ a <= Len(value) /\ a + 0 = a
    BY <1>1, <1>3
  <2> HIDE DEF a
  <2> DEFINE e == a + 0
  <2>2. e \in Nat /\ e = a
    BY <2>1
  <2>3. m = a
    <3> HIDE DEF e
    <3>1. Min({e, Len(value)}) = e
      BY <1>3, <2>1, <2>2, MinTwo
    <3> QED BY <2>2, <3>1 DEF e
  <2> HIDE DEF m, e
  <2>4. /\ SubSeq(value, a + 1, m) \in Seq(Nat) /\ Len(SubSeq(value, a + 1, m)) = m - a
    BY <1>1, <2>1, <2>3, SpanIs
  <2> QED BY <2>1, <2>3, <2>4
<1> HIDE DEF bytes
<1> DEFINE x == Printable(bytes)
<1>8. Shown(x, bytes, 0)
  <2>0. ~(0 >= 1) /\ \A o \in 0..0 : o = 0
    OBVIOUS
  <2>1. /\ \A i \in 1..0 : bytes[i] \in Letters
        /\ \A i \in 1..Len(bytes) : i > 0 => bytes[i] = 0
    BY <1>7
  <2>2. bytes \in Seq(Nat) /\ 0 \in Nat /\ 0 <= Len(bytes)
    BY <1>7
  <2> QED BY ONLY <2>0, <2>1, <2>2, PrintableIs DEF x
<1> HIDE DEF x
<1>9. x = <<>>
  BY <1>8, EmptySeq DEF Shown
<1>10. <<>> \in Seq(Letters) /\ Len(<<>>) = 0
  OBVIOUS
<1>11. Begins(x, <<>>)
  <2>1. 0 \in Nat /\ 0 <= Len(<<>>) /\ \A i \in 1..0 : bytes[i] = <<>>[i]
    BY <1>10
  <2> QED BY <1>8, <1>10, <2>1, BeginsIs
<1>12. r.at = at + pl /\ r.read = Append(done.read, x)
  <2>1. a + 0 = at + pl
    BY <1>1, <1>2
  <2> HIDE DEF a
  <2> QED BY <1>2, <1>6, <2>1 DEF ReadOne, x
<1>13. ReadRight(done, r, part, code, at, x)
  BY <1>2, <1>9, <1>11, <1>12 DEF ReadRight, pl
<1> QED BY <1>13 DEF r

LEMMA CountedRead ==
  ASSUME NEW done, NEW value, NEW part, NEW at, at = done.at + part.gap,
         NEW code, NEW full, CountedPart(part, full), Placing(part, value, at, code, full)
  PROVE  \E x : ReadRight(done, ReadPart(done, value, part), part, code, at, x)
<1> DEFINE r == ReadPart(done, value, part)
           pl == PartLength(part)
           text == part.value
<1>1. /\ value \in Seq(Nat) /\ at \in Nat /\ at < Len(value) /\ full = EncodedPart(part)
      /\ PlacedIn(value, at, part, code)
      /\ code \in Seq(Nat) /\ Len(code) \in Nat
      /\ \E room \in Int : CodeIs(part, full, room, code)
  BY DEF Placing
<1>2. /\ part.type = Str /\ HasLengthByte(part) /\ text \in Seq(Letters) /\ Bare(text)
      /\ full \in Seq(Nat) /\ Len(full) = Len(text) + 1 /\ pl = Len(full)
      /\ Len(text) \in Nat /\ Len(text) >= 1 /\ full[1] = Len(text)
      /\ \A i \in 1..Len(text) : full[1 + i] = text[i]
  BY DEF CountedPart
<1>3. Len(value) \in Nat
  BY <1>1, LenProperties
<1> DEFINE n == Len(code) - 1
<1>4. /\ n \in Nat /\ n <= Len(text) /\ code[1] = n /\ Len(code) >= 1 /\ Len(code) <= Len(full)
      /\ \A i \in 1..n : code[1 + i] = full[1 + i]
      /\ code = full => n = Len(text)
  <2>1. PICK room \in Int : CodeIs(part, full, room, code)
    BY <1>1
  <2>2. CASE code = full
    <3>1. n = Len(text)
      BY <1>2, <2>2
    <3>2. code[1] = n /\ \A i \in 1..n : code[1 + i] = full[1 + i]
      BY <1>2, <2>2, <3>1
    <3>3. Len(code) = Len(text) + 1
      BY <1>2, <2>2
    <3> HIDE DEF n, text
    <3> QED BY <1>2, <2>2, <3>1, <3>2, <3>3
  <2>3. CASE code # full
    <3>1. /\ room >= 1 /\ room < Len(full) /\ Len(code) = room /\ code[1] = room - 1
          /\ \A i \in 1 .. room - 1 : code[1 + i] = full[1 + i]
      BY <1>2, <2>1, <2>3 DEF CodeIs
    <3>2. n = room - 1
      BY <3>1
    <3> HIDE DEF n
    <3> QED BY <1>2, <2>3, <3>1, <3>2
  <2> QED BY <2>2, <2>3
<1>5. full # <<>>
  <2>1. Len(full) # 0
    BY <1>2
  <2> QED BY <2>1
<1>6. /\ at + Len(code) <= Len(value)
      /\ \A k \in 1..pl : at + k <= Len(value) =>
                            value[at + k] = IF k <= Len(code) THEN code[k] ELSE 0
  BY <1>1, <1>5 DEF PlacedIn
<1>7. Len(code) = n + 1
  BY <1>1
<1> HIDE DEF n, pl
<1>8. \A k \in 1..Len(code) : value[at + k] = code[k]
  <2> SUFFICES ASSUME NEW k \in 1..Len(code) PROVE value[at + k] = code[k]
    OBVIOUS
  <2>1. k \in 1..pl /\ at + k <= Len(value) /\ k <= Len(code)
    <3>1. k \in Nat /\ k >= 1 /\ k <= Len(code)
      BY <1>1
    <3> DEFINE c == Len(code)
               f == Len(full)
               v == Len(value)
    <3>2. c \in Nat /\ f \in Nat /\ v \in Nat /\ c <= f /\ at + c <= v /\ pl = f
      BY <1>1, <1>2, <1>3, <1>4, <1>6 DEF pl
    <3> HIDE DEF c, f, v
    <3>3. k \in 1..pl /\ at + k <= v
      BY <1>1, <3>1, <3>2 DEF c
    <3> QED BY <3>1, <3>3 DEF v
  <2> QED BY <1>6, <2>1
<1>9. value[at + 1] = n
  <2>1. 1 \in 1..Len(code)
    BY <1>1, <1>4
  <2> QED BY <1>4, <1>8, <2>1
<1> DEFINE a == at + 1
           e == a + n
           m == Min({e, Len(value)})
           bytes == SubSeq(value, a + 1, m)
<1>10. ReadOne(done, r, part, a, e, bytes)
  <2>1. ~(at >= Len(value))
    BY <1>1, <1>3
  <2>2. n = value[at + 1]
    BY <1>9
  <2>3. ReadOne(done, r, part, at + 1, (at + 1) + n,
                SubSeq(value, (at + 1) + 1, Min({(at + 1) + n, Len(value)})))
    BY <1>2, <2>1, <2>2, ReadCounted
  <2> QED BY <2>3
<1> HIDE DEF r
<1>11. a \in Nat /\ e \in Nat /\ e = a + n /\ a <= e /\ e <= Len(value) /\ e = at + Len(code)
  <2> DEFINE c == Len(code)
             v == Len(value)
  <2>1. at \in Nat /\ n \in Nat /\ v \in Nat /\ c = n + 1 /\ at + c <= v
    BY <1>1, <1>3, <1>4, <1>6, <1>7
  <2> HIDE DEF c, v
  <2>2. a \in Nat /\ e \in Nat /\ e = a + n /\ a <= e /\ e <= v /\ e = at + c
    BY ONLY <2>1 DEF a, e
  <2> QED BY ONLY <2>2 DEF c, v
<1>12. m = e
  <2> HIDE DEF e
  <2> QED BY <1>3, <1>11, MinTwo
<1>13. /\ bytes \in Seq(Nat) /\ Len(bytes) = n
       /\ \A j \in 1..n : bytes[j] = value[a + j]
  <2> HIDE DEF m, e
  <2>1. m \in Nat /\ a <= m /\ m <= Len(value) /\ m - a = n
    BY <1>4, <1>11, <1>12
  <2> HIDE DEF a
  <2>2. /\ bytes \in Seq(Nat) /\ Len(bytes) = m - a
        /\ \A j \in 1 .. m - a : bytes[j] = value[a + j]
    BY <1>1, <1>11, <2>1, SpanIs
  <2> QED BY <2>1, <2>2
<1> HIDE DEF bytes
<1>14. ASSUME NEW j \in 1..n PROVE bytes[j] = text[j]
  <2>1. j \in 1..Len(text) /\ 1 + j \in 1..Len(code) /\ a + j = at + (1 + j)
    <3>1. j \in Nat /\ j >= 1 /\ j <= n
      BY <1>4
    <3>2. j \in 1..Len(text)
      BY <1>2, <1>4, <3>1
    <3>3. 1 + j \in 1..Len(code)
      BY <1>1, <1>4, <1>7, <3>1
    <3>4. a + j = at + (1 + j)
      BY <1>1, <3>1
    <3> QED BY <3>2, <3>3, <3>4
  <2>2. bytes[j] = value[at + (1 + j)]
    <3> HIDE DEF a
    <3> QED BY <1>13, <2>1
  <2> DEFINE k == 1 + j
  <2>3. value[at + k] = code[k]
    BY <1>8, <2>1
  <2>4. code[k] = full[k] /\ full[k] = text[j]
    BY <1>2, <1>4, <2>1
  <2> QED BY <2>2, <2>3, <2>4
<1>15. \A j \in 1..n : bytes[j] \in Letters
  <2>1. ASSUME NEW j \in 1..n PROVE text[j] \in Letters
    <3>1. j \in 1..Len(text)
      BY <1>2, <1>4
    <3>2. text \in Seq(Letters)
      BY <1>2
    <3> HIDE DEF text
    <3> QED BY <3>1, <3>2, ElementOfSeq
  <2> QED BY <1>14, <2>1
<1> DEFINE x == Printable(bytes)
<1>16. PICK o \in 0..n : Shown(x, bytes, o) /\ (n = Len(text) => o = n)
  <2>1. \A i \in 1..Len(bytes) : i > n => bytes[i] = 0
    BY <1>4, <1>13
  <2>2. n <= Len(bytes)
    BY <1>4, <1>13
  <2>3. text # <<>>
    <3>1. Len(text) # 0
      BY <1>2
    <3> QED BY <3>1
  <2>4. n >= 1 => bytes[1] # Space
    <3> SUFFICES ASSUME n >= 1 PROVE bytes[1] # Space
      OBVIOUS
    <3>1. 1 \in 1..n
      BY <1>4
    <3> QED BY <1>2, <1>14, <2>3, <3>1 DEF Bare
  <2>5. n = Len(text) => n >= 1 /\ bytes[n] # Space
    <3> SUFFICES ASSUME n = Len(text) PROVE n >= 1 /\ bytes[n] # Space
      OBVIOUS
    <3>1. n >= 1 /\ n \in 1..n
      BY <1>2, <1>4
    <3>2. bytes[n] = text[n]
      BY <1>14, <3>1
    <3> QED BY <1>2, <2>3, <3>1, <3>2 DEF Bare
  <2>6. \E o \in 0..n : Shown(x, bytes, o) /\ ((n >= 1 /\ bytes[n] # Space) => o = n)
    BY ONLY <1>4, <1>13, <1>15, <2>1, <2>2, <2>4, PrintableIs DEF x
  <2> QED BY ONLY <2>5, <2>6
<1> HIDE DEF x, text
<1>17. Begins(x, text) /\ (n = Len(text) => x = text)
  <2>1. text \in Seq(Letters) /\ o \in Nat /\ o <= Len(text) /\ o <= n
    <3> HIDE DEF n
    <3> QED BY <1>2, <1>4, <1>16 DEF text
  <2>2. ASSUME NEW i \in 1..o PROVE bytes[i] = text[i]
    <3>1. i \in 1..n
      BY ONLY <1>4, <2>1, i \in 1..o
    <3> QED BY ONLY <1>14, <3>1
  <2> HIDE DEF n
  <2>3. Begins(x, text) /\ (o = Len(text) => x = text)
    BY ONLY <1>16, <2>1, <2>2, BeginsIs
  <2> QED BY <1>16, <2>3
<1>18. r.at = e /\ r.read = Append(done.read, x)
  <2> HIDE DEF e
  <2> QED BY <1>2, <1>10 DEF ReadOne, x
<1>19. code = full => e = at + pl
  BY <1>2, <1>11
<1> HIDE DEF e
<1>20. ReadRight(done, r, part, code, at, x)
  BY <1>1, <1>2, <1>4, <1>17, <1>18, <1>19 DEF ReadRight, pl, text
<1> QED BY <1>20 DEF r

LEMMA OneRead ==
  ASSUME NEW done, NEW value, NEW part, GoodPart(part), NEW at, at = done.at + part.gap,
         NEW code, Placing(part, value, at, code, EncodedPart(part))
  PROVE  \E x : ReadRight(done, ReadPart(done, value, part), part, code, at, x)
<1> DEFINE full == EncodedPart(part)
<1>1. PartKinds(part, full)
  BY KindIs
<1>2. Placing(part, value, at, code, full)
  OBVIOUS
<1> HIDE DEF full
<1>3. CASE NumberPart(part, full)
  BY <1>2, <1>3, NumberRead
<1>4. CASE FixedPart(part, full)
  BY <1>2, <1>4, FixedRead
<1>5. CASE EmptyPart(part, full)
  BY <1>2, <1>5, NothingRead
<1>6. CASE CountedPart(part, full)
  BY <1>2, <1>6, CountedRead
<1> QED BY <1>1, <1>3, <1>4, <1>5, <1>6 DEF PartKinds

(***************************************************************************)
(* All parts are read where they were written.                             *)
(***************************************************************************)
LEMMA MoreRead ==
  ASSUME NEW S, NEW s \in Seq(S), NEW x
  PROVE  LET t == Append(s, x)
         IN /\ t \in Seq(S \cup {x}) /\ Len(s) \in Nat /\ Len(t) = Len(s) + 1
            /\ t[Len(s) + 1] = x /\ \A j \in 1..Len(s) : t[j] = s[j]
<1> DEFINE T == S \cup {x}
<1>1. Len(s) \in Nat /\ \A i \in 1..Len(s) : s[i] \in S
  BY LenProperties, ElementOfSeq
<1>2. s \in Seq(T)
  <2>1. s = [i \in 1..Len(s) |-> s[i]]
    BY LenProperties
  <2>2. \A i \in 1..Len(s) : s[i] \in T
    BY <1>1
  <2> HIDE DEF T
  <2>3. [i \in 1..Len(s) |-> s[i]] \in Seq(T)
    BY <1>1, <2>2, IsASeq
  <2> QED BY <2>1, <2>3
<1>3. x \in T
  OBVIOUS
<1> HIDE DEF T
<1>4. LET t == Append(s, x)
      IN /\ t \in Seq(T) /\ Len(t) = Len(s) + 1
         /\ t[Len(s) + 1] = x /\ \A j \in 1..Len(s) : t[j] = s[j]
  BY <1>1, <1>2, <1>3, AppendProperties
<1> QED BY <1>1, <1>4 DEF T

Reading(d, a, s) == d = [at |-> a, read |-> s]

LEMMA ReadPast ==
  ASSUME NEW d, NEW value, NEW part, NEW a, NEW s, Reading(d, a, s), a + part.gap >= Len(value)
  PROVE  Reading(ReadPart(d, value, part), a + part.gap, s)
BY DEF Reading, ReadPart

LEMMA ReadsOn ==
  ASSUME NEW d, NEW value, NEW part, NEW a, NEW s, Reading(d, a, s)
  PROVE  \E b, t : Reading(ReadPart(d, value, part), b, t)
<1>1. CASE a + part.gap >= Len(value)
  BY <1>1, ReadPast
<1>2. CASE ~(a + part.gap >= Len(value))
  <2>1. d.at = a
    BY DEF Reading
  <2> DEFINE at == d.at + part.gap
             start == at + IF HasLengthByte(part) THEN 1 ELSE 0
             n == IF HasLengthByte(part) THEN value[at + 1]
                  ELSE IF part.type = Str THEN part.length ELSE Width(part.type)
             bytes == SubSeq(value, start + 1, Min({start + n, Len(value)}))
             x == Append(d.read, IF part.type = Str THEN Printable(bytes)
                                      ELSE Decoded(bytes, part.signed))
             b == start + n
  <2>2. ~(at >= Len(value))
    BY <1>2, <2>1
  <2>3. ReadPart(d, value, part) = [at |-> b, read |-> x]
    BY <2>2 DEF ReadPart
  <2> HIDE DEF b, x
  <2> QED BY <2>3 DEF Reading
<1> QED BY <1>1, <1>2

\* What was read of a part.
EntryIs(x, part, more) ==
  /\ part.type = Str => Begins(x, part.value)
  /\ part.type # Str => x = part.value
  /\ HasLengthByte(part) /\ more => x = part.value

Going(i, a, s, b) == a = b /\ Len(s) = i
Ended(i, a, s, b, parts, value) ==
  /\ a \in Nat /\ a >= Len(value) /\ b >= Len(value) /\ Len(s) <= i
  /\ \A j \in 1..i : j > Len(s) => parts[j].value = <<>>

ReadSoFar(i, a, s, b, parts, value) ==
  /\ \E S : s \in Seq(S)
  /\ \A j \in 1..Len(s) : EntryIs(s[j], parts[j], j < Len(parts))
  /\ \/ Going(i, a, s, b)
     \/ Ended(i, a, s, b, parts, value)
     \/ (i = Len(parts) /\ Len(s) = i)

LEMMA NothingThere ==
  ASSUME NEW part, GoodPart(part), NEW value \in Seq(Nat), NEW at \in Nat, at >= Len(value),
         NEW code \in Seq(Nat), PlacedIn(value, at, part, code)
  PROVE  part.value = <<>>
<1> DEFINE full == EncodedPart(part)
           v == part.value
<1>1. PartKinds(part, full)
  BY KindIs
<1>2. full = <<>>
  <2>1. Len(value) \in Nat /\ Len(code) \in Nat
    BY LenProperties
  <2>2. ~(at + Len(code) <= Len(value) /\ Len(code) >= 1)
    BY <2>1
  <2> QED BY <2>2 DEF PlacedIn
<1>3. Len(full) = 0
  BY <1>2
<1> HIDE DEF full
<1>4. ~NumberPart(part, full)
  BY <1>3 DEF NumberPart
<1>5. ~FixedPart(part, full)
  BY <1>3 DEF FixedPart
<1>6. ~CountedPart(part, full)
  BY <1>3 DEF CountedPart
<1> QED BY <1>1, <1>4, <1>5, <1>6 DEF PartKinds, EmptyPart

LEMMA ReadOnPast ==
  ASSUME NEW i \in Nat, NEW n, n = i + 1, NEW a, NEW S, NEW s \in Seq(S), NEW b, NEW parts,
         NEW value \in Seq(Nat), NEW c \in Nat, c >= Len(value), NEW na \in Nat, na >= Len(value),
         Len(s) <= i, \A j \in 1..i : j > Len(s) => parts[j].value = <<>>,
         parts[n].value = <<>>,
         \A j \in 1..Len(s) : EntryIs(s[j], parts[j], j < Len(parts))
  PROVE  ReadSoFar(n, na, s, c, parts, value)
<1>1. Len(s) \in Nat /\ n \in Nat
  BY LenProperties
<1>2. \A j \in 1..n : j > Len(s) => parts[j].value = <<>>
  <2> SUFFICES ASSUME NEW j \in 1..n, j > Len(s) PROVE parts[j].value = <<>>
    OBVIOUS
  <2>1. j = n \/ j \in 1..i
    OBVIOUS
  <2> QED BY <2>1
<1>3. Len(s) <= n
  BY <1>1
<1>4. Ended(n, na, s, c, parts, value)
  BY <1>2, <1>3 DEF Ended
<1> QED BY <1>4 DEF ReadSoFar

\* Where a part was written.
WrittenAt(value, part, b, at, c, code, more) ==
  /\ b \in Nat /\ at \in Nat /\ at = b + part.gap /\ at >= b /\ c \in Nat
  /\ c = at + PartLength(part) /\ code \in Seq(Nat)
  /\ PlacedIn(value, at, part, code) /\ CodeFor(part, code, more) /\ GoodPart(part)

LEMMA ReadGoing ==
  ASSUME NEW value \in Seq(Nat), NEW parts, NEW N \in Nat, N = Len(parts),
         NEW i \in Nat, NEW n, n = i + 1, n <= N,
         NEW b, NEW at, NEW c, NEW code, WrittenAt(value, parts[n], b, at, c, code, n < N),
         NEW d, NEW s, Reading(d, b, s), NEW S, s \in Seq(S), Len(s) = i, at < Len(value),
         \A j \in 1..Len(s) : EntryIs(s[j], parts[j], j < N)
  PROVE  \E na, t : /\ Reading(ReadPart(d, value, parts[n]), na, t)
                    /\ ReadSoFar(n, na, t, c, parts, value)
<1> DEFINE part == parts[n]
           full == EncodedPart(part)
           r == ReadPart(d, value, part)
<1>1. /\ b \in Nat /\ at \in Nat /\ at = b + part.gap /\ at >= b /\ c \in Nat
      /\ c = at + PartLength(part) /\ code \in Seq(Nat)
      /\ PlacedIn(value, at, part, code) /\ CodeFor(part, code, n < N) /\ GoodPart(part)
  BY DEF WrittenAt
<1>2. /\ Len(code) \in Nat /\ (\E room \in Int : CodeIs(part, full, room, code))
      /\ HasLengthByte(part) /\ n < N => code = full
  BY <1>1 DEF CodeFor
<1>3. d.at = b /\ d.read = s
  BY DEF Reading
<1>4. PICK x : ReadRight(d, r, part, code, at, x)
  <2> HIDE DEF full
  <2>1. Placing(part, value, at, code, full)
    BY <1>1, <1>2 DEF Placing, full
  <2>2. at = d.at + part.gap
    BY <1>1, <1>3
  <2>3. Placing(part, value, at, code, EncodedPart(part))
    BY <2>1 DEF full
  <2> HIDE DEF part
  <2> QED BY <1>1, <2>2, <2>3, OneRead
<1>5. PICK na, t : Reading(r, na, t)
  BY ReadsOn
<1>6. r.at = na /\ r.read = t
  BY <1>5 DEF Reading
<1> HIDE DEF full, r, part
<1>7. /\ t = Append(s, x)
      /\ part.type = Str => Begins(x, part.value)
      /\ part.type # Str => x = part.value
      /\ HasLengthByte(part) /\ code = full => x = part.value
      /\ ~HasLengthByte(part) \/ code = full => na = c
  <2>1. /\ r.read = Append(d.read, x)
        /\ part.type = Str => Begins(x, part.value)
        /\ part.type # Str => x = part.value
        /\ HasLengthByte(part) /\ code = full => x = part.value
        /\ ~HasLengthByte(part) \/ code = full => r.at = at + PartLength(part)
    BY <1>4 DEF ReadRight, full
  <2>2. r.read = t /\ d.read = s /\ r.at = na /\ c = at + PartLength(part)
    BY <1>1, <1>3, <1>6
  <2> QED BY ONLY <2>1, <2>2
<1>8. EntryIs(x, part, n < N)
  BY <1>2, <1>7 DEF EntryIs
<1>9. /\ t \in Seq(S \cup {x}) /\ Len(t) = n
      /\ t[n] = x /\ \A j \in 1..i : t[j] = s[j]
  <2>1. LET u == Append(s, x)
        IN /\ u \in Seq(S \cup {x}) /\ Len(s) \in Nat /\ Len(u) = Len(s) + 1
           /\ u[Len(s) + 1] = x /\ \A j \in 1..Len(s) : u[j] = s[j]
    BY MoreRead
  <2> QED BY <1>7, <2>1
<1>10. ASSUME NEW j \in 1..n PROVE EntryIs(t[j], parts[j], j < N)
  <2>1. CASE j = n
    BY <1>8, <1>9, <2>1 DEF part
  <2>2. CASE j # n
    <3>1. j \in 1..i
      BY <2>2
    <3>2. t[j] = s[j] /\ EntryIs(s[j], parts[j], j < N)
      BY <1>9, <3>1
    <3> QED BY <3>2
  <2> QED BY <2>1, <2>2
<1>11. Going(n, na, t, c) \/ (n = N /\ Len(t) = n)
  <2>1. CASE n = N
    BY <1>9, <2>1
  <2>2. CASE n # N
    <3>1. n < N
      BY <2>2
    <3>2. na = c
      BY <1>2, <1>7, <3>1
    <3> QED BY <1>9, <3>2 DEF Going
  <2> QED BY <2>1, <2>2
<1>12. \E T : t \in Seq(T)
  BY <1>9
<1>13. ReadSoFar(n, na, t, c, parts, value)
  <2>1. \A j \in 1..Len(t) : EntryIs(t[j], parts[j], j < Len(parts))
    BY <1>9, <1>10
  <2>2. Going(n, na, t, c) \/ (n = Len(parts) /\ Len(t) = n)
    BY <1>11
  <2> QED BY ONLY <1>12, <2>1, <2>2 DEF ReadSoFar
<1> QED BY <1>5, <1>13 DEF r, part

ReadableNext(value, parts, N, i, n, b, at, c, code, d, a, s) ==
  /\ value \in Seq(Nat) /\ N \in Nat /\ N = Len(parts) /\ i \in Nat /\ n = i + 1 /\ n <= N
  /\ WrittenAt(value, parts[n], b, at, c, code, n < N)
  /\ Reading(d, a, s) /\ ReadSoFar(i, a, s, b, parts, value)

LEMMA ReadStep ==
  ASSUME NEW value, NEW parts, NEW N, NEW i, NEW n, NEW b, NEW at, NEW c, NEW code, NEW d,
         NEW a, NEW s, ReadableNext(value, parts, N, i, n, b, at, c, code, d, a, s)
  PROVE  \E na, t : /\ Reading(ReadPart(d, value, parts[n]), na, t)
                    /\ ReadSoFar(n, na, t, c, parts, value)
<1>0. /\ value \in Seq(Nat) /\ N \in Nat /\ N = Len(parts) /\ i \in Nat /\ n = i + 1 /\ n <= N
      /\ WrittenAt(value, parts[n], b, at, c, code, n < N)
      /\ Reading(d, a, s) /\ ReadSoFar(i, a, s, b, parts, value)
  BY DEF ReadableNext
<1> USE <1>0
<1> DEFINE part == parts[n]
<1>1. /\ b \in Nat /\ at \in Nat /\ at = b + part.gap /\ at >= b /\ c \in Nat
      /\ c = at + PartLength(part) /\ code \in Seq(Nat)
      /\ PlacedIn(value, at, part, code) /\ CodeFor(part, code, n < N) /\ GoodPart(part)
  BY DEF WrittenAt
<1>2. PartLength(part) \in Nat /\ part.gap \in Nat
  BY <1>1, LengthIs, KindIs
<1>3. Len(value) \in Nat
  BY LenProperties
<1>4. PICK S : s \in Seq(S)
  BY DEF ReadSoFar
<1>5. /\ \A j \in 1..Len(s) : EntryIs(s[j], parts[j], j < Len(parts))
      /\ \/ Going(i, a, s, b)
         \/ Ended(i, a, s, b, parts, value)
         \/ (i = Len(parts) /\ Len(s) = i)
  BY DEF ReadSoFar
<1> HIDE DEF part
<1>6. i # N
  OBVIOUS
<1>7. CASE Going(i, a, s, b) /\ at < Len(value)
  <2>1. a = b /\ Len(s) = i
    BY <1>7 DEF Going
  <2>2. \A j \in 1..Len(s) : EntryIs(s[j], parts[j], j < N)
    BY <1>5
  <2>3. Reading(d, b, s)
    BY <2>1
  <2> QED BY ONLY value \in Seq(Nat), N \in Nat, N = Len(parts), i \in Nat, n = i + 1, n <= N,
          WrittenAt(value, parts[n], b, at, c, code, n < N), <1>4, <1>7, <2>1, <2>2, <2>3, ReadGoing
\* Beyond the end.
<1>8. ASSUME a \in Nat, a + part.gap >= Len(value), at >= Len(value), Len(s) <= i,
             \A j \in 1..i : j > Len(s) => parts[j].value = <<>>
      PROVE  \E na, t : /\ Reading(ReadPart(d, value, part), na, t)
                        /\ ReadSoFar(n, na, t, c, parts, value)
  <2> DEFINE na == a + part.gap
             g == part.gap
             l == PartLength(part)
  <2>1. Reading(ReadPart(d, value, part), na, s)
    BY <1>8, ReadPast
  <2>2. part.value = <<>>
    BY <1>1, <1>8, NothingThere
  <2> HIDE DEF g, l
  <2>3. na \in Nat /\ na >= Len(value)
    <3>1. g \in Nat
      BY <1>2 DEF g
    <3>2. a + g \in Nat
      BY <1>8, <3>1
    <3> QED BY <1>8, <3>2 DEF g
  <2>4. c >= Len(value)
    <3>1. l \in Nat /\ c = at + l
      BY <1>1, <1>2 DEF l
    <3> QED BY <1>1, <1>3, <1>8, <3>1
  <2>5. parts[n].value = <<>>
    BY <2>2 DEF part
  <2> HIDE DEF na
  <2>6. \A j \in 1..Len(s) : EntryIs(s[j], parts[j], j < Len(parts))
    BY <1>5
  <2>7. ReadSoFar(n, na, s, c, parts, value)
    BY <1>1, <1>4, <1>8, <2>3, <2>4, <2>5, <2>6, ReadOnPast
  <2> QED BY <2>1, <2>7
<1>9. CASE Going(i, a, s, b) /\ ~(at < Len(value))
  <2>1. a = b /\ Len(s) = i
    BY <1>9 DEF Going
  <2>2. at >= Len(value)
    BY <1>1, <1>3, <1>9
  <2>3. a \in Nat /\ a + part.gap >= Len(value) /\ Len(s) <= i
    BY <1>1, <2>1, <2>2
  <2>4. \A j \in 1..i : j > Len(s) => parts[j].value = <<>>
    <3>1. \A j \in 1..i : ~(j > Len(s))
      BY <2>1
    <3> QED BY <3>1
  <2>5. \E na, t : /\ Reading(ReadPart(d, value, part), na, t)
                   /\ ReadSoFar(n, na, t, c, parts, value)
    BY <1>8, <2>2, <2>3, <2>4
  <2> QED BY <2>5 DEF part
<1>10. CASE Ended(i, a, s, b, parts, value)
  <2>1. /\ a \in Nat /\ a >= Len(value) /\ b >= Len(value) /\ Len(s) <= i
        /\ \A j \in 1..i : j > Len(s) => parts[j].value = <<>>
    BY <1>10 DEF Ended
  <2>2. at >= Len(value)
    BY <1>1, <1>3, <2>1
  <2>3. a + part.gap >= Len(value)
    <3> DEFINE g == part.gap
    <3>1. g \in Nat
      BY <1>2
    <3> HIDE DEF g
    <3>2. a + g >= Len(value)
      BY <1>3, <2>1, <3>1
    <3> QED BY <3>2 DEF g
  <2>4. \E na, t : /\ Reading(ReadPart(d, value, part), na, t)
                   /\ ReadSoFar(n, na, t, c, parts, value)
    BY <1>8, <2>1, <2>2, <2>3
  <2> QED BY <2>4 DEF part
<1> QED BY <1>5, <1>6, <1>7, <1>9, <1>10

LEMMA WrittenBefore ==
  ASSUME NEW layout \in Layouts, NEW done, NEW N, N = Len(layout.parts),
         WriteInv(done, layout, N), NEW n \in 1..N
  PROVE  \E code : WrittenAt(done[N].value, layout.parts[n], done[n - 1].at,
                             StartOf(done, layout.parts, n), done[n].at, code, n < N)
<1> DEFINE p == layout.parts
           part == p[n]
           value == done[N].value
           at == StartOf(done, p, n)
           b == done[n - 1].at
           c == done[n].at
<1>1. N \in Nat /\ GoodPart(part)
  BY LayoutIs
<1>2. InTurn(done, p, n) /\ PartIn(value, done, p, n)
  BY DEF WriteInv
<1>3. /\ b \in Nat /\ at \in Nat /\ at >= b /\ c \in Nat /\ c = at + PartLength(part)
      /\ at = b + part.gap
  BY <1>2 DEF InTurn, StartOf
<1>4. PICK code \in Seq(Nat) : PlacedIn(value, at, part, code) /\ CodeFor(part, code, n < N)
  BY <1>2 DEF PartIn
<1> HIDE DEF p, part, value, at, b, c
<1>5. WrittenAt(value, part, b, at, c, code, n < N)
  BY <1>1, <1>3, <1>4 DEF WrittenAt
<1> QED BY <1>5 DEF p, part, value, at, b, c

LEMMA AllPartsRead ==
  ASSUME NEW layout \in Layouts
  PROVE  \E a, b : ReadSoFar(Len(layout.parts), a, ReadParts(Composed(layout), layout.parts),
                             b, layout.parts, Composed(layout))
<1> DEFINE p == layout.parts
           N == Len(p)
           value == Composed(layout)
<1>1. N \in Nat
  BY LayoutIs
<1>2. PICK done : done[N].value = value /\ done[0].at = 0 /\ WriteInv(done, layout, N)
  BY AllWritten
<1>3. PICK rd : /\ ReadParts(value, p) = rd[N].read
                /\ rd[0] = [at |-> 0, read |-> <<>>]
                /\ \A i \in 1..N : ReadingNext(rd, value, p, i)
  <2> HIDE DEF value, p
  <2>1. Len(p) = N
    OBVIOUS
  <2> HIDE DEF N
  <2> QED BY <1>1, <2>1, ReadingIs
<1>4. value \in Seq(Nat)
  BY <1>2 DEF WriteInv
<1> HIDE DEF value
<1> DEFINE Right(i) == \E a, s : Reading(rd[i], a, s) /\ ReadSoFar(i, a, s, done[i].at, p, value)
           I == {i \in Nat : i <= N => Right(i)}
<1>5. 0 \in I
  <2>1. Reading(rd[0], 0, <<>>)
    BY <1>3 DEF Reading
  <2>2. Going(0, 0, <<>>, done[0].at)
    BY <1>2 DEF Going
  <2>3. (\E S : <<>> \in Seq(S)) /\ \A j \in 1..Len(<<>>) : FALSE
    <3>1. <<>> \in Seq(Nat) /\ Len(<<>>) = 0
      OBVIOUS
    <3> QED BY <3>1
  <2> HIDE DEF p
  <2>4. ReadSoFar(0, 0, <<>>, done[0].at, p, value)
    BY <2>2, <2>3 DEF ReadSoFar
  <2>5. Right(0)
    BY <2>1, <2>4
  <2> HIDE DEF Right
  <2> QED BY <2>5
<1>6. ASSUME NEW i \in I PROVE i + 1 \in I
  <2> DEFINE n == i + 1
  <2>1. i \in Nat /\ n \in Nat
    OBVIOUS
  <2> SUFFICES ASSUME n <= N PROVE Right(n)
    BY <2>1
  <2>2. Right(i) /\ n \in 1..N /\ n - 1 = i
    BY <1>1, <2>1
  <2>3. PICK a, s : Reading(rd[i], a, s) /\ ReadSoFar(i, a, s, done[i].at, p, value)
    BY <2>2
  <2> DEFINE at == StartOf(done, p, n)
  <2>4. PICK code : WrittenAt(value, p[n], done[i].at, at, done[n].at, code, n < N)
    <3>1. \E code : WrittenAt(done[N].value, layout.parts[n], done[n - 1].at,
                              StartOf(done, layout.parts, n), done[n].at, code, n < N)
      <4> HIDE DEF n
      <4>1. N = Len(layout.parts)
        OBVIOUS
      <4> HIDE DEF N
      <4> QED BY <1>2, <2>2, <4>1, WrittenBefore
    <3> QED BY <1>2, <2>2, <3>1
  <2>5. rd[n] = ReadPart(rd[i], value, p[n])
    BY <1>3, <2>2 DEF ReadingNext
  <2> HIDE DEF p, at, Right, I
  <2> DEFINE b == done[i].at
             c == done[n].at
             d == rd[i]
  <2>6. \E na, t : /\ Reading(ReadPart(d, value, p[n]), na, t)
                   /\ ReadSoFar(n, na, t, c, p, value)
    <3>1. /\ value \in Seq(Nat) /\ N \in Nat /\ N = Len(p) /\ i \in Nat /\ n = i + 1 /\ n <= N
          /\ WrittenAt(value, p[n], b, at, c, code, n < N)
          /\ Reading(d, a, s) /\ ReadSoFar(i, a, s, b, p, value)
      BY <1>1, <1>4, <2>1, <2>3, <2>4
    <3> HIDE DEF b, c, d, n, N
    <3>2. ReadableNext(value, p, N, i, n, b, at, c, code, d, a, s)
      BY <3>1 DEF ReadableNext
    <3> QED BY ONLY <3>2, ReadStep
  <2>7. Right(n)
    <3> HIDE DEF n
    <3> QED BY <2>5, <2>6 DEF Right
  <2> QED BY <2>7
<1>7. I = Nat
  <2> HIDE DEF I
  <2>1. I \subseteq Nat
    BY DEF I
  <2> QED BY <1>5, <1>6, <2>1, NatSet
<1>8. Right(N)
  <2>1. N \in I /\ N <= N
    BY <1>1, <1>7
  <2> HIDE DEF Right, N
  <2> QED BY <2>1
<1>9. PICK a, s : Reading(rd[N], a, s) /\ ReadSoFar(N, a, s, done[N].at, p, value)
  BY <1>8
<1>10. s = ReadParts(value, p)
  BY <1>3, <1>9 DEF Reading
<1> QED BY <1>9, <1>10 DEF p, value

LEMMA ComposedReadBack ==
  ASSUME NEW layout \in Layouts, composed = [parts |-> layout.parts, value |-> Composed(layout)]
  PROVE  PartsReadBack
<1> DEFINE p == layout.parts
           N == Len(p)
           value == Composed(layout)
           read == ReadParts(value, p)
<1>1. N \in Nat /\ DOMAIN p = 1..N
  BY LayoutIs
<1>2. PICK a, b : ReadSoFar(N, a, read, b, p, value)
  BY AllPartsRead
<1>3. /\ \A j \in 1..Len(read) : EntryIs(read[j], p[j], j < N)
      /\ \/ Going(N, a, read, b)
         \/ Ended(N, a, read, b, p, value)
         \/ (N = Len(p) /\ Len(read) = N)
  BY <1>2 DEF ReadSoFar
<1>4. PICK S : read \in Seq(S)
  BY <1>2 DEF ReadSoFar
<1>5. Len(read) \in Nat
  BY <1>4, LenProperties
<1> HIDE DEF read, value
<1>6. Len(read) <= N /\ \A j \in 1..N : j > Len(read) => p[j].value = <<>>
  <2>1. CASE Len(read) = N
    <3>1. \A j \in 1..N : ~(j > N)
      BY <1>1
    <3> QED BY <1>1, <2>1, <3>1
  <2>2. CASE Ended(N, a, read, b, p, value)
    BY <2>2 DEF Ended
  <2> QED BY <1>3, <2>1, <2>2 DEF Going
<1>7. composed.parts = p /\ composed.value = value
  BY DEF value
<1> HIDE DEF p
<1>8. ASSUME NEW i \in 1..N
      PROVE  IF i > Len(read) THEN p[i].value = <<>>
             ELSE IF p[i].type = Str
               THEN /\ IsPrefix(read[i], p[i].value)
                    /\ i < Len(read) /\ HasLengthByte(p[i]) => read[i] = p[i].value
               ELSE read[i] = p[i].value
  <2> DEFINE q == p[i]
             x == read[i]
             v == q.value
  <2>1. CASE i > Len(read)
    BY <1>6, <2>1
  <2>2. CASE ~(i > Len(read))
    <3>1. i \in 1..Len(read)
      BY <1>1, <1>5, <2>2
    <3>2. EntryIs(x, q, i < N)
      BY <1>3, <3>1
    <3>3. i < Len(read) => i < N
      BY <1>1, <1>5, <1>6
    <3> HIDE DEF x, q
    <3>4. /\ q.type = Str => IsPrefix(x, v)
          /\ q.type # Str => x = v
          /\ HasLengthByte(q) /\ i < N => x = v
      BY <3>2 DEF EntryIs, Begins
    <3> HIDE DEF v
    <3>5. IF q.type = Str
          THEN IsPrefix(x, v) /\ (i < Len(read) /\ HasLengthByte(q) => x = v)
          ELSE x = v
      BY <3>3, <3>4
    <3> QED BY <2>2, <3>5 DEF v, x, q
  <2> QED BY <2>1, <2>2
<1>9. PartsReadBack
  <2>1. ReadParts(composed.value, composed.parts) = read
    BY <1>7 DEF read
  <2>2. DOMAIN composed.parts = 1..N
    BY <1>1, <1>7
  <2> HIDE DEF N
  <2> QED BY <1>7, <1>8, <2>1, <2>2 DEF PartsReadBack
<1> QED BY <1>9

\* Nothing, or the parts of a layout as they were composed.
IsComposed(r) == \E l \in Layouts : r = [parts |-> l.parts, value |-> Composed(l)]

LEMMA ComposedReads == composed = NothingComposed \/ IsComposed(composed) => PartsReadBack
<1>1. ASSUME composed = NothingComposed PROVE PartsReadBack
  <2>1. DOMAIN composed.parts = {}
    BY <1>1 DEF NothingComposed
  <2> QED BY <2>1 DEF PartsReadBack
<1>2. ASSUME IsComposed(composed) PROVE PartsReadBack
  BY <1>2, ComposedReadBack DEF IsComposed
<1> QED BY <1>1, <1>2

(***************************************************************************)
(* The inductive invariant: fields are from the choices, and what was sent *)
(* or composed last is as a command builds it.                             *)
(***************************************************************************)
HexInv ==
  /\ FieldsAre
  /\ sent = NothingSent \/ IsSent(sent)
  /\ composed = NothingComposed \/ IsComposed(composed)

LEMMA HexStarts == HexInit => HexInv
<1> SUFFICES ASSUME HexInit PROVE HexInv
  OBVIOUS
<1>1. /\ increment \in Increments /\ msgFields = <<>>
      /\ sent = NothingSent /\ composed = NothingComposed
  BY DEF HexInit
<1>2. DOMAIN msgFields = {}
  BY <1>1
<1>3. msgFields = [n \in DOMAIN msgFields |-> msgFields[n]]
  <2>1. <<>> = [n \in {} |-> <<>>[n]]
    OBVIOUS
  <2> QED BY <1>1, <1>2, <2>1
<1>4. FieldsAre
  BY <1>1, <1>2, <1>3 DEF FieldsAre
<1> QED BY <1>1, <1>4 DEF HexInv

LEMMA FieldUpdated ==
  ASSUME FieldsAre, UpdateField
  PROVE  FieldsAre'
<1>1. /\ increment \in Increments /\ DOMAIN msgFields \subseteq DOMAIN FieldChoices
      /\ \A n \in DOMAIN msgFields : msgFields[n] \in FieldChoices[n]
  BY DEF FieldsAre
<1>2. PICK name \in DOMAIN FieldChoices : \E f \in FieldChoices[name] :
        msgFields' = [n \in DOMAIN msgFields \cup {name} |->
                        IF n = name THEN f ELSE msgFields[n]]
  BY DEF UpdateField
<1>3. PICK f \in FieldChoices[name] :
        msgFields' = [n \in DOMAIN msgFields \cup {name} |->
                        IF n = name THEN f ELSE msgFields[n]]
  BY <1>2
<1>4. increment' = increment
  BY DEF UpdateField
<1>5. /\ DOMAIN msgFields' = DOMAIN msgFields \cup {name}
      /\ \A n \in DOMAIN msgFields' : msgFields'[n] = IF n = name THEN f ELSE msgFields[n]
  BY <1>3
<1>6. msgFields' = [n \in DOMAIN msgFields' |-> msgFields'[n]]
  BY <1>3
<1>7. \A n \in DOMAIN msgFields' : msgFields'[n] \in FieldChoices[n]
  <2> SUFFICES ASSUME NEW n \in DOMAIN msgFields' PROVE msgFields'[n] \in FieldChoices[n]
    OBVIOUS
  <2>1. CASE n = name
    BY <1>5, <2>1
  <2>2. CASE n # name
    BY <1>1, <1>5, <2>2
  <2> QED BY <2>1, <2>2
<1>8. DOMAIN msgFields' \subseteq DOMAIN FieldChoices
  BY <1>1, <1>5
<1> QED BY <1>1, <1>4, <1>6, <1>7, <1>8 DEF FieldsAre

LEMMA FieldPopped ==
  ASSUME FieldsAre, PopField
  PROVE  FieldsAre'
<1>1. /\ increment \in Increments /\ DOMAIN msgFields \subseteq DOMAIN FieldChoices
      /\ \A n \in DOMAIN msgFields : msgFields[n] \in FieldChoices[n]
  BY DEF FieldsAre
<1>2. PICK name \in DOMAIN msgFields :
        msgFields' = [n \in DOMAIN msgFields \ {name} |-> msgFields[n]]
  BY DEF PopField, Restrict
<1>3. increment' = increment
  BY DEF PopField
<1>4. /\ DOMAIN msgFields' = DOMAIN msgFields \ {name}
      /\ \A n \in DOMAIN msgFields' : msgFields'[n] = msgFields[n]
  BY <1>2
<1>5. msgFields' = [n \in DOMAIN msgFields' |-> msgFields'[n]]
  BY <1>2
<1>6. \A n \in DOMAIN msgFields' : msgFields'[n] \in FieldChoices[n]
  BY <1>1, <1>4
<1>7. DOMAIN msgFields' \subseteq DOMAIN FieldChoices
  BY <1>1, <1>4
<1> QED BY <1>1, <1>3, <1>5, <1>6, <1>7 DEF FieldsAre

LEMMA HexSteps ==
  ASSUME HexInv, [HexNext]_hexVars
  PROVE  HexInv'
<1>1. /\ FieldsAre
      /\ sent = NothingSent \/ IsSent(sent)
      /\ composed = NothingComposed \/ IsComposed(composed)
  BY DEF HexInv
<1>2. CASE UpdateField
  <2>1. sent' = sent /\ composed' = composed
    BY <1>2 DEF UpdateField
  <2>2. FieldsAre'
    BY <1>1, <1>2, FieldUpdated
  <2> QED BY <1>1, <2>1, <2>2 DEF HexInv, IsSent, IsComposed, NothingSent, NothingComposed
<1>3. CASE PopField
  <2>1. sent' = sent /\ composed' = composed
    BY <1>3 DEF PopField
  <2>2. FieldsAre'
    BY <1>1, <1>3, FieldPopped
  <2> QED BY <1>1, <2>1, <2>2 DEF HexInv, IsSent, IsComposed, NothingSent, NothingComposed
<1>4. CASE SendValue
  <2>1. increment' = increment /\ msgFields' = msgFields /\ composed' = composed
    BY <1>4 DEF SendValue
  <2>2. IsSent(sent')
    BY <1>4 DEF SendValue, IsSent
  <2>3. FieldsAre'
    BY <1>1, <2>1 DEF FieldsAre
  <2> QED BY <1>1, <2>1, <2>2, <2>3 DEF HexInv, IsSent, IsComposed, NothingSent, NothingComposed
<1>5. CASE ComposeField
  <2>1. increment' = increment /\ msgFields' = msgFields /\ sent' = sent
    BY <1>5 DEF ComposeField
  <2>2. IsComposed(composed')
    BY <1>5 DEF ComposeField, IsComposed
  <2>3. FieldsAre'
    BY <1>1, <2>1 DEF FieldsAre
  <2> QED BY <1>1, <2>1, <2>2, <2>3 DEF HexInv, IsSent, IsComposed, NothingSent, NothingComposed
<1>6. CASE UNCHANGED hexVars
  BY <1>1, <1>6 DEF hexVars, HexInv, FieldsAre, IsSent, IsComposed, NothingSent, NothingComposed
<1> QED BY <1>2, <1>3, <1>4, <1>5, <1>6 DEF HexNext

\* What is written is read, for any fields, descriptions and layouts that the
\* assumptions allow: a message is taken apart into the fields it was built
\* from, save the two kinds of ReadAsBuilt; a device reads the value that was
\* asked for; and the parts of a field are read where they were written.
THEOREM WrittenStaysRead == HexSpec => []WrittenIsRead
<1>1. HexInv => WrittenIsRead
  BY ReadsAsBuilt, SentReads, ComposedReads DEF HexInv, WrittenIsRead
<1> QED BY <1>1, HexStarts, HexSteps, PTL DEF HexSpec
=============================================================================
