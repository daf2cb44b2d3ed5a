---------------------------- MODULE DeviceCommand ----------------------------
(***************************************************************************)
(* Commands to a device by MQTT: run_command() and _send_mqtt_command() of *)
(* solixapi/mqtt_device.py, generate_mqtt_command() of solixapi/mqtt.py    *)
(* and the entities that call them (switch.py).                            *)
(*                                                                         *)
(* A command carries more settings than the one it is for: the settings of *)
(* an entity each share a byte of flags.  The other settings are those of  *)
(* the last known state, the flags that are no setting those of the last   *)
(* report (mask_state).  After publishing, the entity writes what it sent  *)
(* into the known state, until the report arrives that it asks for.        *)
(*                                                                         *)
(* Messages keep their order.  A lost connection loses what is under way.  *)
(***************************************************************************)
EXTENDS Integers, Sequences, FiniteSets

CONSTANTS
  Settings,     \* the settings of the byte, an entity for each
  Rest,         \* the flags of the byte that are no setting
  MaxCommands,  \* bound on the commands
  MaxChanges,   \* bound on the changes made at the device
  MaxReports,   \* bound on the reports a device sends on its own
  MaxLosses     \* bound on the lost connections

ASSUME CommandAssumption == Rest \notin Settings

VARIABLES
  held,         \* the byte of the device
  version,      \* number of changes of it
  known,        \* mdev.mqttdata: settings and mask_state, or Unknown
  lastMask,     \* MASK_VALUE of the descriptions, or Unknown
  wire,         \* messages to the device
  air,          \* reports to the client
  entity,       \* what the task of each entity does
  linked,       \* the MQTT session is connected
  due,          \* what a command has to carry: as last published or reported
  behind,       \* the known state is older than a command or a report
  missed,       \* a report that was asked for or announced was lost
  published,    \* number of commands published
  changes, reports, losses \* the events counted against their bounds

commandVars == <<held, version, known, lastMask, wire, air, entity, linked, due,
                 behind, missed, published, changes, reports, losses>>

Flags == Settings \cup {Rest}
Bytes == [Flags -> 0..1]
Zero == [f \in Flags |-> 0]
Unknown == <<>>

AtRest == [at |-> "rest"]
SetOnWire == \E i \in 1..Len(wire) : wire[i].kind = "set"
Report == [byte |-> held, version |-> version, after |-> published,
           pending |-> SetOnWire]

CommandInit ==
  /\ held \in Bytes
  /\ version = 0
  /\ known = Unknown
  /\ lastMask = Unknown
  /\ wire = <<>>
  /\ air = <<>>
  /\ entity = [s \in Settings |-> AtRest]
  /\ linked = TRUE
  /\ due = held
  /\ behind = FALSE
  /\ missed = FALSE
  /\ published = 0
  /\ changes = 0 /\ reports = 0 /\ losses = 0

(***************************************************************************)
(* The client.                                                             *)
(***************************************************************************)

\* Settings written into a byte of flags, bit by bit.
Merged(byte, values) ==
  [f \in Flags |-> IF f \in Settings THEN values[f] ELSE byte[f]]

\* The byte starts with the last mask_state, all settings are written to it.
Generated(values) ==
  Merged(IF lastMask = Unknown THEN Zero ELSE lastMask, values)

\* Faulty: the known state waits for the report.
MockedNever(values) == known

\* What was sent becomes the known state; mask_state only if it was not zero.
Mocked(values) ==
  [values |-> values,
   mask |-> IF lastMask \in {Unknown, Zero} THEN known.mask
            ELSE Merged(lastMask, values)]

\* The command of s was composed from what is due now, not before a session
\* start during which a report came or another command was published, and
\* not from a report that is older than a published command.
ComposedFresh(s) ==
  /\ ~behind
  /\ entity[s].at = "connect" => entity[s].basis = <<due, FALSE>>

\* The command is published, the entity waits before it asks for a report.
Publish(s, command) ==
  /\ wire' = Append(wire, [kind |-> "set", byte |-> command.byte])
  /\ known' = Mocked(command.values)
  /\ entity' = [entity EXCEPT ![s] = [at |-> "pause"]]
  /\ due' = command.byte
  /\ behind' = ~ComposedFresh(s)
  /\ published' = published + 1

\* An entity sets its setting.  Without a connection the command is composed
\* before the session is started, and published after it.
SetSetting(s, value) ==
  LET values == [known.values EXCEPT ![s] = value]
      command == [byte |-> Generated(values), values |-> values]
  IN /\ entity[s] = AtRest
     /\ known # Unknown
     /\ published
          + Cardinality({t \in Settings : entity[t].at = "connect"})
          < MaxCommands
     /\ IF linked
        THEN Publish(s, command)
        ELSE /\ entity' = [entity EXCEPT ![s] =
                             [at |-> "connect", command |-> command,
                              basis |-> <<due, behind>>]]
             /\ UNCHANGED <<wire, known, due, behind, published>>
     /\ UNCHANGED <<held, version, lastMask, air, linked, missed, changes,
                    reports, losses>>

\* The session was started for the entity.
SessionStarted(s) ==
  /\ entity[s].at = "connect"
  /\ linked
  /\ Publish(s, entity[s].command)
  /\ UNCHANGED <<held, version, lastMask, air, linked, missed, changes,
                 reports, losses>>

\* The session could not be started, or the message not be published.
NotSent(s) ==
  /\ entity[s].at \in {"connect", "pause"}
  /\ entity' = [entity EXCEPT ![s] = AtRest]
  /\ missed' = (missed \/ entity[s].at = "pause")
  /\ UNCHANGED <<held, version, known, lastMask, wire, air, linked, due, behind,
                 published, changes, reports, losses>>

\* Faulty: no report is asked for.
RequestStatusNever(s) ==
  /\ entity[s].at = "pause"
  /\ linked
  /\ entity' = [entity EXCEPT ![s] = AtRest]
  /\ UNCHANGED <<held, version, known, lastMask, wire, air, linked, due, behind,
                 missed, published, changes, reports, losses>>

\* The entity asks for a report.
RequestStatus(s) ==
  /\ entity[s].at = "pause"
  /\ linked
  /\ entity' = [entity EXCEPT ![s] = AtRest]
  /\ wire' = Append(wire, [kind |-> "ask"])
  /\ UNCHANGED <<held, version, known, lastMask, air, linked, due, behind,
                 missed, published, changes, reports, losses>>

\* A report is merged into the known state and the descriptions.
Receive ==
  LET report == Head(air)
      late == report.after < published \/ report.pending
  IN /\ air # <<>>
     /\ air' = Tail(air)
     /\ known' = [values |-> [s \in Settings |-> report.byte[s]],
                  mask |-> report.byte]
     /\ lastMask' = report.byte
     /\ behind' = late
     /\ due' = IF late THEN due ELSE report.byte
     /\ missed' = (missed /\ (SetOnWire \/ report.version # version))
     /\ UNCHANGED <<held, version, wire, entity, linked, published, changes,
                    reports, losses>>

\* The device object is notified for another reason: the descriptions take
\* the mask_state known by then.
Notified ==
  /\ known # Unknown
  /\ lastMask # known.mask
  /\ lastMask' = known.mask
  /\ UNCHANGED <<held, version, known, wire, air, entity, linked, due, behind,
                 missed, published, changes, reports, losses>>

(***************************************************************************)
(* The device and the connection.                                          *)
(***************************************************************************)

\* The device takes a command, or refuses it, or answers with a report.
TakeMessage(refused) ==
  LET message == Head(wire)
      new == IF message.kind = "set" /\ ~refused THEN message.byte ELSE held
  IN /\ wire # <<>>
     /\ refused => message.kind = "set"
     /\ wire' = Tail(wire)
     /\ held' = new
     /\ version' = version + (IF new # held THEN 1 ELSE 0)
     /\ air' = IF message.kind = "ask" THEN Append(air, Report) ELSE air
     /\ UNCHANGED <<known, lastMask, entity, linked, due, behind, missed,
                    published, changes, reports, losses>>

SendReport ==
  /\ linked
  /\ reports < MaxReports
  /\ air' = Append(air, Report)
  /\ reports' = reports + 1
  /\ UNCHANGED <<held, version, known, lastMask, wire, entity, linked, due,
                 behind, missed, published, changes, losses>>

\* A flag is changed at the device, which announces it.
ChangeFlag(f) ==
  /\ linked
  /\ changes < MaxChanges
  /\ held' = [held EXCEPT ![f] = 1 - @]
  /\ version' = version + 1
  /\ air' = Append(air, [Report EXCEPT !.byte = held', !.version = version'])
  /\ changes' = changes + 1
  /\ UNCHANGED <<known, lastMask, wire, entity, linked, due, behind, missed,
                 published, reports, losses>>

LoseLink ==
  /\ linked
  /\ losses < MaxLosses
  /\ linked' = FALSE
  /\ missed' = (missed \/ air # <<>> \/ wire # <<>>)
  /\ wire' = <<>> /\ air' = <<>>
  /\ losses' = losses + 1
  /\ UNCHANGED <<held, version, known, lastMask, entity, due, behind, published,
                 changes, reports>>

RestoreLink ==
  /\ ~linked
  /\ linked' = TRUE
  /\ UNCHANGED <<held, version, known, lastMask, wire, air, entity, due, behind,
                 missed, published, changes, reports, losses>>

CommandNext ==
  \/ \E s \in Settings :
       \/ \E value \in 0..1 : SetSetting(s, value)
       \/ SessionStarted(s)
       \/ NotSent(s)
       \/ RequestStatus(s)
  \/ Receive
  \/ Notified
  \/ \E refused \in BOOLEAN : TakeMessage(refused)
  \/ SendReport
  \/ \E f \in Flags : ChangeFlag(f)
  \/ LoseLink
  \/ RestoreLink

CommandSpec == CommandInit /\ [][CommandNext]_commandVars

(***************************************************************************)
(* Properties.                                                             *)
(***************************************************************************)

\* A command for one setting carries every other flag as it was published or
\* reported last: two switches set one after the other, before any report,
\* do not undo each other, and flags that are no setting are kept.  This is
\* what switch.py:1186 copies the mock response for, and what mask_state is
\* for (mqttcmdmap.py:33).
CommandsAddUp ==
  [][\A s \in Settings :
       /\ published' > published
       /\ entity'[s].at = "pause" /\ entity[s].at # "pause"
       /\ ComposedFresh(s)
       => \A f \in Flags \ {s} : wire'[Len(wire')].byte[f] = due[f]]_commandVars

\* When nothing is under way and no report was lost, the known state and the
\* descriptions are those of the device, also after commands that it refused:
\* the report asked for after each command corrects the mock (switch.py:1190).
QuietCacheTrue ==
  /\ \A s \in Settings : entity[s] = AtRest
  /\ wire = <<>> /\ air = <<>>
  /\ ~missed
  /\ known # Unknown
  => /\ \A s \in Settings : known.values[s] = held[s]
     /\ known.mask = held
     /\ lastMask = held
=============================================================================
