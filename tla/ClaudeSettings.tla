--------------------------- MODULE ClaudeSettings ---------------------------
(***************************************************************************)
(* Claude Code's settings.json as Copool switches it between the official  *)
(* login and Sub2api providers.  A provider's settings file is merged over *)
(* the official settings, which are recorded with what was written; going  *)
(* back takes the record with the changes made since.  Claude Code and its *)
(* user change the settings at any time, without Copool's lock.            *)
(*                                                                         *)
(* Of the settings the model keeps what replaces the login ("login"), the  *)
(* address it is sent to ("url") and any other ("pref").  The credentials  *)
(* an official switch also writes are those of ClaudeLogins.               *)
(***************************************************************************)
EXTENDS Integers

CONSTANTS
  Relays,       \* the providers
  Files,        \* settings files of providers
  Choices,      \* values the user sets
  Absent,
  MaxEdits,     \* bound: changes by the user and of a provider's file
  MaxFaults     \* bound: writes that fail, and crashes

ASSUME SettingsBounds == MaxEdits \in Nat /\ MaxFaults \in Nat

VARIABLES
  main,         \* settings.json
  record,       \* claude-official-settings.json, or Absent
  relay,        \* the pool's settings_provider, or Absent
  paths,        \* the settings file of each provider
  switching,    \* the switch that runs, or Absent
  wanted,       \* the values of "pref" the user may expect in the official settings
  home,         \* the addresses settings had that nothing replaced the login in, without a record
  mixed,        \* a fault has left a record and settings of different switches
  edits, faults \* bounds

settingsVars == <<main, record, relay, paths, switching, wanted, home, mixed, edits, faults>>
settingsBounds == <<edits, faults>>

Keys == {"login", "url", "pref"}
Values == Choices \cup Files \cup {Absent}
Settings == [Keys -> Values]
Record == [settings: Settings, written: Settings]
Switching ==
  [pc: {"locking", "recording", "putting", "saving", "forgetting"}, to: Relays \cup {Absent},
   file: Files \cup {Absent}, document: Settings, seen: Settings, puts: BOOLEAN,
   next: Settings, had: Record \cup {Absent}, base: Settings]

ASSUME SettingsValues ==
  /\ Absent \notin Relays \cup Files \cup Choices /\ Files \cap Choices = {}
  /\ Absent \notin Record \cup Switching

SettingsTypeOK ==
  /\ main \in Settings /\ record \in Record \cup {Absent}
  /\ relay \in Relays \cup {Absent} /\ paths \in [Relays -> Files]
  /\ switching \in Switching \cup {Absent}
  /\ wanted \in SUBSET Values /\ home \in SUBSET Values /\ mixed \in BOOLEAN
  /\ edits \in 0..MaxEdits /\ faults \in 0..MaxFaults

SettingsInit ==
  /\ main \in [Keys -> Choices \cup {Absent}]
  /\ record = Absent /\ relay = Absent /\ switching = Absent
  /\ paths \in [Relays -> Files]
  /\ wanted = {main["pref"]}
  /\ home = {Absent} \cup (IF main["login"] = Absent THEN {main["url"]} ELSE {})
  /\ mixed = FALSE /\ edits = 0 /\ faults = 0

Edit == edits < MaxEdits /\ edits' = edits + 1
Fault == faults < MaxFaults /\ faults' = faults + 1

-----------------------------------------------------------------------------
(* The settings themselves.                                                *)

\* overrides: something replaces the subscription login.
Overridden(s) == s["login"] # Absent

\* rebase: what is still as written takes the value of the base again.
Rebase(base, written, current) ==
  [k \in Keys |-> IF current[k] = written[k] THEN base[k] ELSE current[k]]

\* official_base, which never keeps a login or an address set under a provider.
OfficialBaseAsRebased(rec, current) ==           \* variant: the address is not put back
  IF current = rec.written THEN rec.settings
  ELSE [Rebase(rec.settings, rec.written, current) EXCEPT !["login"] = Absent]
OfficialBaseAsRecorded(rec, current) == rec.settings    \* variant: changes are not kept
OfficialBase(rec, current) ==
  IF current = rec.written THEN rec.settings
  ELSE [Rebase(rec.settings, rec.written, current) EXCEPT
          !["login"] = Absent, !["url"] = rec.settings["url"]]

\* without_login_replacement: the address goes with the credential.
OwnBase(s) == IF Overridden(s) THEN [s EXCEPT !["login"] = Absent, !["url"] = Absent] ELSE s

\* merge
Over(base, document) ==
  [k \in Keys |-> IF document[k] = Absent THEN base[k] ELSE document[k]]

\* What either switch goes back to.
Base(current) == IF record = Absent THEN OwnBase(current) ELSE OfficialBase(record, current)

-----------------------------------------------------------------------------
(* claude_switch_sub2api.                                                  *)

\* The provider's file is found and read before the pool is locked; it gives the
\* address and the credential, and may set anything else.
RelayFinds(p) ==
  /\ switching = Absent
  /\ \E pref \in {paths[p], Absent} :
       LET document == [k \in Keys |-> IF k = "pref" THEN pref ELSE paths[p]] IN
       switching' = [pc |-> "locking", to |-> p, file |-> paths[p], document |-> document,
                     seen |-> document, puts |-> TRUE, next |-> document,
                     had |-> Absent, base |-> document]
  /\ UNCHANGED <<main, record, relay, paths, wanted, home, mixed, settingsBounds>>

At(pc) == switching # Absent /\ switching.pc = pc

\* The provider may have changed meanwhile.
RelayLocks ==
  /\ At("locking")
  /\ switching' =
       IF paths[switching.to] # switching.file THEN Absent
       ELSE [switching EXCEPT !.pc = "recording", !.seen = main, !.had = record,
                              !.base = Base(main), !.next = Over(Base(main), switching.document)]
  /\ UNCHANGED <<main, record, relay, paths, wanted, home, mixed, settingsBounds>>

\* claude_record_official, before the settings are written.
Records ==
  /\ At("recording")
  /\ record' = [settings |-> switching.base, written |-> switching.next]
  /\ switching' = [switching EXCEPT !.pc = "putting"]
  /\ UNCHANGED <<main, relay, paths, wanted, home, mixed, settingsBounds>>

RecordFails ==
  /\ At("recording") /\ Fault
  /\ switching' = Absent
  /\ UNCHANGED <<main, record, relay, paths, wanted, home, mixed, edits>>

-----------------------------------------------------------------------------
(* claude_switch_with_access, from where it reads the settings.            *)

\* Official settings without a record are left as they are.
OfficialPlans ==
  /\ switching = Absent
  /\ switching' = [pc |-> "putting", to |-> Absent, file |-> Absent, document |-> Base(main),
                   seen |-> main, puts |-> record # Absent \/ Overridden(main),
                   next |-> Base(main), had |-> record, base |-> Base(main)]
  /\ UNCHANGED <<main, record, relay, paths, wanted, home, mixed, settingsBounds>>

\* The login could not be written: nothing of the settings has changed.
OfficialGivesUp ==
  /\ At("putting") /\ switching.to = Absent /\ Fault
  /\ switching' = Absent
  /\ UNCHANGED <<main, record, relay, paths, wanted, home, mixed, edits>>

\* The record has served once its settings and the pool are saved.
Forgets ==
  /\ At("forgetting")
  /\ record' = Absent
  /\ switching' = Absent
  /\ UNCHANGED <<main, relay, paths, wanted, home, mixed, settingsBounds>>

ForgetFails ==
  /\ At("forgetting") /\ Fault
  /\ switching' = Absent
  /\ UNCHANGED <<main, record, relay, paths, wanted, home, mixed, edits>>

-----------------------------------------------------------------------------
(* Both: put_settings, claude_save, and what a failure takes back.         *)

Puts ==
  /\ At("putting")
  /\ main' = IF switching.puts THEN switching.next ELSE main
  /\ switching' = [switching EXCEPT !.pc = "saving"]
  /\ UNCHANGED <<record, relay, paths, wanted, home, mixed, settingsBounds>>

Saves ==
  /\ At("saving")
  /\ relay' = switching.to
  /\ switching' = IF switching.to = Absent /\ switching.had # Absent
                  THEN [switching EXCEPT !.pc = "forgetting"] ELSE Absent
  /\ UNCHANGED <<main, record, paths, wanted, home, mixed, settingsBounds>>

\* Writing the settings or the pool fails.  What takes the settings and the record
\* back may fail as well, which nobody is told of.
Undoes ==
  /\ \/ At("putting") /\ switching.to # Absent
     \/ At("saving")
  /\ Fault
  /\ \E settingsBack, recordBack \in BOOLEAN :
       /\ main' = IF settingsBack /\ switching.puts THEN switching.seen ELSE main
       /\ record' = IF recordBack THEN switching.had ELSE record
       /\ mixed' = (mixed \/ (switching.to # Absent /\
                      IF settingsBack \/ At("putting") THEN ~recordBack /\ switching.had # Absent
                      ELSE recordBack))
  /\ home' = IF record' = Absent /\ ~Overridden(main') THEN home \cup {main'["url"]} ELSE home
  /\ switching' = Absent
  /\ UNCHANGED <<relay, paths, wanted, edits>>

-----------------------------------------------------------------------------
(* The user, Claude Code, and crashes.                                     *)

\* The settings are the official ones again, whether or not they replace the login.
GoneHome ==
  \/ record = Absent
  \/ switching # Absent /\ switching.to = Absent /\ switching.pc # "putting"

\* A change made while a switch has read the settings may be lost.
NothingRead == switching = Absent \/ At("locking")
SettingsEdited(k, v) ==
  /\ Edit
  /\ v # main[k]
  /\ main' = [main EXCEPT ![k] = v]
  /\ wanted' = IF k # "pref" THEN wanted ELSE IF NothingRead THEN {v} ELSE wanted \cup {v}
  /\ mixed' = (mixed /\ ~(k = "pref" /\ NothingRead))
  /\ home' = IF GoneHome /\ ~Overridden(main') THEN home \cup {main'["url"]} ELSE home
  /\ UNCHANGED <<record, relay, paths, switching, faults>>

\* claude_save_sub2api_provider names another file, when the pool is not locked.
Repoints(p, f) ==
  /\ Edit
  /\ NothingRead
  /\ paths' = [paths EXCEPT ![p] = f]
  /\ UNCHANGED <<main, record, relay, switching, wanted, home, mixed, faults>>

\* Between the record and the settings of a second provider, the settings are
\* still the first one's.
SettingsCrash ==
  /\ switching # Absent /\ Fault
  /\ mixed' = (mixed \/ (At("putting") /\ switching.to # Absent /\ switching.had # Absent))
  /\ switching' = Absent
  /\ UNCHANGED <<main, record, relay, paths, wanted, home, edits>>

SettingsNext ==
  \/ \E p \in Relays : RelayFinds(p) \/ \E f \in Files : Repoints(p, f)
  \/ RelayLocks \/ Records \/ RecordFails
  \/ OfficialPlans \/ OfficialGivesUp \/ Forgets \/ ForgetFails
  \/ Puts \/ Saves \/ Undoes
  \/ \E k \in Keys, v \in Choices \cup {Absent} : SettingsEdited(k, v)
  \/ SettingsCrash

SettingsSpec == SettingsInit /\ [][SettingsNext]_settingsVars

-----------------------------------------------------------------------------
(* What is promised.                                                       *)

\* A return to the official settings gives the value the user last chose for any
\* setting that does not concern the login, chosen under a provider or not.  Claimed
\* unless a fault has left the record and the settings of different switches, until the
\* user chooses again: a crash between the record and the settings of a second provider,
\* or a failed switch of which one of the two could not be taken back.
OfficialSettingsKept == switching = Absent /\ ~mixed => Base(main)["pref"] \in wanted

\* The settings Copool goes back to never replace the login, and send it only to an
\* address that settings have had without a record while nothing in them replaced the
\* login: never to one set beside a provider's credential.  This is claimed after every
\* fault; a provider's address is among those only when an undo left the provider's
\* settings without their record and the user then takes out the credential alone.
LoginGoesHome ==
  /\ record # Absent => record.settings["login"] = Absent /\ record.settings["url"] \in home
  /\ At("putting") /\ switching.to = Absent /\ switching.puts
       => switching.next["login"] = Absent /\ switching.next["url"] \in home

\* Whatever providers were switched to, changed and failed, the login Copool goes back to
\* is neither replaced nor sent to a provider; and the user's own settings come back,
\* where no fault left the record and the settings of different switches.
OfficialRestored == OfficialSettingsKept /\ LoginGoesHome
=============================================================================
