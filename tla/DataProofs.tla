----------------------------- MODULE DataProofs -----------------------------
(***************************************************************************)
(* Proofs about the files Copool writes, for any providers and values: going*)
(* back to the user's own settings of Claude Code returns them, the shared *)
(* data files agree, and a switch of Codex's provider takes effect.        *)
(***************************************************************************)
EXTENDS ClaudeSettings, DataFiles, CodexConfig,
        FiniteSetTheorems, SequenceTheorems, WellFoundedInduction, TLAPS

-----------------------------------------------------------------------------
(* Claude Code's settings.                                                 *)

(* The user may expect the value, unless a fault mixed two switches.       *)
Expected(v) == mixed \/ v \in wanted

(* What going back gives for a setting that does not concern the login.    *)
PrefOf(current, rec) ==
  IF rec = Absent THEN current["pref"]
  ELSE IF current["pref"] = rec.written["pref"] THEN rec.settings["pref"] ELSE current["pref"]

(* A record goes back to the user's own login and address, and differs     *)
(* from what was written over it by values of provider files only.         *)
GoodRecord(rec) ==
  rec # Absent =>
    /\ rec.settings["login"] = Absent /\ rec.settings["url"] \in home
    /\ rec.written["pref"] = rec.settings["pref"] \/ rec.written["pref"] \in Files

(* Settings and record at rest: nothing of the user's is lost.             *)
AtHome(current, rec) ==
  /\ GoodRecord(rec) /\ Expected(PrefOf(current, rec))
  /\ rec = Absent /\ ~Overridden(current) => current["url"] \in home

(* A switch has what it needs to go on and to go back.                     *)
SwitchKept ==
  switching # Absent =>
    /\ switching.pc # "locking" =>
         /\ AtHome(switching.seen, switching.had)
         /\ switching.base["login"] = Absent /\ switching.base["url"] \in home
         /\ Expected(switching.base["pref"])
    /\ switching.to # Absent =>
         /\ switching.pc \in {"locking", "recording", "putting", "saving"} /\ switching.puts
         /\ switching.document["pref"] \in Files \cup {Absent}
         /\ switching.pc # "locking" => switching.next["pref"] \in Files \cup {switching.base["pref"]}
         /\ switching.pc = "recording" => record = switching.had
         /\ switching.pc \in {"putting", "saving"} =>
              record = [settings |-> switching.base, written |-> switching.next]
         /\ switching.pc = "putting" => Expected(PrefOf(main, switching.had))
    /\ switching.to = Absent =>
         /\ switching.pc \in {"putting", "saving", "forgetting"}
         /\ record = switching.had /\ switching.next = switching.base
         /\ ~switching.puts => record = Absent
         /\ switching.next["pref"] = PrefOf(switching.seen, switching.had)
         /\ switching.pc # "putting" => Expected(main["pref"])
         /\ switching.pc = "forgetting" => record # Absent

(* Whenever no switch is between its two writes, the user's settings can   *)
(* be gone back to.                                                        *)
NowHome ==
  /\ GoodRecord(record)
  /\ ~(switching # Absent /\ switching.pc = "putting" /\ switching.to # Absent)
       => Expected(PrefOf(main, record))
  /\ GoneHome /\ ~Overridden(main) => main["url"] \in home
  /\ Absent \in home

SettingsInv == SettingsTypeOK /\ SwitchKept /\ NowHome

LEMMA SettingsShapes ==
  /\ Absent \in Values /\ "login" \in Keys /\ "url" \in Keys /\ "pref" \in Keys
  /\ \A s \in Switching : s # Absent
  /\ \A r \in Record : r # Absent
  /\ \A f \in Files : f # Absent /\ f \notin Choices
  /\ \A p \in Relays : p # Absent
BY SettingsValues DEF Values, Keys

(* Going back keeps the user's own value of every other setting, and never *)
(* a login or an address set under a provider.                             *)
LEMMA BaseGoesHome ==
  ASSUME SettingsTypeOK, GoodRecord(record)
  PROVE  /\ Base(main) \in Settings
         /\ Base(main)["login"] = Absent
         /\ Base(main)["pref"] = PrefOf(main, record)
         /\ record # Absent => Base(main)["url"] \in home
         /\ record = Absent => Base(main)["url"] = IF Overridden(main) THEN Absent ELSE main["url"]
<1> USE SettingsShapes
<1>1. main \in Settings /\ (record # Absent => record \in Record) BY DEF SettingsTypeOK
<1>2. CASE record = Absent
  <2>1. Base(main) = OwnBase(main) BY <1>2 DEF Base
  <2> QED BY <1>1, <1>2, <2>1 DEF OwnBase, Overridden, Settings, PrefOf, Keys
<1>3. CASE record # Absent
  <2>1. record.settings \in Settings /\ record.written \in Settings BY <1>1, <1>3 DEF Record
  <2>2. Base(main) = OfficialBase(record, main) BY <1>3 DEF Base
  <2>3. CASE main = record.written
    BY <1>3, <2>1, <2>2, <2>3 DEF OfficialBase, PrefOf, GoodRecord
  <2>4. CASE main # record.written
    <3> DEFINE R == Rebase(record.settings, record.written, main)
    <3>1. R \in Settings BY <1>1, <2>1 DEF Rebase, Settings
    <3>2. R["pref"] = PrefOf(main, record) BY <1>3 DEF Rebase, PrefOf
    <3>3. Base(main) = [R EXCEPT !["login"] = Absent, !["url"] = record.settings["url"]]
      BY <2>2, <2>4 DEF OfficialBase
    <3> HIDE DEF R
    <3>4. record.settings["url"] \in Values BY <2>1 DEF Settings
    <3> QED BY <1>3, <3>1, <3>2, <3>3, <3>4 DEF Settings, Keys, GoodRecord
  <2> QED BY <2>3, <2>4
<1> QED BY <1>2, <1>3

LEMMA SettingsStart == SettingsInit => SettingsInv
<1> SUFFICES ASSUME SettingsInit PROVE SettingsInv
  OBVIOUS
<1> USE SettingsShapes DEF Expected, SettingsInit
<1>1. main \in Settings BY DEF Settings, Values
<1>2. wanted \in SUBSET Values /\ home \in SUBSET Values BY <1>1 DEF Settings
<1>3. edits \in 0..MaxEdits /\ faults \in 0..MaxFaults BY SettingsBounds
<1>4. SettingsTypeOK BY <1>1, <1>2, <1>3 DEF SettingsTypeOK
<1>5. SwitchKept BY DEF SwitchKept
<1>6. NowHome BY DEF NowHome, GoodRecord, PrefOf, Overridden
<1> QED BY <1>4, <1>5, <1>6 DEF SettingsInv

LEMMA OneMoreStep ==
  SettingsTypeOK => /\ UNCHANGED settingsBounds \/ (Edit /\ faults' = faults) \/ (Fault /\ edits' = edits)
                         => edits' \in 0..MaxEdits /\ faults' \in 0..MaxFaults
BY SettingsBounds DEF SettingsTypeOK, Edit, Fault, settingsBounds

(* The switch to a provider.                                               *)
LEMMA FindsKeeps ==
  ASSUME SettingsInv, NEW p \in Relays, RelayFinds(p) PROVE SettingsInv'
<1> USE SettingsShapes DEF Expected, SettingsInv, RelayFinds
<1>1. PICK pref \in {paths[p], Absent} :
        LET document == [k \in Keys |-> IF k = "pref" THEN pref ELSE paths[p]] IN
        switching' = [pc |-> "locking", to |-> p, file |-> paths[p], document |-> document,
                     seen |-> document, puts |-> TRUE, next |-> document,
                     had |-> Absent, base |-> document]
  OBVIOUS
<1> DEFINE document == [k \in Keys |-> IF k = "pref" THEN pref ELSE paths[p]]
<1>2. paths[p] \in Files BY DEF SettingsTypeOK
<1>3. document \in Settings BY <1>2 DEF Settings, Values
<1>4. document["pref"] \in Files \cup {Absent} BY <1>2
<1> HIDE DEF document
<1>5. switching' = [pc |-> "locking", to |-> p, file |-> paths[p], document |-> document,
                    seen |-> document, puts |-> TRUE, next |-> document,
                    had |-> Absent, base |-> document]
  BY <1>1 DEF document
<1>6. switching' \in Switching BY <1>2, <1>3, <1>5 DEF Switching
<1>7. SettingsTypeOK' BY <1>6, OneMoreStep DEF SettingsTypeOK
<1>8. SwitchKept' BY <1>4, <1>5 DEF SwitchKept
<1>9. NowHome' BY <1>5 DEF NowHome, GoodRecord, GoneHome
<1> QED BY <1>7, <1>8, <1>9

LEMMA LocksKeeps == SettingsInv /\ RelayLocks => SettingsInv'
<1> SUFFICES ASSUME SettingsInv, RelayLocks PROVE SettingsInv'
  OBVIOUS
<1> USE SettingsShapes DEF Expected, SettingsInv, RelayLocks, At
<1>1. switching \in Switching /\ switching.pc = "locking" BY DEF SettingsTypeOK
<1>2. UNCHANGED <<main, record, relay, paths, wanted, home, mixed, settingsBounds>> OBVIOUS
<1>3. CASE switching' = Absent
  <2>1. SettingsTypeOK' BY <1>2, <1>3, OneMoreStep DEF SettingsTypeOK
  <2>2. SwitchKept' BY <1>3 DEF SwitchKept
  <2>3. NowHome' BY <1>1, <1>2, <1>3 DEF NowHome, GoodRecord, GoneHome, SwitchKept
  <2> QED BY <2>1, <2>2, <2>3
<1>4. CASE switching' # Absent
  <2> DEFINE base == Base(main)
             next == Over(Base(main), switching.document)
  <2>1. switching' = [switching EXCEPT !.pc = "recording", !.seen = main, !.had = record,
                        !.base = base, !.next = next]
    BY <1>4
  <2>2. /\ base \in Settings /\ base["login"] = Absent /\ base["pref"] = PrefOf(main, record)
        /\ base["url"] \in home
    BY BaseGoesHome, <1>1 DEF NowHome, GoneHome
  <2>3. switching.document \in Settings BY <1>1 DEF Switching
  <2>4. next \in Settings BY <2>2, <2>3 DEF Over, Settings
  <2>5. switching.to # Absent BY <1>1 DEF SwitchKept
  <2>6. next["pref"] \in Files \cup {base["pref"]}
    BY <1>1, <2>5 DEF Over, SwitchKept
  <2>7. main \in Settings /\ record \in Record \cup {Absent} BY DEF SettingsTypeOK
  <2> HIDE DEF base, next
  <2>8. /\ switching' \in Switching /\ switching'.pc = "recording" /\ switching'.seen = main
        /\ switching'.had = record /\ switching'.base = base /\ switching'.next = next
        /\ switching'.to = switching.to /\ switching'.puts = switching.puts
        /\ switching'.document = switching.document
    BY <1>1, <2>1, <2>2, <2>4, <2>7 DEF Switching
  <2>9. SettingsTypeOK' BY <1>2, <2>8, OneMoreStep DEF SettingsTypeOK
  <2>10. Expected(PrefOf(main, record)) BY <1>1 DEF NowHome
  <2>11. NowHome' BY <1>2, <2>5, <2>8, <2>10 DEF NowHome, GoodRecord, GoneHome
  <2>12. AtHome(main, record) BY <1>1, <2>10 DEF NowHome, AtHome, GoneHome
  <2>13. SwitchKept'
    BY <1>1, <1>2, <2>2, <2>5, <2>6, <2>8, <2>10, <2>12
    DEF SwitchKept, AtHome, GoodRecord, Overridden, PrefOf
  <2> QED BY <2>9, <2>11, <2>13
<1> QED BY <1>3, <1>4

LEMMA RecordsKeeps == SettingsInv /\ Records => SettingsInv'
<1> SUFFICES ASSUME SettingsInv, Records PROVE SettingsInv'
  OBVIOUS
<1> USE SettingsShapes DEF Expected, SettingsInv, Records, At
<1>1. switching \in Switching /\ switching.pc = "recording" BY DEF SettingsTypeOK
<1>2. /\ UNCHANGED <<main, relay, paths, wanted, home, mixed, settingsBounds>>
      /\ record' = [settings |-> switching.base, written |-> switching.next]
  OBVIOUS
<1>3. /\ switching' \in Switching /\ switching'.pc = "putting" /\ switching'.seen = switching.seen
      /\ switching'.had = switching.had /\ switching'.base = switching.base
      /\ switching'.next = switching.next /\ switching'.to = switching.to
      /\ switching'.puts = switching.puts /\ switching'.document = switching.document
  BY <1>1 DEF Switching
<1>4. record' \in Record BY <1>1, <1>2 DEF Record, Switching
<1>5. switching.to # Absent BY <1>1 DEF SwitchKept
<1>6. SettingsTypeOK' BY <1>2, <1>3, <1>4, OneMoreStep DEF SettingsTypeOK
<1>7. GoodRecord(record)' BY <1>1, <1>2, <1>5 DEF SwitchKept, GoodRecord
<1>8. NowHome' BY <1>2, <1>3, <1>4, <1>5, <1>7 DEF NowHome, GoneHome
<1>9. Expected(PrefOf(main, switching.had)) /\ Expected(PrefOf(main, switching.had))'
  <2>1. record = switching.had BY <1>1, <1>5 DEF SwitchKept
  <2>2. Expected(PrefOf(main, record)) BY <1>1 DEF NowHome
  <2> QED BY <1>2, <1>3, <2>1, <2>2
<1>10. SwitchKept'
  BY <1>1, <1>2, <1>3, <1>5, <1>9 DEF SwitchKept, AtHome, GoodRecord, PrefOf, Overridden
<1> QED BY <1>6, <1>8, <1>10

(* The return to the official settings.                                    *)
LEMMA PlansKeeps == SettingsInv /\ OfficialPlans => SettingsInv'
<1> SUFFICES ASSUME SettingsInv, OfficialPlans PROVE SettingsInv'
  OBVIOUS
<1> USE SettingsShapes DEF Expected, SettingsInv, OfficialPlans
<1> DEFINE base == Base(main)
<1>1. /\ base \in Settings /\ base["login"] = Absent /\ base["pref"] = PrefOf(main, record)
      /\ base["url"] \in home /\ Expected(PrefOf(main, record)) /\ AtHome(main, record)
  BY BaseGoesHome DEF NowHome, GoneHome, AtHome
<1>2. switching' = [pc |-> "putting", to |-> Absent, file |-> Absent, document |-> base,
                    seen |-> main, puts |-> record # Absent \/ Overridden(main),
                    next |-> base, had |-> record, base |-> base]
  OBVIOUS
<1>3. main \in Settings /\ record \in Record \cup {Absent} BY DEF SettingsTypeOK
<1> HIDE DEF base
<1>4. switching' \in Switching
  <2>1. (record # Absent \/ Overridden(main)) \in BOOLEAN OBVIOUS
  <2> QED BY <1>1, <1>2, <1>3, <2>1 DEF Switching
<1>5. SettingsTypeOK' BY <1>4, OneMoreStep DEF SettingsTypeOK
<1>6. NowHome' BY <1>1, <1>2 DEF NowHome, GoodRecord, GoneHome, PrefOf, Overridden
<1>7. UNCHANGED <<main, record, home, wanted, mixed>> OBVIOUS
<1>9. AtHome(main, record)' BY <1>1, <1>2, <1>7 DEF AtHome, GoodRecord, PrefOf, Overridden
<1>8. /\ switching'.seen = main /\ switching'.next["pref"] = PrefOf(main, record)
      /\ switching'.puts = (record # Absent \/ Overridden(main))
  BY <1>1, <1>2
<1>10. ~switching'.puts => record = Absent BY ONLY <1>8
<1>11. switching'.to = Absent /\ switching'.pc = "putting" /\ switching'.had = record
       /\ switching'.base = base /\ switching'.next = base
  BY <1>2
<1>12. SwitchKept'
  BY <1>1, <1>7, <1>8, <1>9, <1>10, <1>11 DEF SwitchKept, AtHome, GoodRecord, PrefOf, Overridden
<1> QED BY <1>5, <1>6, <1>12

LEMMA PutsKeeps == SettingsInv /\ Puts => SettingsInv'
<1> SUFFICES ASSUME SettingsInv, Puts PROVE SettingsInv'
  OBVIOUS
<1> USE SettingsShapes DEF Expected, SettingsInv, Puts, At
<1>1. switching \in Switching /\ switching.pc = "putting" BY DEF SettingsTypeOK
<1>2. /\ UNCHANGED <<record, relay, paths, wanted, home, mixed, settingsBounds>>
      /\ main' = IF switching.puts THEN switching.next ELSE main
  OBVIOUS
<1>3. /\ switching' \in Switching /\ switching'.pc = "saving" /\ switching'.seen = switching.seen
      /\ switching'.had = switching.had /\ switching'.base = switching.base
      /\ switching'.next = switching.next /\ switching'.to = switching.to
      /\ switching'.puts = switching.puts /\ switching'.document = switching.document
  BY <1>1 DEF Switching
<1>4. SettingsTypeOK' BY <1>1, <1>2, <1>3, OneMoreStep DEF SettingsTypeOK, Switching
<1>5. GoodRecord(record)' BY <1>2 DEF NowHome, GoodRecord
<1>6. CASE switching.to # Absent
  <2>1. /\ main' = switching.next /\ record # Absent
        /\ record = [settings |-> switching.base, written |-> switching.next]
    <3>1. record = [settings |-> switching.base, written |-> switching.next] /\ switching.puts
      BY <1>1, <1>6 DEF SwitchKept
    <3>2. record \in Record BY <1>1, <3>1 DEF Record, Switching
    <3> QED BY <1>2, <3>1, <3>2
  <2>2. Expected(PrefOf(main, record))'
    BY <1>1, <1>2, <1>6, <2>1 DEF SwitchKept, PrefOf
  <2>3. NowHome' BY <1>2, <1>3, <1>5, <1>6, <2>1, <2>2 DEF NowHome, GoneHome, PrefOf
  <2>4. SwitchKept'
    BY <1>1, <1>2, <1>3, <1>6 DEF SwitchKept, AtHome, GoodRecord, PrefOf, Overridden
  <2> QED BY <1>4, <2>3, <2>4
<1>7. CASE switching.to = Absent
  <2>1. /\ AtHome(switching.seen, switching.had) /\ record = switching.had
        /\ switching.next["pref"] = PrefOf(switching.seen, switching.had)
        /\ switching.next["login"] = Absent /\ switching.next["url"] \in home
        /\ (~switching.puts => record = Absent)
    BY <1>1, <1>7 DEF SwitchKept
  <2>2. Expected(main'["pref"]) /\ Expected(PrefOf(main, record))'
    <3>1. CASE switching.puts
      BY <1>2, <2>1, <3>1 DEF AtHome, PrefOf
    <3>2. CASE ~switching.puts
      BY <1>1, <1>2, <1>7, <2>1, <3>2 DEF NowHome, PrefOf
    <3> QED BY <3>1, <3>2
  <2>3. ~Overridden(main') => main'["url"] \in home
    <3>1. CASE switching.puts BY <1>2, <2>1, <3>1
    <3>2. CASE ~switching.puts BY <1>2, <2>1, <3>2 DEF NowHome, GoneHome
    <3> QED BY <3>1, <3>2
  <2>4. NowHome'
    BY <1>2, <1>3, <1>5, <1>7, <2>2, <2>3 DEF NowHome, PrefOf, GoneHome, Overridden
  <2>5. SwitchKept'
    BY <1>1, <1>2, <1>3, <1>7, <2>2 DEF SwitchKept, AtHome, GoodRecord, PrefOf, Overridden
  <2> QED BY <1>4, <2>4, <2>5
<1> QED BY <1>6, <1>7

LEMMA SavesKeeps == SettingsInv /\ Saves => SettingsInv'
<1> SUFFICES ASSUME SettingsInv, Saves PROVE SettingsInv'
  OBVIOUS
<1> USE SettingsShapes DEF Expected, SettingsInv, Saves, At
<1>1. switching \in Switching /\ switching.pc = "saving" BY DEF SettingsTypeOK
<1>2. UNCHANGED <<main, record, paths, wanted, home, mixed, settingsBounds>> /\ relay' = switching.to
  OBVIOUS
<1>3. GoodRecord(record)' BY <1>2 DEF NowHome, GoodRecord
<1>4. Expected(PrefOf(main, record))' BY <1>1, <1>2 DEF NowHome, PrefOf
<1>5. CASE switching.to = Absent /\ switching.had # Absent
  <2>1. /\ switching' \in Switching /\ switching'.pc = "forgetting"
        /\ switching'.seen = switching.seen
        /\ switching'.had = switching.had /\ switching'.base = switching.base
        /\ switching'.next = switching.next /\ switching'.to = switching.to
        /\ switching'.puts = switching.puts /\ switching'.document = switching.document
    BY <1>1, <1>5 DEF Switching
  <2>2. SettingsTypeOK' BY <1>1, <1>2, <2>1, OneMoreStep DEF SettingsTypeOK, Switching
  <2>3. NowHome' BY <1>1, <1>2, <1>3, <1>4, <1>5, <2>1 DEF NowHome, GoneHome, PrefOf, Overridden
  <2>4. SwitchKept'
    BY <1>1, <1>2, <1>5, <2>1 DEF SwitchKept, AtHome, GoodRecord, PrefOf, Overridden
  <2> QED BY <2>2, <2>3, <2>4
<1>6. CASE ~(switching.to = Absent /\ switching.had # Absent)
  <2>1. switching' = Absent BY <1>6
  <2>2. SettingsTypeOK' BY <1>1, <1>2, <2>1, OneMoreStep DEF SettingsTypeOK, Switching
  <2>3. GoneHome' => GoneHome BY <1>2, <2>1 DEF GoneHome
  <2>4. NowHome' BY <1>2, <1>3, <1>4, <2>1, <2>3 DEF NowHome, PrefOf, Overridden
  <2>5. SwitchKept' BY <2>1 DEF SwitchKept
  <2> QED BY <2>2, <2>4, <2>5
<1> QED BY <1>5, <1>6

(* A switch that fails, crashes or ends leaves settings and record at rest. *)
LEMMA SwitchGone ==
  ASSUME SettingsInv, switching' = Absent, SettingsTypeOK', GoodRecord(record)',
         Expected(PrefOf(main, record))', home \subseteq home',
         record' = Absent /\ ~Overridden(main') => main'["url"] \in home'
  PROVE  SettingsInv'
<1>1. Absent \in home' BY DEF SettingsInv, NowHome
<1>2. NowHome' BY <1>1 DEF NowHome, GoneHome, Overridden
<1>3. SwitchKept' BY DEF SwitchKept
<1> QED BY <1>2, <1>3 DEF SettingsInv

LEMMA EndsKeep ==
  ASSUME SettingsInv, RecordFails \/ OfficialGivesUp \/ Forgets \/ ForgetFails
  PROVE  SettingsInv'
<1> USE SettingsShapes DEF Expected, SettingsInv, At
<1>1. switching \in Switching /\ switching' = Absent
  BY DEF SettingsTypeOK, RecordFails, OfficialGivesUp, Forgets, ForgetFails
<1>2. UNCHANGED <<relay, paths, wanted, home, mixed>>
      /\ (UNCHANGED settingsBounds \/ (Fault /\ edits' = edits))
  BY DEF RecordFails, OfficialGivesUp, Forgets, ForgetFails
<1>3. CASE RecordFails \/ OfficialGivesUp \/ ForgetFails
  <2>1. UNCHANGED <<main, record>> /\ ~(switching.pc = "putting" /\ switching.to # Absent)
    BY <1>3 DEF RecordFails, OfficialGivesUp, ForgetFails
  <2>2. SettingsTypeOK' BY <1>1, <1>2, <2>1, OneMoreStep DEF SettingsTypeOK
  <2> QED BY <1>1, <1>2, <2>1, <2>2, SwitchGone DEF NowHome, GoodRecord, PrefOf, GoneHome, Overridden
<1>4. CASE Forgets
  <2>1. main' = main /\ record' = Absent /\ switching.pc = "forgetting" BY <1>4 DEF Forgets
  <2>2. Expected(main["pref"]) /\ GoneHome
    BY <1>1, <2>1 DEF SwitchKept, GoneHome
  <2>3. SettingsTypeOK' BY <1>1, <1>2, <2>1, OneMoreStep DEF SettingsTypeOK
  <2> QED BY <1>1, <1>2, <2>1, <2>2, <2>3, SwitchGone
        DEF NowHome, GoodRecord, PrefOf, GoneHome, Overridden
<1> QED BY <1>3, <1>4

(* Whatever an undo leaves, the record goes home; the settings do unless   *)
(* it mixed two switches.                                                  *)
LEMMA UndoesKeep == SettingsInv /\ Undoes => SettingsInv'
<1> SUFFICES ASSUME SettingsInv, Undoes PROVE SettingsInv'
  OBVIOUS
<1> USE SettingsShapes DEF SettingsInv, At
<1>1. /\ switching \in Switching /\ switching' = Absent
      /\ switching.pc \in {"putting", "saving"}
      /\ switching.pc = "putting" => switching.to # Absent
  BY DEF SettingsTypeOK, Undoes
<1>2. UNCHANGED <<relay, paths, wanted>> /\ Fault /\ edits' = edits
  BY DEF Undoes
<1>3. PICK settingsBack \in BOOLEAN, recordBack \in BOOLEAN :
        /\ main' = IF settingsBack /\ switching.puts THEN switching.seen ELSE main
        /\ record' = IF recordBack THEN switching.had ELSE record
        /\ mixed' = (mixed \/ (switching.to # Absent /\
                       IF settingsBack \/ switching.pc = "putting"
                       THEN ~recordBack /\ switching.had # Absent ELSE recordBack))
  BY DEF Undoes
<1>4. home' = IF record' = Absent /\ ~Overridden(main') THEN home \cup {main'["url"]} ELSE home
  BY DEF Undoes
<1>5. AtHome(switching.seen, switching.had) BY <1>1 DEF SwitchKept
<1>6. main' \in Settings /\ record' \in Record \cup {Absent}
      /\ switching.had \in Record \cup {Absent}
  BY <1>1, <1>3 DEF SettingsTypeOK, Switching
<1>7. mixed' \in BOOLEAN BY <1>3
<1>8. SettingsTypeOK'
  <2>1. main'["url"] \in Values BY <1>6 DEF Settings
  <2>2. home' \in SUBSET Values BY <1>4, <2>1 DEF SettingsTypeOK
  <2> QED BY <1>1, <1>2, <1>6, <1>7, <2>2, OneMoreStep DEF SettingsTypeOK
<1>9. home \subseteq home' /\ (record' = Absent /\ ~Overridden(main') => main'["url"] \in home')
  BY <1>4
<1>10. GoodRecord(record)'
  <2>1. GoodRecord(switching.had) /\ GoodRecord(record) BY <1>5 DEF AtHome, NowHome
  <2>2. GoodRecord(record') BY <1>3, <2>1
  <2> QED BY <1>9, <2>2 DEF GoodRecord
<1>11. Expected(PrefOf(main, record))'
  <2>1. SUFFICES ASSUME ~mixed' PROVE PrefOf(main', record') \in wanted
    BY <1>2 DEF Expected
  <2>2. ~mixed BY <1>3, <2>1 DEF SettingsTypeOK
  <2>3. PrefOf(switching.seen, switching.had) \in wanted BY <1>5, <2>2 DEF AtHome, Expected
  <2>4. CASE switching.to = Absent
    <3>1. record' = record /\ switching.pc = "saving" /\ record = switching.had
      BY <1>1, <1>3, <2>4 DEF SwitchKept
    <3>2. PrefOf(main, record) \in wanted BY <1>1, <2>2, <2>4 DEF NowHome, Expected
    <3> QED BY <1>3, <2>3, <3>1, <3>2
  <2>5. CASE switching.to # Absent
    <3>1. switching.puts /\ record = [settings |-> switching.base, written |-> switching.next]
      BY <1>1, <2>5 DEF SwitchKept
    <3>2. switching.base["pref"] \in wanted BY <1>1, <2>2 DEF SwitchKept, Expected
    <3>3. record # Absent BY <1>1, <3>1 DEF Record, Switching
    <3>4. switching.pc = "putting" /\ switching.had = Absent => main["pref"] \in wanted
      BY <1>1, <2>2, <2>5 DEF SwitchKept, Expected, PrefOf
    <3>5. CASE settingsBack /\ recordBack
      BY <1>3, <2>3, <3>1, <3>5
    <3>6. CASE settingsBack /\ ~recordBack
      <4>1. switching.had = Absent /\ main' = switching.seen /\ record' = record
        BY <1>3, <2>1, <2>5, <3>1, <3>6
      <4>2. switching.seen["pref"] \in wanted BY <2>3, <4>1 DEF PrefOf
      <4> QED BY <3>1, <3>2, <3>3, <4>1, <4>2 DEF PrefOf
    <3>7. CASE ~settingsBack /\ switching.pc = "putting"
      <4>1. main' = main /\ (recordBack \/ switching.had = Absent)
        BY <1>3, <2>1, <2>5, <3>7
      <4>2. CASE switching.had = Absent
        BY <1>3, <3>1, <3>2, <3>3, <3>4, <3>7, <4>1, <4>2 DEF PrefOf
      <4>3. CASE switching.had # Absent
        <5>1. main' = main /\ record' = switching.had BY <1>3, <4>1, <4>3
        <5>2. PrefOf(main, switching.had) \in wanted
          BY <1>1, <2>2, <2>5, <3>7 DEF SwitchKept, Expected
        <5> QED BY <5>1, <5>2
      <4> QED BY <4>2, <4>3
    <3>8. CASE ~settingsBack /\ switching.pc = "saving"
      <4>1. main' = main /\ record' = record BY <1>3, <2>1, <2>5, <3>8
      <4>2. PrefOf(main, record) \in wanted BY <2>2, <3>8 DEF NowHome, Expected
      <4> QED BY <4>1, <4>2
    <3> QED BY <1>1, <3>5, <3>6, <3>7, <3>8
  <2> QED BY <2>4, <2>5
<1> QED BY <1>1, <1>8, <1>9, <1>10, <1>11, SwitchGone

LEMMA CrashKeeps == SettingsInv /\ SettingsCrash => SettingsInv'
<1> SUFFICES ASSUME SettingsInv, SettingsCrash PROVE SettingsInv'
  OBVIOUS
<1> USE SettingsShapes DEF Expected, SettingsInv, At
<1>1. /\ switching \in Switching /\ switching' = Absent
      /\ UNCHANGED <<main, record, relay, paths, wanted, home>> /\ Fault /\ edits' = edits
      /\ mixed' = (mixed \/ (switching.pc = "putting" /\ switching.to # Absent
                               /\ switching.had # Absent))
  BY DEF SettingsTypeOK, SettingsCrash
<1>2. SettingsTypeOK' BY <1>1, OneMoreStep DEF SettingsTypeOK
<1>3. Expected(PrefOf(main, record))'
  <2>1. CASE switching.pc = "putting" /\ switching.to # Absent
    <3>1. CASE switching.had # Absent BY <1>1, <2>1, <3>1 DEF SettingsTypeOK
    <3>2. CASE switching.had = Absent
      <4>1. Expected(main["pref"]) BY <1>1, <2>1, <3>2 DEF SwitchKept, PrefOf
      <4>2. Expected(switching.base["pref"])
            /\ record = [settings |-> switching.base, written |-> switching.next]
        BY <1>1, <2>1 DEF SwitchKept
      <4>3. record # Absent BY <1>1, <4>2 DEF Record, Switching
      <4> QED BY <1>1, <4>1, <4>2, <4>3 DEF PrefOf
    <3> QED BY <3>1, <3>2
  <2>2. CASE ~(switching.pc = "putting" /\ switching.to # Absent)
    BY <1>1, <2>2 DEF NowHome
  <2> QED BY <2>1, <2>2
<1> QED BY <1>1, <1>2, <1>3, SwitchGone DEF NowHome, GoodRecord, PrefOf, GoneHome, Overridden

(* The user.                                                               *)
LEMMA EditKeeps ==
  ASSUME SettingsInv, NEW k \in Keys, NEW v \in Choices \cup {Absent}, SettingsEdited(k, v)
  PROVE  SettingsInv'
<1> USE SettingsShapes DEF Expected, SettingsInv, SettingsEdited, At
<1>1. /\ main \in Settings /\ record \in Record \cup {Absent}
      /\ switching \in Switching \cup {Absent} /\ wanted \in SUBSET Values /\ home \in SUBSET Values
  BY DEF SettingsTypeOK
<1>2. /\ main' \in Settings /\ main'[k] = v /\ \A j \in Keys : j # k => main'[j] = main[j]
  BY <1>1 DEF Settings, Values
<1>3. UNCHANGED <<record, relay, paths, switching>> OBVIOUS
<1>4. home \subseteq home' /\ home' \in SUBSET Values
      /\ (GoneHome /\ ~Overridden(main') => main'["url"] \in home')
  BY <1>1, <1>2 DEF Settings
<1>5. k # "pref" => wanted' = wanted /\ mixed' = mixed BY DEF SettingsTypeOK
<1>6. k = "pref" => v \in wanted'
  OBVIOUS
<1>7. switching # Absent /\ switching.pc # "locking" => wanted \subseteq wanted' /\ mixed' = mixed
  BY DEF NothingRead, SettingsTypeOK
<1>8. wanted' \in SUBSET Values BY <1>1 DEF Values
<1>9. SettingsTypeOK'
  BY <1>1, <1>2, <1>3, <1>4, <1>8, OneMoreStep DEF SettingsTypeOK
<1>10. GoodRecord(record)' BY <1>3, <1>4 DEF NowHome, GoodRecord
<1>11. ~(switching # Absent /\ switching.pc = "putting" /\ switching.to # Absent)
         => Expected(PrefOf(main, record))'
  <2>1. CASE k = "pref"
    <3>1. PrefOf(main', record) = v
      BY <1>2, <2>1 DEF PrefOf, NowHome, GoodRecord
    <3> QED BY <1>6, <2>1, <3>1
  <2>2. CASE k # "pref"
    <3>1. main'["pref"] = main["pref"] BY <1>2, <2>2
    <3> QED BY <1>5, <2>2, <3>1 DEF PrefOf, NowHome
  <2> QED BY <2>1, <2>2
<1>12. NowHome' BY <1>3, <1>4, <1>10, <1>11 DEF NowHome, GoneHome, PrefOf, Overridden
<1>13. Expected(main["pref"]) /\ switching # Absent /\ switching.pc # "locking"
         => Expected(main["pref"])'
  BY <1>2, <1>6, <1>7
<1>14. SwitchKept'
  <2>1. SUFFICES ASSUME switching # Absent
                 PROVE  SwitchKept'
    BY <1>3 DEF SwitchKept
  <2>2. CASE switching.pc = "locking" BY <1>3, <2>1, <2>2 DEF SwitchKept
  <2>3. CASE switching.pc # "locking"
    <3>1. wanted \subseteq wanted' /\ mixed' = mixed BY <1>7, <2>1, <2>3
    <3>2. AtHome(switching.seen, switching.had) /\ GoodRecord(switching.had)
      BY <2>1, <2>3 DEF SwitchKept, AtHome
    <3>3. Expected(PrefOf(main, switching.had)) => Expected(PrefOf(main, switching.had))'
      <4>1. CASE k = "pref"
        <5>1. PrefOf(main', switching.had) = v BY <1>2, <3>2, <4>1 DEF PrefOf, GoodRecord
        <5> QED BY <1>3, <1>6, <4>1, <5>1
      <4>2. CASE k # "pref"
        BY <1>2, <1>3, <1>5, <4>2 DEF PrefOf
      <4> QED BY <4>1, <4>2
    <3> QED BY <1>3, <1>4, <1>13, <2>1, <2>3, <3>1, <3>3
          DEF SwitchKept, AtHome, GoodRecord, PrefOf, Overridden
  <2> QED BY <2>2, <2>3
<1> QED BY <1>9, <1>12, <1>14

LEMMA RepointKeeps ==
  ASSUME SettingsInv, NEW p \in Relays, NEW f \in Files, Repoints(p, f) PROVE SettingsInv'
<1> USE DEF Expected, SettingsInv, Repoints
<1>1. SettingsTypeOK' BY OneMoreStep DEF SettingsTypeOK
<1>2. SwitchKept' /\ NowHome'
  BY DEF SwitchKept, NowHome, AtHome, GoodRecord, PrefOf, Overridden, GoneHome
<1> QED BY <1>1, <1>2

LEMMA SettingsStep ==
  SettingsInv /\ [SettingsNext]_settingsVars => SettingsInv'
<1> SUFFICES ASSUME SettingsInv, [SettingsNext]_settingsVars PROVE SettingsInv'
  OBVIOUS
<1>1. CASE UNCHANGED settingsVars
  BY <1>1 DEF Expected, SettingsInv, SettingsTypeOK, SwitchKept, NowHome, AtHome, GoodRecord, PrefOf,
     Overridden, GoneHome, settingsVars
<1>2. CASE \E p \in Relays : RelayFinds(p) \/ \E f \in Files : Repoints(p, f)
  BY <1>2, FindsKeeps, RepointKeeps
<1>3. CASE RelayLocks \/ Records \/ OfficialPlans \/ Puts \/ Saves
  BY <1>3, LocksKeeps, RecordsKeeps, PlansKeeps, PutsKeeps, SavesKeeps
<1>4. CASE RecordFails \/ OfficialGivesUp \/ Forgets \/ ForgetFails \/ Undoes \/ SettingsCrash
  BY <1>4, EndsKeep, UndoesKeep, CrashKeeps
<1>5. CASE \E k \in Keys, v \in Choices \cup {Absent} : SettingsEdited(k, v)
  BY <1>5, EditKeeps
<1> QED BY <1>1, <1>2, <1>3, <1>4, <1>5 DEF SettingsNext

(* However often the user switches to providers and back, and whatever     *)
(* write, undo or process fails on the way, going back never replaces the  *)
(* login, nor sends it to an address set beside a provider's credential;   *)
(* and it gives the user's own settings, unless a fault has left a record  *)
(* and settings of different switches, until the user chooses again        *)
(* (claude.rs, claude/sub2api.rs).                                         *)
THEOREM OwnSettingsReturn == SettingsSpec => []OfficialRestored
<1>1. SettingsInv => OfficialRestored
  <2> SUFFICES ASSUME SettingsInv PROVE OfficialRestored
    OBVIOUS
  <2> USE DEF SettingsInv
  <2>1. OfficialSettingsKept
    BY BaseGoesHome DEF OfficialSettingsKept, NowHome, Expected, SettingsTypeOK
  <2>2. LoginGoesHome
    BY DEF LoginGoesHome, NowHome, GoodRecord, SwitchKept, At
  <2> QED BY <2>1, <2>2 DEF OfficialRestored
<1> QED BY <1>1, SettingsStart, SettingsStep, PTL DEF SettingsSpec

-----------------------------------------------------------------------------
(* The data files.                                                         *)

PoolCopies == [pc : {"changing", "settings", "accounts", "keyfile"}, kinds : SUBSET {"account", "proxy"},
               new : Numbers, by : {"pool", "rotate", "start"}, account : Numbers, proxy : Numbers,
               key : Numbers, cards : Numbers]
ConfigCopies == [pc : {"changing", "accounts", "settings"}, kinds : SUBSET {"prefs", "cards"},
                 new : Numbers, prefs : Numbers, cards : Numbers, key : Numbers, proxy : Numbers,
                 before : AccountsFile]
Keyings == [pc : {"rotating", "starting", "saving", "saved"}, key : Numbers]

CopiesTyped ==
  /\ accountsFile \in AccountsFile /\ settingsFile \in SettingsFile /\ keyFile \in Numbers
  /\ files \in {"free", "pool", "config"}
  /\ pooling \in PoolCopies \cup {Idle} /\ configuring \in ConfigCopies \cup {Idle}
  /\ keying \in Keyings \cup {Idle}
  /\ asking \in {"no", "yes"} /\ server \in Numbers
  /\ expected \in [Owned -> SUBSET Numbers] /\ keysTold \in SUBSET Numbers
  /\ overwritten \in BOOLEAN /\ changes \in Numbers /\ slips \in 0..MaxSlips
  /\ pooling # Idle /\ pooling.by # "pool" => keying # Idle /\ keying.pc = "saving"

(* Every number in a file or a copy was given out.                         *)
NoneFromAhead ==
  /\ accountsFile.account <= changes /\ accountsFile.cards <= changes
  /\ settingsFile.proxy <= changes /\ settingsFile.prefs <= changes
  /\ pooling # Idle /\ pooling.kinds # {} => pooling.new <= changes
  /\ configuring # Idle => configuring.new <= changes /\ configuring.before.cards <= changes

(* Who writes has the mutex of single loads and saves.                     *)
MutexHeld ==
  /\ files = "pool" <=> pooling # Idle /\ pooling.pc \in {"settings", "accounts"}
  /\ files = "config" <=> configuring # Idle /\ configuring.pc \in {"accounts", "settings"}

(* A change under the store lock has the values of its own kinds, and of   *)
(* every other what the files have, the cards once it writes.              *)
PoolCopy ==
  pooling # Idle /\ pooling.pc # "keyfile" =>
    /\ pooling.account = IF "account" \in pooling.kinds THEN pooling.new ELSE accountsFile.account
    /\ pooling.proxy = IF "proxy" \in pooling.kinds THEN pooling.new ELSE settingsFile.proxy
    /\ pooling.pc \in {"settings", "accounts"} => pooling.cards = accountsFile.cards
    /\ pooling.pc = "accounts" => settingsFile.proxy = pooling.proxy
    /\ pooling.pc = "accounts" /\ "proxy" \in pooling.kinds => pooling.new \in expected["proxy"]

(* So has an operation; what it replaces in accounts.json it can restore.  *)
ConfigCopy ==
  configuring # Idle =>
    /\ configuring.prefs = IF "prefs" \in configuring.kinds THEN configuring.new
                           ELSE settingsFile.prefs
    /\ "cards" \in configuring.kinds => configuring.cards = configuring.new
    /\ "cards" \notin configuring.kinds => configuring.cards = accountsFile.cards
    /\ configuring.pc \in {"accounts", "settings"} =>
         /\ configuring.proxy = settingsFile.proxy
         /\ configuring.before.account = accountsFile.account
    /\ configuring.pc = "accounts" => configuring.before = accountsFile
    /\ configuring.pc = "settings" =>
         /\ accountsFile.cards = configuring.cards
         /\ configuring.before.cards \in expected["cards"]

(* An operation's number is in no file until it writes it, and in no copy  *)
(* of another.                                                             *)
NumberIsNew ==
  configuring # Idle =>
    /\ configuring.new \notin {accountsFile.account, settingsFile.proxy, settingsFile.prefs}
    /\ configuring.pc # "settings" => configuring.new # accountsFile.cards
    /\ configuring.pc = "settings" => configuring.new # configuring.before.cards
    /\ pooling # Idle /\ pooling.kinds # {} => pooling.new # configuring.new

(* The command that has the proxy's key to save, and the save it made; the *)
(* key's file has its key, unless a status overtook it.                    *)
KeyCommands ==
  /\ pooling # Idle /\ pooling.by # "pool" => pooling.kinds = {}
  /\ pooling # Idle /\ pooling.by = "rotate" => keying.key # 0
  /\ pooling # Idle /\ pooling.by = "start" => keying.key = 0 /\ pooling.key # 0 
  /\ pooling # Idle /\ pooling.pc = "keyfile" => pooling.by = "start"
  /\ keying # Idle /\ keying.pc \in {"rotating", "saved"} => keying.key # 0
  /\ keying # Idle /\ keying.pc = "starting" => keying.key = 0
  /\ keying # Idle /\ keying.key # 0 => keyFile # 0 /\ (~overwritten => keyFile = keying.key)

(* Until the key has a file, every key any copy holds was shown.           *)
KeysShown ==
  /\ keyFile # 0 /\ ~overwritten => keyFile \in keysTold
  /\ keyFile = 0 => /\ settingsFile.key \in keysTold
                    /\ pooling # Idle => pooling.key \in keysTold
                    /\ configuring # Idle => configuring.key \in keysTold
  /\ server # 0 => server \in keysTold

FilesInv ==
  /\ NoneFromAhead /\ MutexHeld /\ PoolCopy /\ ConfigCopy /\ NumberIsNew
  /\ SavesKeepTheOthers
KeysInv == KeyCommands /\ KeysShown

LEMMA CopiesAreBusy ==
  /\ \A p \in PoolCopies : p # Idle
  /\ \A c \in ConfigCopies : c # Idle
  /\ \A k \in Keyings : k # Idle
  /\ CopiesTyped => /\ pooling.pc # "idle" => pooling \in PoolCopies
                    /\ configuring.pc # "idle" => configuring \in ConfigCopies
                    /\ keying.pc # "idle" => keying \in Keyings
BY DEF PoolCopies, ConfigCopies, Keyings, Idle, CopiesTyped

(* A number given out is one there may be.                                 *)
LEMMA NumberGiven ==
  CopiesTyped /\ Changes => changes' \in Numbers /\ changes' # 0 /\ changes' = changes + 1
BY DataBounds DEF CopiesTyped, Changes, Numbers

LEMMA CopiesStart == DataInit => CopiesTyped
<1> SUFFICES ASSUME DataInit PROVE CopiesTyped
  OBVIOUS
<1>1. changes \in Numbers /\ 0 \in Numbers /\ slips \in 0..MaxSlips
  BY DataBounds DEF DataInit, Numbers
<1>2. keyFile \in Numbers BY <1>1 DEF DataInit
<1>3. expected \in [Owned -> SUBSET Numbers] BY <1>1 DEF DataInit
<1> QED BY <1>1, <1>2, <1>3 DEF DataInit, CopiesTyped, AccountsFile, SettingsFile

LEMMA PoolTyped ==
  ASSUME CopiesTyped, NEW kinds \in {{"account"}, {"proxy"}},
         PoolLoads(kinds) \/ PoolSaves \/ PoolWritesSettings \/ PoolWritesAccounts \/ PoolFails
  PROVE  CopiesTyped'
<1> USE CopiesAreBusy DEF CopiesTyped
<1>1. CASE PoolLoads(kinds)
  <2>1. pooling' \in PoolCopies
    BY <1>1, NumberGiven DEF PoolLoads, PoolCopies, AccountsFile, SettingsFile
  <2> QED BY <1>1, <2>1, NumberGiven DEF PoolLoads, dataFiles, keyVars
<1>2. CASE PoolSaves
  <2>1. pooling \in PoolCopies BY <1>2 DEF PoolSaves
  <2>2. pooling' \in PoolCopies BY <1>2, <2>1 DEF PoolSaves, PoolCopies, AccountsFile
  <2> QED BY <1>2, <2>2 DEF PoolSaves, dataFiles, keyVars
<1>3. CASE PoolWritesSettings
  <2>1. pooling \in PoolCopies BY <1>3 DEF PoolWritesSettings
  <2>2. pooling' \in PoolCopies /\ pooling'.by = pooling.by
    BY <1>3, <2>1 DEF PoolWritesSettings, PoolCopies
  <2>3. settingsFile' \in SettingsFile BY <1>3, <2>1 DEF PoolWritesSettings, PoolCopies, SettingsFile
  <2>4. expected' \in [Owned -> SUBSET Numbers]
    BY <1>3, <2>1 DEF PoolWritesSettings, May, PoolCopies
  <2> QED BY <1>3, <2>2, <2>3, <2>4 DEF PoolWritesSettings, keyVars
<1>4. CASE PoolWritesAccounts
  <2>1. pooling \in PoolCopies BY <1>4 DEF PoolWritesAccounts
  <2>2. pooling' \in PoolCopies \cup {Idle} BY <1>4, <2>1 DEF PoolWritesAccounts, PoolCopies
  <2>3. accountsFile' \in AccountsFile BY <1>4, <2>1 DEF PoolWritesAccounts, PoolCopies, AccountsFile
  <2>4. expected' \in [Owned -> SUBSET Numbers]
    BY <1>4, <2>1 DEF PoolWritesAccounts, Must, PoolCopies
  <2>5. keying' \in Keyings \cup {Idle} /\ (pooling.by = "pool" => keying' = keying)
    BY <1>4, <2>1 DEF PoolWritesAccounts, Keyings
  <2> QED BY <1>4, <2>2, <2>3, <2>4, <2>5 DEF PoolWritesAccounts
<1>5. CASE PoolFails
  <2>1. slips' \in 0..MaxSlips BY <1>5, DataBounds DEF PoolFails, Slips
  <2>2. keying' \in Keyings \cup {Idle} /\ pooling' = Idle /\ files' = "free"
    BY <1>5 DEF PoolFails
  <2> QED BY <1>5, <2>1, <2>2 DEF PoolFails, dataFiles
<1> QED BY <1>1, <1>2, <1>3, <1>4, <1>5

LEMMA ConfigTyped ==
  ASSUME CopiesTyped, NEW kinds \in {{"prefs"}, {"cards"}, {"prefs", "cards"}},
         ConfigLoads(kinds) \/ ConfigSaves \/ ConfigWritesAccounts \/ ConfigWritesSettings
           \/ ConfigFails
  PROVE  CopiesTyped'
<1> USE CopiesAreBusy DEF CopiesTyped
<1>1. CASE ConfigLoads(kinds)
  <2>1. configuring' \in ConfigCopies
    BY <1>1, NumberGiven DEF ConfigLoads, ConfigCopies, AccountsFile, SettingsFile
  <2> QED BY <1>1, <2>1, NumberGiven DEF ConfigLoads, dataFiles, keyVars
<1>2. CASE ConfigSaves
  <2>1. configuring \in ConfigCopies BY <1>2 DEF ConfigSaves
  <2>2. configuring' \in ConfigCopies
    BY <1>2, <2>1 DEF ConfigSaves, ConfigCopies, SettingsFile
  <2> QED BY <1>2, <2>2 DEF ConfigSaves, dataFiles, keyVars
<1>3. CASE ConfigWritesAccounts
  <2>1. configuring \in ConfigCopies BY <1>3 DEF ConfigWritesAccounts
  <2>2. configuring' \in ConfigCopies BY <1>3, <2>1 DEF ConfigWritesAccounts, ConfigCopies
  <2>3. accountsFile' \in AccountsFile
    BY <1>3, <2>1 DEF ConfigWritesAccounts, ConfigCopies, AccountsFile
  <2>4. expected' \in [Owned -> SUBSET Numbers]
    BY <1>3, <2>1 DEF ConfigWritesAccounts, May, ConfigCopies
  <2> QED BY <1>3, <2>2, <2>3, <2>4 DEF ConfigWritesAccounts, keyVars
<1>4. CASE ConfigWritesSettings
  <2>1. configuring \in ConfigCopies BY <1>4 DEF ConfigWritesSettings
  <2>2. settingsFile' \in SettingsFile
    BY <1>4, <2>1 DEF ConfigWritesSettings, ConfigCopies, SettingsFile
  <2>3. expected' \in [Owned -> SUBSET Numbers]
    BY <1>4, <2>1 DEF ConfigWritesSettings, Must, ConfigCopies
  <2> QED BY <1>4, <2>2, <2>3 DEF ConfigWritesSettings, keyVars
<1>5. CASE ConfigFails
  <2>1. configuring \in ConfigCopies BY <1>5 DEF ConfigFails
  <2>2. accountsFile' \in AccountsFile BY <1>5, <2>1 DEF ConfigFails, ConfigCopies
  <2>3. expected' \in [Owned -> SUBSET Numbers] BY <1>5, <2>1 DEF ConfigFails
  <2>4. slips' \in 0..MaxSlips BY <1>5, DataBounds DEF ConfigFails, Slips
  <2> QED BY <1>5, <2>2, <2>3, <2>4 DEF ConfigFails, keyVars
<1> QED BY <1>1, <1>2, <1>3, <1>4, <1>5

LEMMA KeyTyped ==
  ASSUME CopiesTyped,
         RotateStarts \/ RotateLoads \/ RotateEnds \/ Starts \/ StartLoads \/ StartEnds \/ Stops
           \/ StatusFindsNoFile \/ StatusWritesFile \/ DataCrash
  PROVE  CopiesTyped'
<1> USE CopiesAreBusy DEF CopiesTyped
<1>0. 0 \in Numbers BY DataBounds DEF Numbers
<1>1. CASE RotateStarts
  <2>1. keying' \in Keyings BY <1>1, NumberGiven DEF RotateStarts, Keyings
  <2> QED BY <1>1, <2>1, NumberGiven DEF RotateStarts, dataFiles, dataActors
<1>2. CASE RotateLoads
  <2>1. keying \in Keyings BY <1>2 DEF RotateLoads
  <2>2. keying' \in Keyings BY <1>2, <2>1 DEF RotateLoads, Keyings
  <2>3. pooling' \in PoolCopies
    BY <1>2, <2>1 DEF RotateLoads, Keyings, PoolCopies, AccountsFile, SettingsFile
  <2> QED BY <1>2, <2>2, <2>3 DEF RotateLoads, dataFiles
<1>3. CASE RotateEnds
  <2>1. keying.key \in Numbers BY <1>3 DEF RotateEnds, Keyings
  <2> QED BY <1>0, <1>3, <2>1 DEF RotateEnds, dataFiles, dataActors
<1>4. CASE Starts
  <2>1. [pc |-> "starting", key |-> 0] \in Keyings BY <1>0 DEF Keyings
  <2> QED BY <1>4, <2>1 DEF Starts, dataFiles, dataActors
<1>5. CASE StartLoads
  <2>1. keying \in Keyings BY <1>5 DEF StartLoads
  <2>2. keying' \in Keyings BY <1>5, <2>1 DEF StartLoads, Keyings
  <2>3. pooling' \in PoolCopies /\ changes' \in Numbers /\ keysTold' \in SUBSET Numbers
    BY <1>0, <1>5, NumberGiven DEF StartLoads, PoolCopies, AccountsFile, SettingsFile
  <2> QED BY <1>5, <2>2, <2>3 DEF StartLoads, dataFiles
<1>6. CASE StartEnds
  <2>1. pooling.key \in Numbers BY <1>6 DEF StartEnds, PoolCopies
  <2> QED BY <1>6, <2>1 DEF StartEnds, dataFiles
<1>7. CASE Stops BY <1>0, <1>7 DEF Stops, dataFiles, dataActors
<1>8. CASE StatusFindsNoFile BY <1>8 DEF StatusFindsNoFile, dataFiles, dataActors
<1>9. CASE StatusWritesFile
  <2>1. keyFile' \in Numbers BY <1>9 DEF StatusWritesFile, SettingsFile
  <2> QED BY <1>9, <2>1 DEF StatusWritesFile, dataFiles, dataActors
<1>10. CASE DataCrash
  <2>1. slips' \in 0..MaxSlips BY <1>10, DataBounds DEF DataCrash, Slips
  <2> QED BY <1>0, <1>10, <2>1 DEF DataCrash, dataFiles
<1> QED BY <1>1, <1>2, <1>3, <1>4, <1>5, <1>6, <1>7, <1>8, <1>9, <1>10

LEMMA TypedStep == CopiesTyped /\ [DataNext]_dataVars => CopiesTyped'
<1>1. CopiesTyped /\ UNCHANGED dataVars => CopiesTyped' BY DEF CopiesTyped, dataVars
<1>2. ASSUME CopiesTyped, DataNext PROVE CopiesTyped'
  <2>1. CASE \/ \E kinds \in {{"account"}, {"proxy"}} : PoolLoads(kinds)
             \/ PoolSaves \/ PoolWritesSettings \/ PoolWritesAccounts \/ PoolFails
    BY <1>2, <2>1, PoolTyped
  <2>2. CASE \/ \E kinds \in {{"prefs"}, {"cards"}, {"prefs", "cards"}} : ConfigLoads(kinds)
             \/ ConfigSaves \/ ConfigWritesAccounts \/ ConfigWritesSettings \/ ConfigFails
    BY <1>2, <2>2, ConfigTyped
  <2>3. CASE RotateStarts \/ RotateLoads \/ RotateEnds \/ Starts \/ StartLoads \/ StartEnds
               \/ Stops \/ StatusFindsNoFile \/ StatusWritesFile \/ DataCrash
    BY <1>2, <2>3, KeyTyped
  <2> QED BY <1>2, <2>1, <2>2, <2>3 DEF DataNext
<1> QED BY <1>1, <1>2

-----------------------------------------------------------------------------
(* What each save writes.                                                  *)

LEMMA FilesStart == DataInit => FilesInv
BY DataBounds DEF DataInit, FilesInv, NoneFromAhead, MutexHeld, PoolCopy, ConfigCopy, NumberIsNew,
   SavesKeepTheOthers, Owned, Numbers, Idle

LEMMA NumbersInFiles ==
  CopiesTyped =>
    /\ accountsFile.account \in Nat /\ accountsFile.cards \in Nat
    /\ settingsFile.proxy \in Nat /\ settingsFile.prefs \in Nat /\ changes \in Nat
    /\ pooling # Idle => pooling \in PoolCopies /\ pooling.new \in Nat
    /\ configuring # Idle => configuring \in ConfigCopies /\ configuring.new \in Nat
                               /\ configuring.before.cards \in Nat
BY DataBounds DEF CopiesTyped, AccountsFile, SettingsFile, PoolCopies, ConfigCopies, Numbers

LEMMA PoolSteps ==
  ASSUME CopiesTyped, FilesInv, NEW kinds \in {{"account"}, {"proxy"}},
         PoolLoads(kinds) \/ PoolSaves \/ PoolWritesSettings \/ PoolWritesAccounts \/ PoolFails
  PROVE  FilesInv'
<1> USE CopiesAreBusy, NumbersInFiles DEF FilesInv
<1>1. CASE PoolLoads(kinds)
  <2>1. /\ pooling' \in PoolCopies /\ pooling'.pc = "changing" /\ pooling'.kinds = kinds
        /\ pooling'.new = changes' /\ changes' = changes + 1 /\ pooling = Idle
        /\ pooling'.account = IF "account" \in kinds THEN changes' ELSE accountsFile.account
        /\ pooling'.proxy = IF "proxy" \in kinds THEN changes' ELSE settingsFile.proxy
    <3>1. CopiesTyped' BY <1>1, PoolTyped
    <3>2. pooling'.pc = "changing" BY <1>1 DEF PoolLoads
    <3>3. pooling' \in PoolCopies BY <3>1, <3>2 DEF CopiesTyped, Idle
    <3> QED BY <1>1, <3>3 DEF PoolLoads, Changes
  <2>2. UNCHANGED <<accountsFile, settingsFile, files, configuring, expected>>
    BY <1>1 DEF PoolLoads, dataFiles
  <2>3. NoneFromAhead' BY <2>1, <2>2 DEF NoneFromAhead
  <2>4. MutexHeld' BY <2>1, <2>2 DEF MutexHeld
  <2>5. PoolCopy' BY <2>1, <2>2 DEF PoolCopy
  <2>6. ConfigCopy' BY <2>2 DEF ConfigCopy
  <2>7. NumberIsNew' BY <2>1, <2>2 DEF NumberIsNew, NoneFromAhead
  <2>8. SavesKeepTheOthers' BY <2>2 DEF SavesKeepTheOthers
  <2> QED BY <2>3, <2>4, <2>5, <2>6, <2>7, <2>8
<1>2. CASE PoolSaves
  <2>1. pooling \in PoolCopies BY <1>2 DEF PoolSaves, CopiesTyped
  <2>2. /\ pooling' \in PoolCopies /\ pooling'.pc = "settings"
        /\ pooling'.cards = accountsFile.cards /\ pooling'.kinds = pooling.kinds
        /\ pooling'.new = pooling.new /\ pooling'.account = pooling.account
        /\ pooling'.proxy = pooling.proxy
    BY <1>2, <2>1 DEF PoolSaves, PoolCopies, CopiesTyped, AccountsFile
  <2>3. pooling.pc = "changing" /\ files = "free" /\ files' = "pool"
        /\ UNCHANGED <<accountsFile, settingsFile, configuring, expected, changes>>
    BY <1>2 DEF PoolSaves, dataFiles
  <2>4. NoneFromAhead' BY <2>1, <2>2, <2>3 DEF NoneFromAhead
  <2>5. MutexHeld' BY <2>1, <2>2, <2>3 DEF MutexHeld
  <2>6. PoolCopy' BY <2>1, <2>2, <2>3 DEF PoolCopy
  <2>7. ConfigCopy' BY <2>3 DEF ConfigCopy
  <2>8. NumberIsNew' BY <2>1, <2>2, <2>3 DEF NumberIsNew
  <2>9. SavesKeepTheOthers' BY <2>3 DEF SavesKeepTheOthers
  <2> QED BY <2>4, <2>5, <2>6, <2>7, <2>8, <2>9
<1>3. CASE PoolWritesSettings
  <2>1. pooling \in PoolCopies BY <1>3 DEF PoolWritesSettings, CopiesTyped
  <2>2. /\ pooling' \in PoolCopies /\ pooling'.pc = "accounts"
        /\ pooling'.cards = pooling.cards /\ pooling'.kinds = pooling.kinds
        /\ pooling'.new = pooling.new /\ pooling'.account = pooling.account
        /\ pooling'.proxy = pooling.proxy
    BY <1>3, <2>1 DEF PoolWritesSettings, PoolCopies
  <2>3. settingsFile'.proxy = pooling.proxy /\ settingsFile'.prefs = settingsFile.prefs
    BY <1>3, <2>1 DEF PoolWritesSettings, CopiesTyped, SettingsFile
  <2>4. pooling.pc = "settings" /\ files' = files
        /\ UNCHANGED <<accountsFile, configuring, changes>>
    BY <1>3 DEF PoolWritesSettings
  <2>5. files = "pool" BY <2>1, <2>4 DEF MutexHeld
  <2>6. configuring # Idle => configuring.pc \notin {"accounts", "settings"}
    BY <2>5 DEF MutexHeld
  <2>7. /\ expected'["account"] = expected["account"] /\ expected'["prefs"] = expected["prefs"]
        /\ expected'["cards"] = expected["cards"]
        /\ expected'["proxy"] = IF "proxy" \in pooling.kinds
                                THEN expected["proxy"] \cup {pooling.new} ELSE expected["proxy"]
    <3>1. expected' = May(pooling.kinds \ {"account"}, pooling.new) /\ pooling.kinds \subseteq {"account", "proxy"}
      BY <1>3, <2>1 DEF PoolWritesSettings, PoolCopies
    <3> QED BY <3>1 DEF May, Owned
  <2>8. NoneFromAhead' BY <2>1, <2>2, <2>3, <2>4 DEF NoneFromAhead, PoolCopy
  <2>9. MutexHeld' BY <2>1, <2>2, <2>4 DEF MutexHeld
  <2>10. PoolCopy' BY <2>1, <2>2, <2>3, <2>4, <2>7 DEF PoolCopy
  <2>11. ConfigCopy' BY <2>3, <2>4, <2>6 DEF ConfigCopy
  <2>12. NumberIsNew' BY <2>1, <2>2, <2>3, <2>4 DEF NumberIsNew, PoolCopy
  <2>13. SavesKeepTheOthers' BY <2>1, <2>3, <2>4, <2>7 DEF SavesKeepTheOthers, PoolCopy
  <2> QED BY <2>8, <2>9, <2>10, <2>11, <2>12, <2>13
<1>4. CASE PoolWritesAccounts
  <2>1. pooling \in PoolCopies BY <1>4 DEF PoolWritesAccounts, CopiesTyped
  <2>2. /\ pooling.pc = "accounts" /\ files' = "free"
        /\ accountsFile' = [account |-> pooling.account, cards |-> pooling.cards]
        /\ UNCHANGED <<settingsFile, configuring, changes>>
        /\ pooling' = IF pooling.by = "start" THEN [pooling EXCEPT !.pc = "keyfile"] ELSE Idle
    BY <1>4 DEF PoolWritesAccounts
  <2>3. pooling' # Idle =>
          pooling'.pc = "keyfile" /\ pooling'.kinds = pooling.kinds /\ pooling'.new = pooling.new
    BY <2>1, <2>2 DEF PoolCopies
  <2>4. accountsFile'.account = pooling.account /\ accountsFile'.cards = accountsFile.cards
    BY <2>1, <2>2 DEF PoolCopy
  <2>5. files = "pool" BY <2>1, <2>2 DEF MutexHeld
  <2>6. configuring # Idle => configuring.pc \notin {"accounts", "settings"}
    BY <2>5 DEF MutexHeld
  <2>7. /\ expected'["cards"] = expected["cards"] /\ expected'["prefs"] = expected["prefs"]
        /\ expected'["account"] = IF "account" \in pooling.kinds THEN {pooling.new}
                                  ELSE expected["account"]
        /\ expected'["proxy"] = IF "proxy" \in pooling.kinds THEN {pooling.new}
                                ELSE expected["proxy"]
    <3>1. expected' = Must(pooling.kinds, pooling.new) /\ pooling.kinds \subseteq {"account", "proxy"}
      BY <1>4, <2>1 DEF PoolWritesAccounts, PoolCopies
    <3> QED BY <3>1 DEF Must, Owned
  <2>8. NoneFromAhead' BY <2>1, <2>2, <2>3, <2>4 DEF NoneFromAhead, PoolCopy
  <2>9. MutexHeld' BY <2>2, <2>3, <2>5, <2>6 DEF MutexHeld
  <2>10. PoolCopy' BY <2>3 DEF PoolCopy
  <2>11. ConfigCopy' BY <2>2, <2>4, <2>6 DEF ConfigCopy
  <2>12. NumberIsNew' BY <2>1, <2>2, <2>3, <2>4, <2>6 DEF NumberIsNew, PoolCopy
  <2>13. SavesKeepTheOthers' BY <2>1, <2>2, <2>4, <2>7 DEF SavesKeepTheOthers, PoolCopy
  <2> QED BY <2>8, <2>9, <2>10, <2>11, <2>12, <2>13
<1>5. CASE PoolFails
  <2>1. /\ pooling.pc \in {"settings", "accounts"} /\ files' = "free" /\ pooling' = Idle
        /\ UNCHANGED <<accountsFile, settingsFile, configuring, expected, changes>>
    BY <1>5 DEF PoolFails, dataFiles
  <2>2. files = "pool" BY <2>1 DEF MutexHeld, Idle
  <2>3. NoneFromAhead' BY <2>1 DEF NoneFromAhead
  <2>4. MutexHeld' BY <2>1, <2>2 DEF MutexHeld
  <2>5. PoolCopy' /\ ConfigCopy' BY <2>1 DEF PoolCopy, ConfigCopy
  <2>6. NumberIsNew' /\ SavesKeepTheOthers' BY <2>1 DEF NumberIsNew, SavesKeepTheOthers
  <2> QED BY <2>3, <2>4, <2>5, <2>6
<1> QED BY <1>1, <1>2, <1>3, <1>4, <1>5

LEMMA ConfigSteps ==
  ASSUME CopiesTyped, FilesInv, NEW kinds \in {{"prefs"}, {"cards"}, {"prefs", "cards"}},
         ConfigLoads(kinds) \/ ConfigSaves \/ ConfigWritesAccounts \/ ConfigWritesSettings
           \/ ConfigFails
  PROVE  FilesInv'
<1> USE CopiesAreBusy, NumbersInFiles DEF FilesInv
<1>1. CASE ConfigLoads(kinds)
  <2>1. /\ configuring' \in ConfigCopies /\ configuring'.pc = "changing"
        /\ configuring'.kinds = kinds /\ configuring'.new = changes' /\ changes' = changes + 1
        /\ configuring'.prefs = IF "prefs" \in kinds THEN changes' ELSE settingsFile.prefs
        /\ configuring'.cards = IF "cards" \in kinds THEN changes' ELSE accountsFile.cards
        /\ configuring'.before = accountsFile /\ configuring = Idle
    <3>1. CopiesTyped' BY <1>1, ConfigTyped
    <3>2. configuring'.pc = "changing" BY <1>1 DEF ConfigLoads
    <3>3. configuring' \in ConfigCopies BY <3>1, <3>2 DEF CopiesTyped, Idle
    <3> QED BY <1>1, <3>3 DEF ConfigLoads, Changes
  <2>2. UNCHANGED <<accountsFile, settingsFile, files, pooling, expected>>
    BY <1>1 DEF ConfigLoads, dataFiles
  <2>3. NoneFromAhead' BY <2>1, <2>2 DEF NoneFromAhead
  <2>4. MutexHeld' BY <2>1, <2>2 DEF MutexHeld
  <2>5. PoolCopy' BY <2>2 DEF PoolCopy
  <2>6. ConfigCopy' BY <2>1, <2>2 DEF ConfigCopy
  <2>7. NumberIsNew' BY <2>1, <2>2 DEF NumberIsNew, NoneFromAhead
  <2>8. SavesKeepTheOthers' BY <2>2 DEF SavesKeepTheOthers
  <2> QED BY <2>3, <2>4, <2>5, <2>6, <2>7, <2>8
<1>2. CASE ConfigSaves
  <2>1. configuring \in ConfigCopies BY <1>2 DEF ConfigSaves, CopiesTyped
  <2>2. /\ configuring' \in ConfigCopies /\ configuring'.pc = "accounts"
        /\ configuring'.before = accountsFile /\ configuring'.proxy = settingsFile.proxy
        /\ configuring'.kinds = configuring.kinds /\ configuring'.new = configuring.new
        /\ configuring'.prefs = configuring.prefs /\ configuring'.cards = configuring.cards
    BY <1>2, <2>1 DEF ConfigSaves, ConfigCopies, CopiesTyped, SettingsFile
  <2>3. configuring.pc = "changing" /\ files = "free" /\ files' = "config"
        /\ UNCHANGED <<accountsFile, settingsFile, pooling, expected, changes>>
    BY <1>2 DEF ConfigSaves, dataFiles
  <2>4. NoneFromAhead' BY <2>1, <2>2, <2>3 DEF NoneFromAhead
  <2>5. MutexHeld' BY <2>1, <2>2, <2>3 DEF MutexHeld
  <2>6. PoolCopy' BY <2>3 DEF PoolCopy
  <2>7. ConfigCopy' BY <2>1, <2>2, <2>3 DEF ConfigCopy
  <2>8. NumberIsNew' BY <2>1, <2>2, <2>3 DEF NumberIsNew
  <2>9. SavesKeepTheOthers' BY <2>3 DEF SavesKeepTheOthers
  <2> QED BY <2>4, <2>5, <2>6, <2>7, <2>8, <2>9
<1>3. CASE ConfigWritesAccounts
  <2>1. configuring \in ConfigCopies BY <1>3 DEF ConfigWritesAccounts, CopiesTyped
  <2>2. /\ configuring' \in ConfigCopies /\ configuring'.pc = "settings"
        /\ configuring'.before = configuring.before /\ configuring'.proxy = configuring.proxy
        /\ configuring'.kinds = configuring.kinds /\ configuring'.new = configuring.new
        /\ configuring'.prefs = configuring.prefs /\ configuring'.cards = configuring.cards
    BY <1>3, <2>1 DEF ConfigWritesAccounts, ConfigCopies
  <2>3. configuring.pc = "accounts" /\ configuring.before = accountsFile
    BY <1>3, <2>1 DEF ConfigWritesAccounts, ConfigCopy
  <2>4. accountsFile'.account = accountsFile.account /\ accountsFile'.cards = configuring.cards
    BY <1>3, <2>1, <2>3 DEF ConfigWritesAccounts, CopiesTyped, AccountsFile
  <2>5. UNCHANGED <<settingsFile, files, pooling, changes>> BY <1>3 DEF ConfigWritesAccounts
  <2>6. files = "config" BY <2>1, <2>3 DEF MutexHeld
  <2>7. pooling # Idle => pooling.pc \notin {"settings", "accounts"} BY <2>6 DEF MutexHeld
  <2>8. /\ expected'["account"] = expected["account"] /\ expected'["prefs"] = expected["prefs"]
        /\ expected'["proxy"] = expected["proxy"]
        /\ expected'["cards"] = IF "cards" \in configuring.kinds
                                THEN expected["cards"] \cup {configuring.new}
                                ELSE expected["cards"]
    BY <1>3 DEF ConfigWritesAccounts, May, Owned
  <2>9. NoneFromAhead' BY <2>1, <2>2, <2>4, <2>5 DEF NoneFromAhead, ConfigCopy
  <2>10. MutexHeld' BY <2>1, <2>2, <2>3, <2>5 DEF MutexHeld
  <2>11. PoolCopy' BY <2>4, <2>5, <2>7 DEF PoolCopy
  <2>12. ConfigCopy'
    BY <2>1, <2>2, <2>3, <2>4, <2>5, <2>8 DEF ConfigCopy, SavesKeepTheOthers
  <2>13. NumberIsNew' BY <2>1, <2>2, <2>3, <2>4, <2>5 DEF NumberIsNew
  <2>14. SavesKeepTheOthers'
    BY <2>1, <2>3, <2>4, <2>5, <2>8 DEF SavesKeepTheOthers, ConfigCopy
  <2> QED BY <2>9, <2>10, <2>11, <2>12, <2>13, <2>14
<1>4. CASE ConfigWritesSettings
  <2>1. configuring \in ConfigCopies BY <1>4 DEF ConfigWritesSettings, CopiesTyped
  <2>2. /\ configuring.pc = "settings" /\ files' = "free" /\ configuring' = Idle
        /\ UNCHANGED <<accountsFile, pooling, changes>>
    BY <1>4 DEF ConfigWritesSettings
  <2>3. settingsFile'.proxy = settingsFile.proxy /\ settingsFile'.prefs = configuring.prefs
    BY <1>4, <2>1, <2>2 DEF ConfigWritesSettings, ConfigCopy
  <2>4. files = "config" BY <2>1, <2>2 DEF MutexHeld
  <2>5. pooling # Idle => pooling.pc \notin {"settings", "accounts"} BY <2>4 DEF MutexHeld
  <2>6. /\ expected'["account"] = expected["account"] /\ expected'["proxy"] = expected["proxy"]
        /\ expected'["prefs"] = IF "prefs" \in configuring.kinds THEN {configuring.new}
                                ELSE expected["prefs"]
        /\ expected'["cards"] = IF "cards" \in configuring.kinds THEN {configuring.new}
                                ELSE expected["cards"]
    <3>1. expected' = Must(configuring.kinds, configuring.new) /\ configuring.kinds \subseteq {"prefs", "cards"}
      BY <1>4, <2>1 DEF ConfigWritesSettings, ConfigCopies
    <3> QED BY <3>1 DEF Must, Owned
  <2>7. NoneFromAhead' BY <2>1, <2>2, <2>3 DEF NoneFromAhead, ConfigCopy
  <2>8. MutexHeld' BY <2>2, <2>4, <2>5 DEF MutexHeld
  <2>9. PoolCopy' BY <2>2, <2>3, <2>5 DEF PoolCopy
  <2>10. ConfigCopy' /\ NumberIsNew' BY <2>2 DEF ConfigCopy, NumberIsNew
  <2>11. SavesKeepTheOthers'
    BY <2>1, <2>2, <2>3, <2>6 DEF SavesKeepTheOthers, ConfigCopy
  <2> QED BY <2>7, <2>8, <2>9, <2>10, <2>11
<1>5. CASE ConfigFails
  <2>1. configuring \in ConfigCopies BY <1>5 DEF ConfigFails, CopiesTyped
  <2>2. /\ configuring.pc = "settings" /\ files' = "free" /\ configuring' = Idle
        /\ accountsFile' = configuring.before
        /\ UNCHANGED <<settingsFile, pooling, changes>>
    BY <1>5 DEF ConfigFails
  <2>3. accountsFile'.account = accountsFile.account BY <2>1, <2>2 DEF ConfigCopy
  <2>4. files = "config" BY <2>1, <2>2 DEF MutexHeld
  <2>5. pooling # Idle => pooling.pc \notin {"settings", "accounts"} BY <2>4 DEF MutexHeld
  <2>6. \A d \in Owned : expected'[d] = expected[d] \ {configuring.new}
    BY <1>5 DEF ConfigFails
  <2>7. NoneFromAhead' BY <2>1, <2>2, <2>3 DEF NoneFromAhead
  <2>8. MutexHeld' BY <2>2, <2>4, <2>5 DEF MutexHeld
  <2>9. PoolCopy' BY <2>2, <2>3, <2>5 DEF PoolCopy
  <2>10. ConfigCopy' /\ NumberIsNew' BY <2>2 DEF ConfigCopy, NumberIsNew
  <2>11. SavesKeepTheOthers'
    BY <2>1, <2>2, <2>3, <2>6 DEF SavesKeepTheOthers, ConfigCopy, NumberIsNew, Owned
  <2> QED BY <2>7, <2>8, <2>9, <2>10, <2>11
<1> QED BY <1>1, <1>2, <1>3, <1>4, <1>5

(* The proxy's commands change no file but the key's own, and their saves  *)
(* change no account.                                                      *)
LEMMA KeySteps ==
  ASSUME CopiesTyped, FilesInv,
         RotateStarts \/ RotateLoads \/ RotateEnds \/ Starts \/ StartLoads \/ StartEnds \/ Stops
           \/ StatusFindsNoFile \/ StatusWritesFile \/ DataCrash
  PROVE  FilesInv'
<1> USE CopiesAreBusy, NumbersInFiles DEF FilesInv
<1>1. UNCHANGED <<accountsFile, settingsFile, expected>>
  BY DEF RotateStarts, RotateLoads, RotateEnds, Starts, StartLoads, StartEnds, Stops,
     StatusFindsNoFile, StatusWritesFile, DataCrash, dataFiles
<1>2. changes' \in Nat /\ changes <= changes'
  BY DEF RotateStarts, RotateLoads, RotateEnds, Starts, StartLoads, StartEnds, Stops,
     StatusFindsNoFile, StatusWritesFile, DataCrash, Changes
<1>3. SavesKeepTheOthers' BY <1>1 DEF SavesKeepTheOthers
<1>4. CASE DataCrash
  <2>1. files' = "free" /\ pooling' = Idle /\ configuring' = Idle /\ changes' = changes
    BY <1>4 DEF DataCrash
  <2> QED BY <1>1, <1>3, <2>1 DEF NoneFromAhead, MutexHeld, PoolCopy, ConfigCopy, NumberIsNew
<1>5. CASE ~DataCrash
  <2>1. UNCHANGED <<files, configuring>>
    BY <1>5 DEF RotateStarts, RotateLoads, RotateEnds, Starts, StartLoads, StartEnds, Stops,
       StatusFindsNoFile, StatusWritesFile, dataActors
  <2>2. ConfigCopy' BY <1>1, <2>1 DEF ConfigCopy
  <2>3. CASE UNCHANGED pooling
    BY <1>1, <1>2, <1>3, <2>1, <2>2, <2>3 DEF NoneFromAhead, MutexHeld, PoolCopy, NumberIsNew
  <2>4. CASE StartEnds
    <3>1. pooling.pc = "keyfile" /\ pooling' = Idle BY <2>4 DEF StartEnds
    <3> QED BY <1>1, <1>2, <1>3, <2>1, <2>2, <3>1
          DEF NoneFromAhead, MutexHeld, PoolCopy, NumberIsNew
  <2>5. CASE RotateLoads \/ StartLoads
    <3>1. pooling' \in PoolCopies BY <2>5, KeyTyped DEF CopiesTyped, RotateLoads, StartLoads, Idle
    <3>2. pooling = Idle /\ pooling'.kinds = {} /\ files = "free"
      BY <2>5 DEF RotateLoads, StartLoads
    <3>3. \/ pooling'.pc = "keyfile"
          \/ /\ pooling'.pc = "changing" /\ pooling'.account = accountsFile.account
             /\ pooling'.proxy = settingsFile.proxy
      BY <2>5 DEF RotateLoads, StartLoads
    <3> QED BY <1>1, <1>2, <1>3, <2>1, <2>2, <3>1, <3>2, <3>3
          DEF NoneFromAhead, MutexHeld, PoolCopy, NumberIsNew
  <2> QED BY <1>5, <2>3, <2>4, <2>5 DEF RotateStarts, RotateEnds, Starts, Stops,
       StatusFindsNoFile, StatusWritesFile, dataActors
<1> QED BY <1>4, <1>5

LEMMA FilesStep == CopiesTyped /\ FilesInv /\ [DataNext]_dataVars => FilesInv'
<1>1. FilesInv /\ UNCHANGED dataVars => FilesInv'
  BY DEF FilesInv, NoneFromAhead, MutexHeld, PoolCopy, ConfigCopy, NumberIsNew,
     SavesKeepTheOthers, dataVars
<1>2. ASSUME CopiesTyped, FilesInv, DataNext PROVE FilesInv'
  <2>1. CASE \/ \E kinds \in {{"account"}, {"proxy"}} : PoolLoads(kinds)
             \/ PoolSaves \/ PoolWritesSettings \/ PoolWritesAccounts \/ PoolFails
    BY <1>2, <2>1, PoolSteps
  <2>2. CASE \/ \E kinds \in {{"prefs"}, {"cards"}, {"prefs", "cards"}} : ConfigLoads(kinds)
             \/ ConfigSaves \/ ConfigWritesAccounts \/ ConfigWritesSettings \/ ConfigFails
    BY <1>2, <2>2, ConfigSteps
  <2>3. CASE RotateStarts \/ RotateLoads \/ RotateEnds \/ Starts \/ StartLoads \/ StartEnds
               \/ Stops \/ StatusFindsNoFile \/ StatusWritesFile \/ DataCrash
    BY <1>2, <2>3, KeySteps
  <2> QED BY <1>2, <2>1, <2>2, <2>3 DEF DataNext
<1> QED BY <1>1, <1>2

(* Though every save writes both files from a copy loaded earlier, none    *)
(* takes back what the holder of another lock saved, whichever writes fail *)
(* and wherever Copool crashes (repository.rs, application.rs).            *)
THEOREM NoSaveTakenBack == DataSpec => []SavesKeepTheOthers
<1>1. CopiesTyped /\ FilesInv => SavesKeepTheOthers BY DEF FilesInv
<1> QED BY <1>1, CopiesStart, FilesStart, TypedStep, FilesStep, PTL DEF DataSpec

-----------------------------------------------------------------------------
(* The proxy's key.                                                        *)

LEMMA KeysStart == DataInit => KeysInv
BY DEF DataInit, KeysInv, KeyCommands, KeysShown, Idle

LEMMA KeysStep ==
  ASSUME CopiesTyped, KeysInv, DataNext
  PROVE  KeysInv'
<1> USE CopiesAreBusy DEF KeysInv
<1>0. CopiesTyped' BY TypedStep
<1>1. CASE \/ \E kinds \in {{"account"}, {"proxy"}} : PoolLoads(kinds)
           \/ PoolSaves \/ PoolWritesSettings
  <2>1. UNCHANGED <<keyFile, keying, server, keysTold, overwritten, configuring>>
    BY <1>1 DEF PoolLoads, PoolSaves, PoolWritesSettings, keyVars
  <2>2. /\ pooling' \in PoolCopies
        /\ \/ pooling'.by = "pool" /\ pooling'.key = settingsFile.key
           \/ /\ pooling # Idle /\ pooling'.key = pooling.key /\ pooling'.by = pooling.by
              /\ pooling'.kinds = pooling.kinds
        /\ pooling'.pc # "keyfile"
    <3>1. CASE \E kinds \in {{"account"}, {"proxy"}} : PoolLoads(kinds)
      <4>1. /\ pooling'.by = "pool" /\ pooling'.key = settingsFile.key
            /\ pooling'.pc = "changing"
        BY <3>1 DEF PoolLoads
      <4> QED BY <1>0, <4>1 DEF CopiesTyped, Idle
    <3>2. CASE PoolSaves \/ PoolWritesSettings
      <4>1. pooling \in PoolCopies BY <3>2 DEF PoolSaves, PoolWritesSettings, CopiesTyped
      <4>2. /\ pooling'.key = pooling.key /\ pooling'.by = pooling.by
            /\ pooling'.kinds = pooling.kinds /\ pooling'.pc \in {"settings", "accounts"}
        BY <3>2, <4>1 DEF PoolSaves, PoolWritesSettings, PoolCopies
      <4> QED BY <1>0, <4>1, <4>2 DEF CopiesTyped, Idle
    <3> QED BY <1>1, <3>1, <3>2
  <2>3. settingsFile'.key = settingsFile.key
          \/ (pooling # Idle /\ settingsFile'.key = pooling.key)
    BY <1>1 DEF PoolLoads, PoolSaves, PoolWritesSettings, dataFiles, CopiesTyped, SettingsFile, Idle
  <2>4. KeyCommands' BY <2>1, <2>2 DEF KeyCommands
  <2>5. KeysShown' BY <2>1, <2>2, <2>3 DEF KeysShown
  <2> QED BY <2>4, <2>5
<1>2. CASE PoolWritesAccounts
  <2>1. pooling \in PoolCopies BY <1>2 DEF PoolWritesAccounts, CopiesTyped
  <2>2. UNCHANGED <<settingsFile, keyFile, server, keysTold, overwritten, configuring>>
    BY <1>2 DEF PoolWritesAccounts
  <2>3. pooling' # Idle =>
          /\ pooling.by = "start" /\ pooling'.by = "start" /\ pooling'.key = pooling.key
          /\ pooling'.kinds = pooling.kinds
    BY <1>2, <2>1 DEF PoolWritesAccounts, PoolCopies
  <2>4. CASE pooling.by = "rotate"
    <3>1. keying \in Keyings BY <2>1, <2>4 DEF CopiesTyped
    <3>2. keying' \in Keyings /\ keying'.pc = "saved" /\ keying'.key = keying.key
      BY <1>2, <2>4, <3>1 DEF PoolWritesAccounts, Keyings
    <3>3. keying.key # 0 /\ pooling' = Idle
      BY <1>2, <2>1, <2>4 DEF KeyCommands, PoolWritesAccounts
    <3>4. KeyCommands' BY <2>2, <3>1, <3>2, <3>3 DEF KeyCommands
    <3>5. KeysShown' BY <2>2, <3>3 DEF KeysShown
    <3> QED BY <3>4, <3>5
  <2>5. CASE pooling.by # "rotate"
    <3>1. keying' = keying BY <1>2, <2>5 DEF PoolWritesAccounts
    <3>2. KeyCommands' BY <2>1, <2>2, <2>3, <3>1 DEF KeyCommands
    <3>3. KeysShown' BY <2>1, <2>2, <2>3 DEF KeysShown
    <3> QED BY <3>2, <3>3
  <2> QED BY <2>4, <2>5
<1>3. CASE PoolFails \/ DataCrash
  <2>1. pooling' = Idle /\ (keying' = keying \/ keying' = Idle)
        /\ (configuring' = configuring \/ configuring' = Idle)
        /\ (server' = server \/ server' = 0) /\ UNCHANGED <<settingsFile, keyFile, keysTold, overwritten>>
    BY <1>3 DEF PoolFails, DataCrash, dataFiles
  <2> QED BY <2>1 DEF KeyCommands, KeysShown
<1>4. CASE \/ \E kinds \in {{"prefs"}, {"cards"}, {"prefs", "cards"}} : ConfigLoads(kinds)
           \/ ConfigSaves \/ ConfigWritesAccounts \/ ConfigWritesSettings \/ ConfigFails
  <2>1. UNCHANGED <<keyFile, keying, server, keysTold, overwritten, pooling>>
    BY <1>4 DEF ConfigLoads, ConfigSaves, ConfigWritesAccounts, ConfigWritesSettings,
       ConfigFails, keyVars
  <2>2. CASE \E kinds \in {{"prefs"}, {"cards"}, {"prefs", "cards"}} : ConfigLoads(kinds)
    <3>1. settingsFile' = settingsFile /\ configuring'.key = settingsFile.key
      BY <2>2 DEF ConfigLoads, dataFiles
    <3> QED BY <2>1, <3>1 DEF KeyCommands, KeysShown
  <2>3. CASE ConfigSaves \/ ConfigWritesAccounts
    <3>1. configuring \in ConfigCopies
      BY <2>3 DEF ConfigSaves, ConfigWritesAccounts, CopiesTyped
    <3>2. settingsFile' = settingsFile /\ configuring'.key = configuring.key
      BY <2>3, <3>1 DEF ConfigSaves, ConfigWritesAccounts, ConfigCopies, dataFiles
    <3> QED BY <2>1, <3>1, <3>2 DEF KeyCommands, KeysShown
  <2>4. CASE ConfigWritesSettings \/ ConfigFails
    <3>1. configuring \in ConfigCopies
      BY <2>4 DEF ConfigWritesSettings, ConfigFails, CopiesTyped
    <3>2. configuring' = Idle /\ settingsFile'.key \in {settingsFile.key, configuring.key}
      BY <2>4 DEF ConfigWritesSettings, ConfigFails
    <3> QED BY <2>1, <3>1, <3>2 DEF KeyCommands, KeysShown
  <2> QED BY <1>4, <2>2, <2>3, <2>4
<1>5. CASE RotateStarts
  <2>1. /\ keying = Idle /\ keyFile' # 0 /\ keysTold' = keysTold \cup {keyFile'}
        /\ keying' = [pc |-> "rotating", key |-> keyFile']
        /\ UNCHANGED <<settingsFile, pooling, configuring, server>>
    BY <1>5, NumberGiven DEF RotateStarts, dataFiles, dataActors
  <2>2. pooling # Idle => pooling.by = "pool" BY <2>1 DEF CopiesTyped
  <2>3. KeyCommands' BY <2>1, <2>2 DEF KeyCommands
  <2>4. KeysShown' BY <2>1 DEF KeysShown
  <2> QED BY <2>3, <2>4
<1>6. CASE RotateLoads
  <2>1. keying \in Keyings BY <1>6 DEF RotateLoads, CopiesTyped
  <2>2. keying' \in Keyings /\ keying'.pc = "saving" /\ keying'.key = keying.key
    BY <1>6, <2>1 DEF RotateLoads, Keyings
  <2>3. /\ pooling'.by = "rotate" /\ pooling'.kinds = {} /\ pooling'.pc = "changing"
        /\ pooling'.key = keying.key /\ keying.pc = "rotating"
        /\ UNCHANGED <<settingsFile, keyFile, configuring, server, keysTold, overwritten>>
    BY <1>6 DEF RotateLoads, dataFiles
  <2>4. keying.key # 0 /\ keyFile # 0 /\ (~overwritten => keyFile = keying.key)
    BY <2>1, <2>3 DEF KeyCommands
  <2>5. KeyCommands' BY <2>2, <2>3, <2>4 DEF KeyCommands
  <2>6. KeysShown' BY <2>3, <2>4 DEF KeysShown
  <2> QED BY <2>5, <2>6
<1>7. CASE RotateEnds
  <2>1. keying \in Keyings /\ keying.pc = "saved" BY <1>7 DEF RotateEnds, CopiesTyped
  <2>2. keying.key # 0 /\ keyFile # 0 /\ (~overwritten => keyFile = keying.key)
    BY <2>1 DEF KeyCommands
  <2>3. pooling # Idle => pooling.by = "pool" BY <2>1 DEF CopiesTyped
  <2>4. /\ keying' = Idle /\ keysTold' = {keying.key} /\ server' \in {0, keying.key}
        /\ UNCHANGED <<settingsFile, keyFile, overwritten, pooling, configuring>>
    BY <1>7 DEF RotateEnds, dataFiles, dataActors
  <2>5. KeyCommands' BY <2>3, <2>4 DEF KeyCommands
  <2>6. KeysShown' BY <2>2, <2>4 DEF KeysShown
  <2> QED BY <2>5, <2>6
<1>8. CASE Starts
  <2>1. keying = Idle /\ UNCHANGED <<settingsFile, keyFile, pooling, configuring>>
    BY <1>8 DEF Starts, dataFiles, dataActors
  <2>2. pooling # Idle => pooling.by = "pool" BY <2>1 DEF CopiesTyped
  <2>3. CASE keyFile # 0
    <3>1. server' = keyFile /\ keysTold' = {keyFile} /\ keying' = keying
      BY <1>8, <2>3 DEF Starts
    <3> QED BY <2>1, <2>3, <3>1 DEF KeyCommands, KeysShown
  <2>4. CASE keyFile = 0
    <3>1. keying' = [pc |-> "starting", key |-> 0] /\ UNCHANGED <<server, keysTold, overwritten>>
      BY <1>8, <2>4 DEF Starts
    <3> QED BY <2>1, <2>2, <2>4, <3>1 DEF KeyCommands, KeysShown
  <2> QED BY <2>3, <2>4
<1>9. CASE StartLoads
  <2>1. keying \in Keyings BY <1>9 DEF StartLoads, CopiesTyped
  <2>2. keying' \in Keyings /\ keying'.pc = "saving" /\ keying'.key = keying.key
    BY <1>9, <2>1 DEF StartLoads, Keyings
  <2>3. keying.key = 0 BY <1>9, <2>1 DEF StartLoads, KeyCommands, Idle
  <2>4. UNCHANGED <<settingsFile, keyFile, overwritten, configuring, server>>
    BY <1>9 DEF StartLoads, dataFiles
  <2>5. /\ pooling'.by = "start" /\ pooling'.kinds = {} /\ pooling'.key # 0
        /\ keysTold \subseteq keysTold'
        /\ pooling'.key \in keysTold' \/ pooling'.key = settingsFile.key
    BY <1>9, NumberGiven DEF StartLoads
  <2>6. KeyCommands' BY <2>2, <2>3, <2>4, <2>5 DEF KeyCommands
  <2>7. KeysShown' BY <2>4, <2>5 DEF KeysShown
  <2> QED BY <2>6, <2>7
<1>10. CASE StartEnds
  <2>1. pooling \in PoolCopies /\ pooling.pc = "keyfile"
    BY <1>10 DEF StartEnds, CopiesTyped, Idle
  <2>2. pooling.key # 0 BY <2>1 DEF KeyCommands
  <2>3. /\ keyFile' = pooling.key /\ server' = pooling.key /\ keysTold' = {pooling.key}
        /\ pooling' = Idle /\ keying' = Idle
    BY <1>10 DEF StartEnds
  <2> QED BY <2>2, <2>3 DEF KeyCommands, KeysShown
<1>11. CASE Stops \/ StatusFindsNoFile
  <2>1. (server' = 0 \/ server' = server)
        /\ UNCHANGED <<settingsFile, keyFile, keying, keysTold, overwritten, pooling, configuring>>
    BY <1>11 DEF Stops, StatusFindsNoFile, dataFiles, dataActors
  <2> QED BY <2>1 DEF KeyCommands, KeysShown
<1>12. CASE StatusWritesFile
  <2>1. /\ keyFile' = IF settingsFile.key = 0 THEN keyFile ELSE settingsFile.key
        /\ overwritten' = (overwritten \/ keyFile \notin {0, keyFile'})
        /\ UNCHANGED <<settingsFile, keying, server, keysTold, pooling, configuring>>
    BY <1>12 DEF StatusWritesFile, dataFiles, dataActors
  <2>2. ~overwritten' => ~overwritten /\ (keyFile # 0 => keyFile' = keyFile)
    BY <2>1 DEF CopiesTyped
  <2>3. keyFile' # 0 /\ ~overwritten' => keyFile' \in keysTold BY <2>1, <2>2 DEF KeysShown
  <2>4. keyFile' = 0 => keyFile = 0 BY <2>1
  <2>5. KeyCommands' BY <2>1, <2>2, <2>4 DEF KeyCommands
  <2>6. KeysShown' BY <2>1, <2>3, <2>4 DEF KeysShown
  <2> QED BY <2>5, <2>6
<1> QED BY <1>1, <1>2, <1>3, <1>4, <1>5, <1>6, <1>7, <1>8, <1>9, <1>10, <1>11, <1>12 DEF DataNext

(* The two files hold what was saved last, and the proxy accepts, and will *)
(* after its next start, the key last shown or that of a rotation that     *)
(* failed; only the next start's may be another, after a status that found *)
(* no file for the key wrote the settings' key over a rotation's           *)
(* (repository.rs, proxy_service.rs).                                      *)
THEOREM SharedFilesAgree == DataSpec => []FilesAgree
<1> DEFINE Inv == CopiesTyped /\ FilesInv /\ KeysInv
<1>1. DataInit => Inv BY CopiesStart, FilesStart, KeysStart
<1>2. Inv /\ [DataNext]_dataVars => Inv'
  <2>1. KeysInv /\ UNCHANGED dataVars => KeysInv'
    BY DEF KeysInv, KeyCommands, KeysShown, dataVars, keyVars, dataFiles, dataActors
  <2> QED BY <2>1, TypedStep, FilesStep, KeysStep
<1>3. Inv => FilesAgree
  BY DEF FilesInv, KeysInv, KeysShown, FilesAgree, KeyAsShown, StartKey
<1> QED BY <1>1, <1>2, <1>3, PTL DEF DataSpec

-----------------------------------------------------------------------------
(* Codex's configuration.                                                  *)

Served == Providers \cup {Official}
ConfigKeys == {"profile", "model_provider"}
Sections == Profiles \cup {Root, "other"}
Documents == Seq(Lines)
Untexted(doc) == \A i \in 1..Len(doc) : doc[i].is # "text"

\* What a line of each kind has.
LEMMA PlainFacts ==
  ASSUME NEW l \in PlainLines
  PROVE  /\ l.is \in {"header", "assignment"}
         /\ l.is = "header" => l.section \in Profiles \cup {"other"}
         /\ l.is = "assignment" =>
              /\ l.key \in ConfigKeys /\ l = Assign(l.key, l.value)
              /\ l.key = "profile" => l.value \in Profiles
<1>1. CASE l \in Headers
  BY <1>1 DEF Headers, Header
<1>2. CASE l \in {Assign("profile", p) : p \in Profiles}
  BY <1>2 DEF Assign, ConfigKeys
<1>3. CASE l \in {Assign("model_provider", v) : v \in Providers \cup {Official, Unquoted}}
  BY <1>3 DEF Assign, ConfigKeys
<1> QED
  BY <1>1, <1>2, <1>3 DEF PlainLines

LEMMA LineFacts ==
  ASSUME NEW l \in Lines
  PROVE  /\ l.is \in {"header", "assignment", "dotted", "text"}
         /\ l.is \in {"header", "assignment"} => l \in PlainLines
         /\ l.is = "dotted" => l.section \in Profiles /\ l = Dotted(l.section, l.value)
         /\ l.is = "text" => l.of \in PlainLines /\ l = Text(l.of)
<1>1. CASE l \in PlainLines
  BY <1>1, PlainFacts
<1>2. CASE l \in {Dotted(p, v) : p \in Profiles, v \in Providers \cup {Official}}
  BY <1>2 DEF Dotted
<1>3. CASE l \in {Text(x) : x \in PlainLines}
  BY <1>3 DEF Text
<1> QED
  BY <1>1, <1>2, <1>3 DEF Lines

\* An assignment of a provider, as it is or as the scan sees it.
Selects(l) ==
  \/ l.is = "dotted"
  \/ Seen(l).is = "assignment" /\ Seen(l).key = "model_provider"

\* With another value an assignment is what it was, but for the value.
LEMMA SetValueFacts ==
  ASSUME NEW l \in Lines, Selects(l), NEW p \in Served
  PROVE  /\ SetValue(l, p) \in Lines /\ SetValue(l, p).is = l.is
         /\ l.is = "assignment" => SetValue(l, p).key = l.key
         /\ l.is = "dotted" => SetValue(l, p).section = l.section
         /\ l.is # "text" => SetValue(l, p).value = p
<1>1. CASE l.is = "dotted"
  <2>1. l.section \in Profiles /\ l = Dotted(l.section, l.value)
    BY <1>1, LineFacts
  <2>2. SetValue(l, p) = Dotted(l.section, p)
    BY <2>1 DEF Dotted, SetValue
  <2> QED
    BY <1>1, <2>1, <2>2 DEF Lines, Dotted, Served
<1>2. CASE l.is = "text"
  <2>1. l.of \in PlainLines /\ l = Text(l.of) /\ l.of.is = "assignment" /\ l.of.key = "model_provider"
    BY <1>2, LineFacts DEF Selects, Seen
  <2>2. l.of = Assign("model_provider", l.of.value)
    BY <2>1, PlainFacts
  <2>3. SetValue(l, p) = Text(Assign("model_provider", p))
    BY <2>1, <2>2, <1>2 DEF SetValue, Text, Assign
  <2>4. Assign("model_provider", p) \in PlainLines
    BY DEF PlainLines, Served
  <2> QED
    BY <2>3, <2>4, <1>2 DEF Lines, Text
<1>3. CASE l.is \in {"header", "assignment"}
  <2>1. l \in PlainLines /\ l.is = "assignment" /\ l.key = "model_provider"
    BY <1>3, LineFacts DEF Selects, Seen
  <2>2. l = Assign("model_provider", l.value)
    BY <2>1, PlainFacts
  <2>3. SetValue(l, p) = Assign("model_provider", p)
    BY <2>2 DEF SetValue, Assign
  <2>4. Assign("model_provider", p) \in PlainLines
    BY DEF PlainLines, Served
  <2> QED
    BY <2>1, <2>3, <2>4 DEF Lines, Assign
<1> QED
  BY <1>1, <1>2, <1>3, LineFacts

\* The first of some lines.
LEMMA LeastFacts ==
  ASSUME NEW S, S \subseteq Nat, S # {}
  PROVE  Least(S) \in S /\ \A j \in S : Least(S) <= j
<1>1. IsWellFoundedOn(OpToRel(<, Nat), Nat)
  BY NatLessThanWellFounded, Zenon
<1>2. PICK n \in S : \A m \in S : ~ (<<m, n>> \in OpToRel(<, Nat))
  BY <1>1, WFMin, Zenon
<1>3. ASSUME NEW m \in S PROVE n <= m
  <2>1. ~ (m < n)
    BY <1>2, n \in Nat, m \in Nat, Zenon DEF OpToRel
  <2> QED
    BY <2>1
<1> QED
  BY <1>3 DEF Least

-----------------------------------------------------------------------------
(* What an edit changes.                                                   *)

\* What `rewriting` is built from: the assignments the scan misses, those it finds,
\* and the line an assignment is put before.
Hidden(doc) ==
  IF profile_target(doc) = Root /\ Given(doc, Root, "profile")
  THEN Assignments(doc, Value(doc, Root, "profile"), "model_provider") ELSE {}
Found(doc) ==
  {i \in 1..Len(doc) : SeemsToAssign(doc, i, "model_provider") /\ SeenTable(doc, i) = profile_target(doc)}
Rewritten(doc) == IF Hidden(doc) # {} THEN Hidden(doc) ELSE Found(doc)
HeaderLines(doc) == {i \in 1..Len(doc) : SeemsHeader(doc[i])}
Place(doc) == IF HeaderLines(doc) = {} THEN Len(doc) + 1 ELSE Least(HeaderLines(doc))

LEMMA RewritingIs ==
  ASSUME NEW doc, NEW p
  PROVE  rewriting(doc, p) =
           IF ~Parses(doc) THEN Unwritable
           ELSE IF Rewritten(doc) # {}
           THEN [doc EXCEPT ![Least(Rewritten(doc))] = SetValue(@, p)]
           ELSE IF profile_target(doc) # Root THEN Unwritable
           ELSE Inserted(doc, Place(doc), Assign("model_provider", p))
  BY DEF rewriting, Hidden, Found, Rewritten, HeaderLines, Place

\* What assigns a value.
LEMMA AssignmentFacts ==
  ASSUME NEW doc, NEW section, NEW key, NEW i \in Assignments(doc, section, key)
  PROVE  /\ i \in 1..Len(doc) /\ Assigns(doc, i, section, key)
         /\ \/ doc[i].is = "assignment" /\ doc[i].key = key
            \/ doc[i].is = "dotted" /\ key = "model_provider"
  BY DEF Assignments, Assigns

\* A line that is rewritten assigns a provider, or seems to.
LEMMA RewrittenSelect ==
  ASSUME NEW doc \in Documents, NEW i \in Rewritten(doc)
  PROVE  i \in 1..Len(doc) /\ doc[i] \in Lines /\ Selects(doc[i])
<1>1. i \in 1..Len(doc)
  BY DEF Rewritten, Hidden, Found, Assignments
<1>2. doc[i] \in Lines
  BY <1>1 DEF Documents
<1>3. CASE i \in Hidden(doc)
  <2>1. doc[i].is = "dotted" \/ (doc[i].is = "assignment" /\ doc[i].key = "model_provider")
    <3> DEFINE A == Assignments(doc, Value(doc, Root, "profile"), "model_provider")
    <3>1. Hidden(doc) = A \/ Hidden(doc) = {}
      BY DEF Hidden
    <3> HIDE DEF A
    <3>2. i \in A
      BY <3>1, <1>3
    <3> QED
      BY <3>2, AssignmentFacts DEF A
  <2> QED
    BY <1>1, <1>2, <2>1 DEF Selects, Seen
<1>4. CASE i \in Found(doc)
  BY <1>1, <1>2, <1>4 DEF Found, SeemsToAssign, Selects
<1> QED
  BY <1>3, <1>4 DEF Rewritten

\* A part of a sequence.
LEMMA SubSeqOf ==
  ASSUME NEW S, NEW s \in Seq(S), NEW m \in Nat, NEW n \in Nat, 1 <= m, m <= n + 1, n <= Len(s)
  PROVE  /\ SubSeq(s, m, n) \in Seq(S) /\ Len(SubSeq(s, m, n)) = n - m + 1
         /\ \A i \in 1..n - m + 1 : SubSeq(s, m, n)[i] = s[m + i - 1]
  BY SMTT(30)

\* The lines of a document with a line more.
Lengthened(next, doc, k, line) ==
  /\ next \in Documents /\ Len(next) = Len(doc) + 1
  /\ \A i \in 1..Len(doc) : i < k => next[i] = doc[i]
  /\ \A i \in 1..Len(doc) : ~(i < k) => next[i + 1] = doc[i]
  /\ next[k] = line \/ (k <= Len(doc) /\ doc[k].is = "text")
  /\ doc = SubSeq(next, 1, k - 1) \o SubSeq(next, k + 1, Len(next))
LEMMA InsertedLines ==
  ASSUME NEW doc \in Documents, NEW k \in 1..Len(doc) + 1, NEW l \in PlainLines
  PROVE  Lengthened(Inserted(doc, k, l), doc, k, l)
<1> DEFINE next == Inserted(doc, k, l)
           line == IF k <= Len(doc) /\ doc[k].is = "text" THEN Text(l) ELSE l
<1>1. line \in Lines
  BY DEF Lines
<1>2. next = SubSeq(doc, 1, k - 1) \o <<line>> \o SubSeq(doc, k, Len(doc))
  BY DEF Inserted
<1> HIDE DEF line, next
<1>3. doc \in Seq(Lines) /\ Len(doc) \in Nat
  BY DEF Documents
<1> DEFINE n == Len(doc)
           before == SubSeq(doc, 1, k - 1)
           after == SubSeq(doc, k, n)
<1>4. /\ before \in Seq(Lines) /\ Len(before) = k - 1
      /\ \A i \in 1..k - 1 : before[i] = doc[i]
  <2>1. 1 <= k /\ k - 1 \in Nat /\ 1 <= (k - 1) + 1 /\ k - 1 <= Len(doc) /\ (k - 1) - 1 + 1 = k - 1
    BY <1>3
  <2>2. \A i \in 1..k - 1 : 1 + i - 1 = i
    OBVIOUS
  <2> QED
    BY <2>1, <2>2, <1>3, SubSeqOf
<1>5. /\ after \in Seq(Lines) /\ Len(after) = n - k + 1
      /\ \A i \in 1..n - k + 1 : after[i] = doc[k + i - 1]
  BY <1>3, SubSeqOf
<1> HIDE DEF before, after
<1>6. /\ next \in Seq(Lines) /\ Len(next) = n + 1
      /\ \A i \in 1..k - 1 : next[i] = before[i]
      /\ next[k] = line
      /\ \A i \in k + 1..n + 1 : next[i] = after[i - k]
  <2>1. next = before \o <<line>> \o after
    BY <1>2 DEF before, after
  <2>2. <<line>> \in Seq(Lines) /\ Len(<<line>>) = 1 /\ <<line>>[1] = line
    BY <1>1
  <2> DEFINE upTo == before \o <<line>>
  <2>3. /\ upTo \in Seq(Lines) /\ Len(upTo) = k
        /\ \A i \in 1..k - 1 : upTo[i] = before[i]
        /\ upTo[k] = line
    BY <2>2, <1>3, <1>4, ConcatProperties
  <2>4. next = upTo \o after
    BY <2>1 DEF upTo
  <2> HIDE DEF upTo
  <2>5. /\ next \in Seq(Lines) /\ Len(next) = k + (n - k + 1)
        /\ \A i \in 1..k + (n - k + 1) : next[i] = (IF i <= k THEN upTo[i] ELSE after[i - k])
    <3>1. Len(upTo) + Len(after) = k + (n - k + 1)
      BY <2>3, <1>3, <1>5
    <3>2. upTo \in Seq(Lines) /\ after \in Seq(Lines) /\ Len(upTo) = k
      BY <2>3, <1>5
    <3>3. /\ next \in Seq(Lines) /\ Len(next) = Len(upTo) + Len(after)
          /\ \A i \in 1..Len(upTo) + Len(after) :
               next[i] = IF i <= Len(upTo) THEN upTo[i] ELSE after[i - Len(upTo)]
      BY <3>2, <2>4, ConcatProperties
    <3> QED
      BY <3>1, <3>2, <3>3
  <2> QED
    BY <2>3, <2>5, <1>3
<1>7. /\ \A i \in 1..n : i < k => next[i] = doc[i]
      /\ \A i \in 1..n : ~(i < k) => next[i + 1] = doc[i]
  <2>1. ASSUME NEW i \in 1..n, i < k PROVE next[i] = doc[i]
    BY <2>1, <1>4, <1>6
  <2>2. ASSUME NEW i \in 1..n, ~(i < k) PROVE next[i + 1] = doc[i]
    <3>1. k \in Nat /\ i \in Nat /\ n \in Nat /\ k <= i /\ i <= n
      BY <2>2, <1>3
    <3>2. i + 1 \in k + 1..n + 1 /\ (i + 1) - k \in 1..n - k + 1 /\ k + ((i + 1) - k) - 1 = i
      BY ONLY <3>1
    <3>3. next[i + 1] = after[(i + 1) - k]
      BY <3>2, <1>6
    <3> QED
      BY <3>2, <3>3, <1>5
  <2> QED
    BY <2>1, <2>2
<1>8. doc = SubSeq(next, 1, k - 1) \o SubSeq(next, k + 1, Len(next))
  <2> DEFINE a == SubSeq(next, 1, k - 1)
             b == SubSeq(next, k + 1, Len(next))
  <2>1. a \in Seq(Lines) /\ Len(a) = k - 1 /\ \A i \in 1..k - 1 : a[i] = next[i]
    BY <1>3, <1>6, SubSeqOf
  <2>2. b \in Seq(Lines) /\ Len(b) = n - k + 1 /\ \A i \in 1..n - k + 1 : b[i] = next[k + i]
    <3>1. Len(next) - (k + 1) + 1 = n - k + 1 /\ \A i \in 1..n - k + 1 : (k + 1) + i - 1 = k + i
      BY <1>3, <1>6
    <3> QED
      BY <3>1, <1>3, <1>6, SubSeqOf
  <2> HIDE DEF a, b
  <2>3. a \o b \in Seq(Lines) /\ Len(a \o b) = n
    BY <2>1, <2>2, <1>3
  <2>4. ASSUME NEW i \in 1..n PROVE (a \o b)[i] = doc[i]
    <3>1. CASE i < k
      BY <3>1, <2>1, <2>2, <1>3, <1>7
    <3>2. CASE ~(i < k)
      <4>1. k \in Nat /\ n \in Nat /\ i \in Nat /\ k <= i /\ i <= n /\ 1 <= k
        BY <3>2, <1>3
      <4>2. /\ i - (k - 1) \in 1..n - k + 1 /\ k + (i - (k - 1)) = i + 1
            /\ ~(i <= k - 1) /\ i \in 1..(k - 1) + (n - k + 1)
        BY ONLY <4>1
      <4>3. Len(a) = k - 1 /\ Len(b) = n - k + 1 /\ a \in Seq(Lines) /\ b \in Seq(Lines)
        BY <2>1, <2>2
      <4>4. i \in 1..Len(a) + Len(b) /\ ~(i <= Len(a))
        BY ONLY <4>2, <4>3
      <4>5. (a \o b)[i] = b[i - Len(a)]
        BY <4>3, <4>4, ConcatProperties
      <4>6. (a \o b)[i] = next[i + 1]
        BY <4>2, <4>3, <4>5, <2>2
      <4> QED
        BY <4>6, <1>7, <3>2
    <3> QED
      BY <3>1, <3>2
  <2>5. a \o b = doc
    BY <1>3, <2>3, <2>4, SeqEqual
  <2> QED
    BY <2>5 DEF a, b
<1> QED
  BY <1>3, <1>6, <1>7, <1>8 DEF Documents, Lengthened, line, next

-----------------------------------------------------------------------------
(* Tables and assignments of an edited document.                           *)

\* The last of some lines.
LEMMA GreatestFacts ==
  ASSUME NEW n \in Nat, NEW S, S \subseteq 1..n, S # {}
  PROVE  /\ \E j \in S : \A i \in S : i <= j
         /\ Greatest(S) \in S /\ \A i \in S : i <= Greatest(S)
<1> DEFINE bounds == {m \in 1..n : \A i \in S : i <= m}
           least == Least(bounds)
<1>1. n \in bounds /\ bounds \subseteq Nat
  <2>1. PICK i : i \in S
    OBVIOUS
  <2>2. i \in 1..n /\ n \in 1..n
    BY <2>1
  <2>3. \A j \in S : j <= n
    OBVIOUS
  <2> QED
    BY <2>2, <2>3
<1>2. least \in bounds /\ \A m \in bounds : least <= m
  <2> HIDE DEF bounds
  <2> QED
    BY <1>1, LeastFacts
<1> HIDE DEF least
<1>3. least \in S
  <2> SUFFICES ASSUME least \notin S PROVE FALSE
    OBVIOUS
  <2>1. \A i \in S : i <= least - 1 /\ 1 <= i
    BY <1>2
  <2>2. least - 1 \in bounds
    <3>1. PICK i : i \in S
      OBVIOUS
    <3>2. i \in Nat /\ 1 <= i /\ i <= least - 1
      BY <2>1, <3>1
    <3> QED
      BY <1>2, <2>1, <3>2
  <2> QED
    BY <1>2, <2>2
<1>4. \E j \in S : \A i \in S : i <= j
  BY <1>2, <1>3
<1> QED
  BY <1>4 DEF Greatest

\* One at most.
LEMMA AtMostOne ==
  ASSUME NEW n \in Nat, NEW S, S \subseteq 1..n
  PROVE  Cardinality(S) <= 1 <=> \A i, j \in S : i = j
<1>1. IsFiniteSet(S) /\ Cardinality(S) \in Nat
  <2>1. IsFiniteSet(1..n)
    BY FS_Interval
  <2>2. IsFiniteSet(S)
    BY <2>1, FS_Subset
  <2> QED
    BY <2>2, FS_CardinalityType
<1>2. ASSUME Cardinality(S) <= 1, NEW i \in S, NEW j \in S PROVE i = j
  <2>1. CASE Cardinality(S) = 0
    BY <2>1, <1>1, FS_EmptySet
  <2>2. CASE Cardinality(S) = 1
    BY <2>2, <1>1, FS_Singleton
  <2> QED
    BY <1>1, <1>2, <2>1, <2>2
<1>3. ASSUME \A i, j \in S : i = j PROVE Cardinality(S) <= 1
  <2>1. CASE S = {}
    BY <2>1, FS_EmptySet
  <2>2. CASE S # {}
    <3>1. PICK i \in S : S = {i}
      BY <2>2, <1>3
    <3> QED
      BY <3>1, FS_Singleton
  <2> QED
    BY <2>1, <2>2
<1> QED
  BY <1>2, <1>3

\* The table of a line is that of the last header.
Above(doc, i) == {j \in 1..i : doc[j].is = "header"}
LEMMA TableFacts ==
  ASSUME NEW doc \in Documents, NEW i \in 1..Len(doc)
  PROVE  /\ Above(doc, i) = {} => Table(doc, i) = Root
         /\ \A j \in Above(doc, i) :
              (\A m \in Above(doc, i) : m <= j) => Table(doc, i) = doc[j].section
         /\ Above(doc, i) # {} => \E j \in Above(doc, i) : \A m \in Above(doc, i) : m <= j
<1> DEFINE above == Above(doc, i)
           last == CHOOSE j \in above : \A m \in above : m <= j
<1>1. Table(doc, i) = IF above = {} THEN Root
                      ELSE IF doc[last].is = "text" THEN doc[last].of.section ELSE doc[last].section
  BY DEF Table, InTable, IsHeader, Above
<1>2. i \in Nat /\ above \subseteq 1..i
  BY DEF Above
<1>3. above # {} => \E j \in above : \A m \in above : m <= j
  BY <1>2, GreatestFacts
<1>4. ASSUME NEW j \in above, \A m \in above : m <= j PROVE Table(doc, i) = doc[j].section
  <2>1. last \in above /\ \A m \in above : m <= last
    BY <1>4
  <2>2. last = j
    BY <2>1, <1>2, <1>4
  <2>3. doc[j].is = "header"
    BY <1>4 DEF Above
  <2> QED
    BY <1>1, <1>4, <2>2, <2>3
<1> QED
  BY <1>1, <1>3, <1>4

\* The lines of doc are those of next, in their order and but for values; next has no
\* other headers nor assignments with dotted keys.
Alike(l, m) ==
  /\ m.is = l.is
  /\ l.is = "header" => m = l
  /\ l.is = "assignment" => m.key = l.key
  /\ l.is = "dotted" => m.section = l.section
Carries(doc, next, f) ==
  /\ f \in [1..Len(doc) -> 1..Len(next)]
  /\ \A i, j \in 1..Len(doc) : i < j => f[i] < f[j]
  /\ \A i \in 1..Len(doc) : Alike(doc[i], next[f[i]])
  /\ \A j \in 1..Len(next) : next[j].is \in {"header", "dotted"} => \E i \in 1..Len(doc) : j = f[i]

\* Each line stays in its table, and assigns what it assigned.
LEMMA TableCarried ==
  ASSUME NEW doc \in Documents, NEW next \in Documents, NEW f, Carries(doc, next, f),
         NEW i \in 1..Len(doc)
  PROVE  Table(next, f[i]) = Table(doc, i)
<1>1. Len(doc) \in Nat /\ Len(next) \in Nat /\ f[i] \in 1..Len(next)
  BY DEF Documents, Carries
<1>2. \A j \in Above(next, f[i]) : \E m \in Above(doc, i) : j = f[m]
  <2> SUFFICES ASSUME NEW j \in Above(next, f[i]) PROVE \E m \in Above(doc, i) : j = f[m]
    OBVIOUS
  <2>1. j \in 1..Len(next) /\ j <= f[i] /\ next[j].is = "header"
    BY <1>1 DEF Above
  <2>2. PICK m \in 1..Len(doc) : j = f[m]
    BY <2>1 DEF Carries
  <2>3. ~(i < m)
    BY <2>1, <2>2, <1>1 DEF Carries
  <2>4. doc[m].is = "header"
    BY <2>1, <2>2 DEF Carries, Alike
  <2> QED
    BY <2>2, <2>3, <2>4, <1>1 DEF Above
<1>3. \A m \in Above(doc, i) : f[m] \in Above(next, f[i]) /\ next[f[m]] = doc[m]
  <2> SUFFICES ASSUME NEW m \in Above(doc, i) PROVE f[m] \in Above(next, f[i]) /\ next[f[m]] = doc[m]
    OBVIOUS
  <2>1. m \in 1..Len(doc) /\ m <= i /\ doc[m].is = "header"
    BY <1>1 DEF Above
  <2>2. f[m] \in 1..Len(next) /\ f[m] <= f[i] /\ Alike(doc[m], next[f[m]])
    BY <2>1, <1>1 DEF Carries
  <2> QED
    BY <2>1, <2>2, <1>1 DEF Above, Alike
<1>4. CASE Above(doc, i) = {}
  BY <1>1, <1>2, <1>4, TableFacts
<1>5. CASE Above(doc, i) # {}
  <2>1. PICK j \in Above(doc, i) : \A m \in Above(doc, i) : m <= j
    BY <1>5, TableFacts
  <2>2. Table(doc, i) = doc[j].section
    BY <2>1, TableFacts
  <2>3. \A m \in Above(doc, i) : f[m] <= f[j]
    <3>1. Above(doc, i) \subseteq 1..Len(doc)
      BY <1>1 DEF Above
    <3> QED
      BY <3>1, <2>1, <1>1 DEF Carries
  <2>4. f[j] \in Above(next, f[i]) /\ \A m \in Above(next, f[i]) : m <= f[j]
    BY <1>2, <1>3, <2>1, <2>3
  <2>5. Table(next, f[i]) = next[f[j]].section
    BY <2>4, <1>1, TableFacts
  <2> QED
    BY <2>1, <2>2, <2>5, <1>3
<1> QED
  BY <1>4, <1>5

LEMMA AssignsCarried ==
  ASSUME NEW doc \in Documents, NEW next \in Documents, NEW f, Carries(doc, next, f),
         NEW i \in 1..Len(doc), NEW section, NEW key
  PROVE  Assigns(next, f[i], section, key) <=> Assigns(doc, i, section, key)
<1>1. Table(next, f[i]) = Table(doc, i)
  BY TableCarried
<1>2. Alike(doc[i], next[f[i]])
  BY DEF Carries
<1> QED
  BY <1>1, <1>2 DEF Assigns, Alike

\* What is read is read once.
LEMMA OneValue ==
  ASSUME NEW doc \in Documents, Parses(doc), NEW section \in Sections, NEW key \in ConfigKeys,
         NEW i \in Assignments(doc, section, key)
  PROVE  /\ Given(doc, section, key) /\ Value(doc, section, key) = doc[i].value
         /\ \A j \in Assignments(doc, section, key) : i = j
<1> DEFINE S == Assignments(doc, section, key)
<1>1. Len(doc) \in Nat /\ S \subseteq 1..Len(doc)
  BY DEF Documents, Assignments
<1>2. Cardinality(S) <= 1
  BY DEF Parses, Sections, ConfigKeys
<1> HIDE DEF S
<1>3. \A j, m \in S : j = m
  BY <1>1, <1>2, AtMostOne
<1>4. (CHOOSE j \in S : TRUE) = i
  BY <1>3 DEF S
<1> QED
  BY <1>3, <1>4 DEF Given, Value, S

\* The profile in use is a name.
LEMMA ProfileNamed ==
  ASSUME NEW doc \in Documents, NEW i \in Assignments(doc, Root, "profile")
  PROVE  doc[i].is = "assignment" /\ doc[i].key = "profile" /\ doc[i].value \in Profiles
<1>1. doc[i] \in Lines /\ doc[i].is = "assignment" /\ doc[i].key = "profile"
  BY AssignmentFacts DEF Documents
<1> QED
  BY <1>1, LineFacts, PlainFacts

\* Which provider is selected: that of the profile in use, or that of the root if the
\* profile has none.
LEMMA ProfileSelects ==
  ASSUME NEW doc \in Documents, Parses(doc), NEW i \in Assignments(doc, Root, "profile"),
         NEW j \in Assignments(doc, doc[i].value, "model_provider")
  PROVE  selected(doc) = doc[j].value
<1>1. doc[i].value \in Profiles
  BY ProfileNamed
<1>2. Given(doc, Root, "profile") /\ Value(doc, Root, "profile") = doc[i].value
  BY OneValue DEF Sections, ConfigKeys
<1>3. /\ Given(doc, doc[i].value, "model_provider")
      /\ Value(doc, doc[i].value, "model_provider") = doc[j].value
  BY <1>1, OneValue DEF Sections, ConfigKeys
<1> QED
  BY <1>2, <1>3 DEF selected

LEMMA RootSelects ==
  ASSUME NEW doc \in Documents, Parses(doc), NEW j \in Assignments(doc, Root, "model_provider"),
         \A i \in Assignments(doc, Root, "profile") :
            Assignments(doc, doc[i].value, "model_provider") = {}
  PROVE  selected(doc) = doc[j].value
<1>1. Given(doc, Root, "model_provider") /\ Value(doc, Root, "model_provider") = doc[j].value
  BY OneValue DEF Sections, ConfigKeys
<1>2. ASSUME Given(doc, Root, "profile")
      PROVE  ~Given(doc, Value(doc, Root, "profile"), "model_provider")
  <2>1. PICK i : i \in Assignments(doc, Root, "profile")
    BY <1>2 DEF Given
  <2>2. Value(doc, Root, "profile") = doc[i].value
    BY <2>1, OneValue DEF Sections, ConfigKeys
  <2> QED
    BY <2>1, <2>2 DEF Given
<1> QED
  BY <1>1, <1>2 DEF selected

\* A document with a line more parses if that line assigns what nothing assigned.
AssignsNewAt(k, next, doc, f) ==
  \A section \in Sections, key \in ConfigKeys : \A x \in Assignments(next, section, key) :
     \/ \E i \in 1..Len(doc) : x = f[i]
     \/ x = k /\ Assignments(doc, section, key) = {}
LEMMA ParseCarried ==
  ASSUME NEW doc \in Documents, NEW next \in Documents, NEW f, Carries(doc, next, f), Parses(doc),
         NEW k, AssignsNewAt(k, next, doc, f)
  PROVE  Parses(next)
<1>1. Len(doc) \in Nat /\ Len(next) \in Nat
  BY DEF Documents
<1>2. ASSUME NEW section \in Sections, NEW key \in ConfigKeys
      PROVE  Cardinality(Assignments(next, section, key)) <= 1
  <2> DEFINE S == Assignments(next, section, key)
  <2>1. S \subseteq 1..Len(next)
    BY DEF Assignments
  <2>2. \A x \in S, i \in 1..Len(doc) : x = f[i] => i \in Assignments(doc, section, key)
    BY AssignsCarried DEF Assignments
  <2>3. \A x, y \in S : x = y
    <3> SUFFICES ASSUME NEW x \in S, NEW y \in S PROVE x = y
      OBVIOUS
    <3>1. CASE Assignments(doc, section, key) = {}
      BY <3>1, <2>2 DEF AssignsNewAt
    <3>2. CASE Assignments(doc, section, key) # {}
      <4>1. PICK i \in 1..Len(doc), j \in 1..Len(doc) : x = f[i] /\ y = f[j]
        BY <3>2 DEF AssignsNewAt
      <4>2. i \in Assignments(doc, section, key) /\ j \in Assignments(doc, section, key)
        BY <4>1, <2>2
      <4>3. i = j
        BY <4>2, OneValue
      <4> QED
        BY <4>1, <4>3
    <3> QED
      BY <3>1, <3>2
  <2> HIDE DEF S
  <2>4. Cardinality(S) <= 1
    BY <1>1, <2>1, <2>3, AtMostOne
  <2> QED
    BY <2>4 DEF S
<1>3. ASSUME NEW x \in 1..Len(next), NEW y \in 1..Len(next), next[x].is = "header",
             next[y].is \in {"header", "dotted"}, x # y
      PROVE  next[x].section # next[y].section \/ (next[y].is = "dotted" /\ Table(next, y) # Root)
  <2>1. PICK i \in 1..Len(doc), j \in 1..Len(doc) : x = f[i] /\ y = f[j]
    BY <1>3 DEF Carries
  <2>2. Alike(doc[i], next[x]) /\ Alike(doc[j], next[y]) /\ i # j
    BY <1>3, <2>1 DEF Carries
  <2>3. Table(next, y) = Table(doc, j)
    BY <2>1, TableCarried
  <2>4. doc[i].section # doc[j].section \/ (doc[j].is = "dotted" /\ Table(doc, j) # Root)
    BY <1>3, <2>2 DEF Parses, Alike
  <2> QED
    BY <1>3, <2>2, <2>3, <2>4 DEF Alike
<1> QED
  BY <1>2, <1>3 DEF Parses, Sections, ConfigKeys

-----------------------------------------------------------------------------
(* What the scan sees where there is no multi-line string.                 *)

LEMMA ScanSees ==
  ASSUME NEW doc, Untexted(doc), NEW i \in 1..Len(doc)
  PROVE  /\ SeenTable(doc, i) = Table(doc, i) /\ Seen(doc[i]) = doc[i]
         /\ \A key : SeemsToAssign(doc, i, key) <=> doc[i].is = "assignment" /\ doc[i].key = key
         /\ SeemsHeader(doc[i]) <=> doc[i].is = "header"
<1>1. \A j \in 1..Len(doc) : Seen(doc[j]) = doc[j]
  BY DEF Untexted, Seen
<1>2. {j \in 1..i : SeemsHeader(doc[j])} = {j \in 1..i : IsHeader(doc[j])}
  <2>1. \A j \in 1..i : j \in 1..Len(doc)
    OBVIOUS
  <2> QED
    BY <1>1, <2>1 DEF SeemsHeader, IsHeader
<1>3. SeenTable(doc, i) = Table(doc, i)
  <2> DEFINE S == {j \in 1..i : SeemsHeader(doc[j])}
             H == {j \in 1..i : IsHeader(doc[j])}
             T(A) == IF A = {} THEN Root
                     ELSE LET line == doc[CHOOSE j \in A : \A m \in A : m <= j]
                          IN  IF line.is = "text" THEN line.of.section ELSE line.section
  <2>1. SeenTable(doc, i) = T(S)
    BY DEF SeenTable, InTable
  <2>2. Table(doc, i) = T(H)
    BY DEF Table, InTable
  <2>3. S = H
    BY <1>2
  <2> HIDE DEF T, S, H
  <2> QED
    BY <2>1, <2>2, <2>3
<1> QED
  BY <1>1, <1>3 DEF SeemsToAssign, SeemsHeader

\* The target is the root, or the profile in use, for which an assignment is found.
LEMMA TargetIs ==
  ASSUME NEW doc \in Documents, Untexted(doc), profile_target(doc) # Root
  PROVE  /\ \E i \in Assignments(doc, Root, "profile") : profile_target(doc) = doc[i].value
         /\ Found(doc) # {}
<1> DEFINE active == {i \in 1..Len(doc) : SeemsToAssign(doc, i, "profile") /\ SeenTable(doc, i) = Root}
           assigning == {j \in 1..Len(doc) :
                           SeemsToAssign(doc, j, "model_provider") /\ Seen(doc[j]).value # Unquoted}
           profile == Seen(doc[Greatest(active)]).value
<1>1. active # {} /\ profile_target(doc) = profile
      /\ \E j \in assigning : SeenTable(doc, j) = profile
  BY DEF profile_target
<1>2. Greatest(active) \in active
  <2>1. Len(doc) \in Nat /\ active \subseteq 1..Len(doc)
    BY DEF Documents
  <2> HIDE DEF active
  <2> QED
    BY <1>1, <2>1, GreatestFacts
<1>3. \E j \in 1..Len(doc) : SeemsToAssign(doc, j, "model_provider") /\ SeenTable(doc, j) = profile
  BY <1>1
<1>4. Found(doc) # {}
  BY <1>1, <1>3 DEF Found
<1> DEFINE i == Greatest(active)
<1>5. i \in 1..Len(doc) /\ SeemsToAssign(doc, i, "profile") /\ SeenTable(doc, i) = Root
  BY <1>2
<1>6. profile_target(doc) = Seen(doc[i]).value
  BY <1>1
<1> HIDE DEF i
<1>7. i \in Assignments(doc, Root, "profile") /\ profile_target(doc) = doc[i].value
  BY <1>5, <1>6, ScanSees DEF Assignments, Assigns
<1> QED
  BY <1>4, <1>7

\* What is found where it is looked for assigns a provider there.
LEMMA FoundAssign ==
  ASSUME NEW doc \in Documents, Untexted(doc), NEW i \in Found(doc)
  PROVE  i \in Assignments(doc, profile_target(doc), "model_provider") /\ doc[i].is = "assignment"
  BY ScanSees DEF Found, Assignments, Assigns

\* What the scan misses is missed of the profile in use.
LEMMA HiddenAssign ==
  ASSUME NEW doc \in Documents, Parses(doc), profile_target(doc) = Root,
         NEW i \in Assignments(doc, Root, "profile")
  PROVE  Hidden(doc) = Assignments(doc, doc[i].value, "model_provider")
<1>1. Given(doc, Root, "profile") /\ Value(doc, Root, "profile") = doc[i].value
  BY OneValue DEF Sections, ConfigKeys
<1> QED
  BY <1>1 DEF Hidden

\* Nothing else assigns a provider to the root.
LEMMA RootFound ==
  ASSUME NEW doc \in Documents, Untexted(doc), profile_target(doc) = Root
  PROVE  Assignments(doc, Root, "model_provider") = Found(doc)
<1>1. \A i \in 1..Len(doc) : doc[i].is = "dotted" => doc[i].section # Root
  BY LineFacts, RootIsNoProfile DEF Documents
<1> QED
  BY <1>1, ScanSees DEF Assignments, Assigns, Found

-----------------------------------------------------------------------------
(* An edit takes effect.                                                   *)

\* Another value where a provider is assigned.
LEMMA RewriteTakesEffect ==
  ASSUME NEW doc \in Documents, Untexted(doc), Parses(doc), NEW p \in Served,
         Rewritten(doc) # {}, NEW next, next = rewriting(doc, p)
  PROVE  next # Unwritable /\ Parses(next) /\ selected(next) = p
<1> DEFINE k == Least(Rewritten(doc))
           f == [i \in 1..Len(doc) |-> i]
<1>1. k \in Rewritten(doc)
  <2>1. Rewritten(doc) \subseteq Nat
    BY RewrittenSelect
  <2> QED
    BY <2>1, LeastFacts
<1>2. next = [doc EXCEPT ![k] = SetValue(@, p)]
  BY RewritingIs
<1> HIDE DEF k
<1>3. k \in 1..Len(doc) /\ doc[k] \in Lines /\ Selects(doc[k]) /\ doc[k].is # "text"
  BY <1>1, RewrittenSelect DEF Untexted
<1>4. /\ next \in Documents /\ Len(next) = Len(doc)
      /\ \A i \in 1..Len(doc) : next[i] = (IF i = k THEN SetValue(doc[k], p) ELSE doc[i])
  <2>1. SetValue(doc[k], p) \in Lines
    BY <1>3, SetValueFacts
  <2> QED
    BY <1>2, <1>3, <2>1 DEF Documents
<1>5. /\ next[k].is = doc[k].is /\ next[k].value = p /\ doc[k].is \in {"assignment", "dotted"}
      /\ doc[k].is = "assignment" => next[k].key = doc[k].key /\ doc[k].key = "model_provider"
      /\ doc[k].is = "dotted" => next[k].section = doc[k].section
  BY <1>3, <1>4, SetValueFacts DEF Selects, Seen
<1>6. Carries(doc, next, f)
  <2>1. Len(doc) \in Nat
    BY DEF Documents
  <2>2. \A i \in 1..Len(doc) : Alike(doc[i], next[i])
    BY <1>4, <1>5 DEF Alike
  <2> QED
    BY <1>4, <2>1, <2>2 DEF Carries
<1>7. \A i \in 1..Len(doc) : \A section, key : Assigns(next, i, section, key) <=> Assigns(doc, i, section, key)
  <2> SUFFICES ASSUME NEW i \in 1..Len(doc), NEW section, NEW key
               PROVE  Assigns(next, i, section, key) <=> Assigns(doc, i, section, key)
    OBVIOUS
  <2>1. f[i] = i
    OBVIOUS
  <2> HIDE DEF f
  <2>2. Assigns(next, f[i], section, key) <=> Assigns(doc, i, section, key)
    BY <1>4, <1>6, AssignsCarried
  <2> QED
    BY <2>1, <2>2
<1>8. \A section, key : Assignments(next, section, key) = Assignments(doc, section, key)
  BY <1>4, <1>7 DEF Assignments
<1>9. Parses(next)
  <2>1. AssignsNewAt(k, next, doc, f)
    BY <1>4 DEF Assignments, AssignsNewAt
  <2> HIDE DEF f
  <2> QED
    BY <1>4, <1>6, <2>1, ParseCarried
<1>10. \A i \in Assignments(doc, Root, "profile") : next[i] = doc[i]
  <2> SUFFICES ASSUME NEW i \in Assignments(doc, Root, "profile") PROVE next[i] = doc[i]
    OBVIOUS
  <2>1. i \in 1..Len(doc) /\ doc[i].is = "assignment" /\ doc[i].key = "profile"
    BY AssignmentFacts
  <2>2. i # k
    BY <2>1, <1>5
  <2> QED
    BY <2>1, <2>2, <1>4
<1>11. ASSUME NEW i \in Assignments(doc, Root, "profile"),
              k \in Assignments(doc, doc[i].value, "model_provider")
       PROVE  selected(next) = p
  BY <1>4, <1>5, <1>8, <1>9, <1>10, <1>11, ProfileSelects
<1>12. ASSUME profile_target(doc) # Root PROVE selected(next) = p
  <2>1. PICK i \in Assignments(doc, Root, "profile") : profile_target(doc) = doc[i].value
    BY <1>12, TargetIs
  <2>2. k \in Found(doc)
    BY <1>1, <1>12 DEF Rewritten, Hidden
  <2>3. k \in Assignments(doc, doc[i].value, "model_provider")
    BY <2>1, <2>2, FoundAssign
  <2> QED
    BY <2>1, <2>3, <1>11
<1>13. ASSUME profile_target(doc) = Root /\ Hidden(doc) # {} PROVE selected(next) = p
  <2>1. Given(doc, Root, "profile")
    BY <1>13 DEF Hidden
  <2>2. PICK i : i \in Assignments(doc, Root, "profile")
    BY <2>1 DEF Given
  <2>3. k \in Assignments(doc, doc[i].value, "model_provider")
    BY <2>2, <1>1, <1>13, HiddenAssign DEF Rewritten
  <2> QED
    BY <2>2, <2>3, <1>11
<1>14. ASSUME profile_target(doc) = Root /\ Hidden(doc) = {} PROVE selected(next) = p
  <2>1. k \in Assignments(next, Root, "model_provider")
    BY <1>1, <1>8, <1>14, FoundAssign DEF Rewritten
  <2>2. \A i \in Assignments(next, Root, "profile") :
          Assignments(next, next[i].value, "model_provider") = {}
    BY <1>8, <1>10, <1>14, HiddenAssign
  <2> QED
    BY <2>1, <2>2, <1>4, <1>5, <1>9, RootSelects
<1>15. next # Unwritable
  <2> SUFFICES ASSUME next = Unwritable PROVE FALSE
    OBVIOUS
  <2>1. Len(next) = 1 /\ next[1].is = "text"
    BY DEF Unwritable, Text
  <2>2. k \in 1..1
    <3>1. Len(doc) = 1
      BY <2>1, <1>4
    <3> QED
      BY <3>1, <1>3
  <2> QED
    BY <2>1, <2>2, <1>3, <1>5
<1> QED
  BY <1>9, <1>12, <1>13, <1>14, <1>15

\* An assignment where none was.
LEMMA InsertTakesEffect ==
  ASSUME NEW doc \in Documents, Untexted(doc), Parses(doc), NEW p \in Served,
         Rewritten(doc) = {}, NEW next, next = rewriting(doc, p)
  PROVE  next # Unwritable /\ Parses(next) /\ selected(next) = p
<1> DEFINE k == Place(doc)
           line == Assign("model_provider", p)
           f == [i \in 1..Len(doc) |-> IF i < k THEN i ELSE i + 1]
<1>1. profile_target(doc) = Root /\ Hidden(doc) = {} /\ Found(doc) = {}
  BY TargetIs DEF Rewritten
<1>2. Len(doc) \in Nat /\ line \in PlainLines
  BY DEF Documents, PlainLines, Served
<1>3. k \in 1..Len(doc) + 1 /\ \A i \in 1..Len(doc) : i < k => doc[i].is # "header"
  <2>1. \A i \in 1..Len(doc) : i \in HeaderLines(doc) <=> doc[i].is = "header"
    BY ScanSees DEF HeaderLines
  <2>2. HeaderLines(doc) \subseteq 1..Len(doc)
    BY DEF HeaderLines
  <2>3. CASE HeaderLines(doc) = {}
    BY <2>1, <2>3, <1>2 DEF Place
  <2>4. CASE HeaderLines(doc) # {}
    <3>1. k \in HeaderLines(doc) /\ \A i \in HeaderLines(doc) : k <= i
      <4>1. HeaderLines(doc) \subseteq Nat
        BY <2>2
      <4> QED
        BY <4>1, <2>4, LeastFacts DEF Place
    <3> QED
      BY <3>1, <2>1, <2>2, <1>2
  <2> QED
    BY <2>3, <2>4
<1>4. next = Inserted(doc, k, line)
  BY <1>1, RewritingIs
<1> HIDE DEF k
<1>5. line.is = "assignment" /\ line.key = "model_provider" /\ line.value = p
  BY DEF Assign
<1> HIDE DEF line
<1>6. /\ next \in Documents /\ Len(next) = Len(doc) + 1
      /\ \A i \in 1..Len(doc) : next[f[i]] = doc[i]
      /\ next[k] = line
  <2>1. /\ next \in Documents /\ Len(next) = Len(doc) + 1
        /\ \A i \in 1..Len(doc) : i < k => next[i] = doc[i]
        /\ \A i \in 1..Len(doc) : ~(i < k) => next[i + 1] = doc[i]
        /\ ~(k <= Len(doc) /\ doc[k].is = "text") => next[k] = line
    <3>1. Lengthened(next, doc, k, line)
      BY <1>2, <1>3, <1>4, InsertedLines
    <3> QED
      BY <3>1 DEF Lengthened
  <2>2. ~(k <= Len(doc) /\ doc[k].is = "text")
    BY <1>2, <1>3 DEF Untexted
  <2> QED
    BY <2>1, <2>2
<1>7. \A x \in 1..Len(next) : x = k \/ \E i \in 1..Len(doc) : x = f[i]
  <2> SUFFICES ASSUME NEW x \in 1..Len(next), x # k PROVE \E i \in 1..Len(doc) : x = f[i]
    OBVIOUS
  <2>1. CASE x < k
    BY <2>1, <1>2, <1>3
  <2>2. CASE ~(x < k)
    <3>1. x - 1 \in 1..Len(doc) /\ ~(x - 1 < k) /\ (x - 1) + 1 = x
      BY <2>2, <1>2, <1>3, <1>6
    <3> QED
      BY <3>1
  <2> QED
    BY <2>1, <2>2
<1>8. Carries(doc, next, f)
  <2>1. f \in [1..Len(doc) -> 1..Len(next)] /\ \A i, j \in 1..Len(doc) : i < j => f[i] < f[j]
    BY <1>2, <1>3, <1>6
  <2>2. \A j \in 1..Len(next) : next[j].is \in {"header", "dotted"} => \E i \in 1..Len(doc) : j = f[i]
    BY <1>5, <1>6, <1>7
  <2>3. \A i \in 1..Len(doc) : Alike(doc[i], next[f[i]])
    BY <1>6 DEF Alike
  <2> QED
    BY <2>1, <2>2, <2>3 DEF Carries
<1>9. k \in 1..Len(next) /\ Table(next, k) = Root
  <2>1. k \in 1..Len(next)
    BY <1>2, <1>3, <1>6
  <2>2. ASSUME NEW j \in 1..k PROVE next[j].is # "header"
    <3>1. CASE j = k
      BY <3>1, <1>5, <1>6
    <3>2. CASE j # k
      <4>1. j \in 1..Len(doc) /\ j < k /\ f[j] = j
        BY <3>2, <1>2, <1>3
      <4> QED
        BY <4>1, <1>3, <1>6
    <3> QED
      BY <3>1, <3>2
  <2>3. Above(next, k) = {}
    BY <2>2 DEF Above
  <2> QED
    BY <2>1, <2>3, <1>6, TableFacts
<1>10. \A section, key : k \in Assignments(next, section, key) <=>
                           section = Root /\ key = "model_provider"
  BY <1>5, <1>6, <1>9 DEF Assignments, Assigns
<1> HIDE DEF f
<1>11. \A i \in 1..Len(doc) : \A section, key :
          f[i] \in Assignments(next, section, key) <=> i \in Assignments(doc, section, key)
  <2> SUFFICES ASSUME NEW i \in 1..Len(doc), NEW section, NEW key
               PROVE  f[i] \in Assignments(next, section, key) <=> i \in Assignments(doc, section, key)
    OBVIOUS
  <2>1. Assigns(next, f[i], section, key) <=> Assigns(doc, i, section, key)
    BY <1>6, <1>8, AssignsCarried
  <2>2. f[i] \in 1..Len(next)
    BY <1>8 DEF Carries
  <2> QED
    BY <2>1, <2>2 DEF Assignments
<1>12. Assignments(doc, Root, "model_provider") = {}
  BY <1>1, RootFound
<1>13. \A section, key : \A x \in Assignments(next, section, key) :
         \/ x # k /\ \E i \in Assignments(doc, section, key) : x = f[i]
         \/ x = k /\ section = Root /\ key = "model_provider"
  <2> SUFFICES ASSUME NEW section, NEW key, NEW x \in Assignments(next, section, key), x # k
               PROVE  \E i \in Assignments(doc, section, key) : x = f[i]
    BY <1>10
  <2>1. x \in 1..Len(next)
    BY DEF Assignments
  <2>2. PICK i \in 1..Len(doc) : x = f[i]
    BY <2>1, <1>7
  <2> QED
    BY <2>2, <1>11
<1>14. Parses(next)
  <2>1. AssignsNewAt(k, next, doc, f)
    BY <1>12, <1>13, AssignmentFacts DEF AssignsNewAt
  <2> QED
    BY <2>1, <1>6, <1>8, ParseCarried
<1>15. selected(next) = p
  <2>1. k \in Assignments(next, Root, "model_provider")
    BY <1>10
  <2>2. ASSUME NEW x \in Assignments(next, Root, "profile")
        PROVE  Assignments(next, next[x].value, "model_provider") = {}
    <3>1. PICK i \in Assignments(doc, Root, "profile") : x = f[i]
      BY <1>13
    <3>2. i \in 1..Len(doc) /\ doc[i].value \in Profiles
      BY <3>1, AssignmentFacts, ProfileNamed
    <3>3. next[x] = doc[i]
      BY <3>1, <3>2, <1>6
    <3>4. Assignments(doc, doc[i].value, "model_provider") = {}
      BY <3>1, <1>1, HiddenAssign
    <3>5. doc[i].value # Root
      BY <3>2, RootIsNoProfile
    <3> QED
      BY <3>3, <3>4, <3>5, <1>13
  <2> QED
    BY <2>1, <2>2, <1>5, <1>6, <1>14, RootSelects
<1>16. next # Unwritable
  <2> SUFFICES ASSUME next = Unwritable PROVE FALSE
    OBVIOUS
  <2>1. Len(next) = 1 /\ next[1].is = "text"
    BY DEF Unwritable, Text
  <2>2. k = 1
    BY <2>1, <1>9
  <2> QED
    BY <2>1, <2>2, <1>5, <1>6
<1> QED
  BY <1>14, <1>15, <1>16

-----------------------------------------------------------------------------
(* What any edit leaves, and the specification.                            *)

\* An edit that is written is a document, in which one assignment is another or new.
LEMMA EditedIs ==
  ASSUME NEW doc \in Documents, NEW p \in Served, rewriting(doc, p) # Unwritable
  PROVE  /\ rewriting(doc, p) \in Documents /\ Len(rewriting(doc, p)) \in Len(doc)..Len(doc) + 1
         /\ Changed(doc, rewriting(doc, p))
<1> DEFINE next == rewriting(doc, p)
           k == Least(Rewritten(doc))
<1>1. Len(doc) \in Nat
  BY DEF Documents
<1>2. CASE Rewritten(doc) # {}
  <2>1. k \in Rewritten(doc)
    <3>1. Rewritten(doc) \subseteq Nat
      BY RewrittenSelect
    <3> QED
      BY <3>1, <1>2, LeastFacts
  <2>2. next = [doc EXCEPT ![k] = SetValue(@, p)]
    BY <1>2, RewritingIs
  <2> HIDE DEF k, next
  <2>3. k \in 1..Len(doc) /\ SetValue(doc[k], p) \in Lines
    BY <2>1, RewrittenSelect, SetValueFacts
  <2>4. /\ next \in Documents /\ Len(next) = Len(doc)
        /\ \A i \in 1..Len(doc) : i # k => next[i] = doc[i]
    BY <2>2, <2>3 DEF Documents
  <2> DEFINE S == {i \in 1..Len(doc) : next[i] # doc[i]}
  <2>5. S \subseteq 1..Len(doc) /\ \A i, j \in S : i = j
    BY <2>4
  <2> HIDE DEF S
  <2>6. Cardinality(S) <= 1
    BY <2>5, <1>1, AtMostOne
  <2>7. Changed(doc, next)
    BY <2>4, <2>6 DEF Changed, S
  <2> QED
    BY <2>4, <2>7, <1>1 DEF next
<1>3. CASE Rewritten(doc) = {}
  <2> DEFINE m == Place(doc)
             line == Assign("model_provider", p)
  <2>1. next = Inserted(doc, m, line)
    BY <1>3, RewritingIs
  <2>2. m \in 1..Len(doc) + 1
    <3>1. HeaderLines(doc) \subseteq 1..Len(doc) /\ HeaderLines(doc) \subseteq Nat
      BY DEF HeaderLines
    <3>2. HeaderLines(doc) # {} => Least(HeaderLines(doc)) \in HeaderLines(doc)
      BY <3>1, LeastFacts
    <3> QED
      BY <3>1, <3>2, <1>1 DEF Place
  <2>3. line \in PlainLines
    BY DEF PlainLines, Served
  <2> HIDE DEF next, m, line
  <2>4. /\ next \in Documents /\ Len(next) = Len(doc) + 1
        /\ doc = SubSeq(next, 1, m - 1) \o SubSeq(next, m + 1, Len(next))
    <3>1. Lengthened(next, doc, m, line)
      BY <2>1, <2>2, <2>3, InsertedLines
    <3> QED
      BY <3>1 DEF Lengthened
  <2>5. m \in 1..Len(next)
    BY <2>2, <2>4
  <2>6. Changed(doc, next)
    BY <2>4, <2>5 DEF Changed
  <2> QED
    BY <2>4, <2>6, <1>1 DEF next
<1> QED
  BY <1>2, <1>3

ConfigInv == ConfigTypeOK /\ Len(config) <= MaxLines + switches
\* What a switch promises, as a step.
TakesEffect ==
  switches' # switches =>
    IF asked'.refused
    THEN /\ config' = config
         /\ ~Parses(config) \/ \E i \in 1..Len(config) : config[i].is = "text"
    ELSE /\ Parses(config') /\ selected(config') = asked'.provider
         /\ Changed(config, config')

LEMMA ConfigInitOk == ConfigInit => ConfigInv
<1> SUFFICES ASSUME ConfigInit PROVE ConfigInv
  OBVIOUS
<1>1. PICK n \in 0..MaxLines : config \in [1..n -> Lines]
  BY DEF ConfigInit
<1>2. config \in Seq(Lines) /\ Len(config) = n
  BY <1>1, ConfigBounds
<1> QED
  BY <1>2, ConfigBounds DEF ConfigInit, ConfigInv, ConfigTypeOK

LEMMA ConfigStep == ConfigInv /\ [ConfigNext]_configVars => ConfigInv' /\ TakesEffect
<1> SUFFICES ASSUME ConfigInv, [ConfigNext]_configVars PROVE ConfigInv' /\ TakesEffect
  OBVIOUS
<1>1. CASE UNCHANGED configVars
  BY <1>1 DEF configVars, ConfigInv, ConfigTypeOK, TakesEffect
<1>2. ASSUME NEW p \in Served, switch(p) PROVE ConfigInv' /\ TakesEffect
  <2> DEFINE next == rewriting(config, p)
  <2>1. /\ config \in Documents /\ Len(config) \in Nat /\ Len(config) <= MaxLines + switches
        /\ switches \in Nat /\ MaxLines \in Nat /\ MaxSwitches \in Nat
    BY ConfigBounds DEF ConfigInv, ConfigTypeOK, Documents
  <2>2. /\ switches < MaxSwitches /\ switches' = switches + 1
        /\ asked' = [provider |-> p, refused |-> Unwritten(next, p)]
        /\ config' = IF Unwritten(next, p) THEN config ELSE next
    BY <1>2 DEF switch
  <2>3. next # Unwritable => next \in Documents /\ Len(next) \in Len(config)..Len(config) + 1
                             /\ Changed(config, next)
    BY <2>1, EditedIs
  <2>4. ~Unwritten(next, p) => next # Unwritable /\ Parses(next) /\ selected(next) = p
    BY DEF Unwritten
  <2>5. Unwritten(next, p) => ~Parses(config) \/ \E i \in 1..Len(config) : config[i].is = "text"
    <3> SUFFICES ASSUME Parses(config), Untexted(config) PROVE ~Unwritten(next, p)
      BY DEF Untexted
    <3>1. next # Unwritable /\ Parses(next) /\ selected(next) = p
      BY <2>1, RewriteTakesEffect, InsertTakesEffect
    <3> QED
      BY <3>1 DEF Unwritten
  <2>6. Unwritten(next, p) \in BOOLEAN
    BY DEF Unwritten
  <2> HIDE DEF next
  <2>7. config' \in Documents /\ Len(config') \in Nat /\ Len(config') <= Len(config) + 1
    BY <2>1, <2>2, <2>3, <2>4
  <2>8. ConfigInv'
    BY <2>1, <2>2, <2>6, <2>7 DEF ConfigInv, ConfigTypeOK, Documents, Served
  <2>9. TakesEffect
    BY <2>2, <2>3, <2>4, <2>5 DEF TakesEffect
  <2> QED
    BY <2>8, <2>9
<1> QED
  BY <1>1, <1>2 DEF ConfigNext, Served

\* However the user's file is written, and whatever switches came before: a switch makes
\* its provider the one Codex selects and changes one assignment, or the file stays; and
\* it is refused only if TOML refuses the file or a multi-line string may mislead the
\* scan (switch_provider, write_selected_provider).
THEOREM SwitchesTakeEffect == ConfigSpec => []ConfigTypeOK /\ SwitchTakesEffect
<1>1. ConfigInv => ConfigTypeOK
  BY DEF ConfigInv
<1>2. [][TakesEffect]_configVars => SwitchTakesEffect
  BY DEF SwitchTakesEffect, TakesEffect
<1> QED
  BY <1>1, <1>2, ConfigInitOk, ConfigStep, PTL DEF ConfigSpec
=============================================================================
