------------------------------ MODULE CodexConfig ------------------------------
(***************************************************************************)
(* Codex's config.toml and the one value Copool edits in it, the provider  *)
(* in effect (codex_config.rs).  The edit finds the line to rewrite with a *)
(* scan of its own, which does not see every form TOML allows and sees     *)
(* assignments in the text of multi-line strings; what Codex would select  *)
(* is then read back before the file is replaced.                          *)
(*                                                                         *)
(* A document is a sequence of lines: headers of tables, assignments, an   *)
(* assignment written with a dotted key or an inline table, and lines of a *)
(* multi-line string that look like one of these.                          *)
(***************************************************************************)
EXTENDS Naturals, Sequences, FiniteSets

CONSTANTS
  Profiles, Providers,
  MaxLines,     \* bound: lines of the user's document
  MaxSwitches   \* bound: switches

ASSUME ConfigBounds == MaxLines \in Nat /\ MaxSwitches \in Nat

VARIABLES
  config,       \* config.toml
  asked,        \* the provider last asked for, and whether it was refused
  switches

configVars == <<config, asked, switches>>

Root == "root"         \* no header: None in the code, and no profile's name
ASSUME RootIsNoProfile == Root \notin Profiles
Unquoted == "empty"    \* an assignment of the empty string
Official == "openai"
Header(section) == [is |-> "header", section |-> section]
Assign(key, value) == [is |-> "assignment", key |-> key, value |-> value]
Dotted(profile, value) == [is |-> "dotted", section |-> profile, value |-> value]
Text(line) == [is |-> "text", of |-> line]

Headers == {Header(s) : s \in Profiles \cup {"other"}}
PlainLines ==
  Headers \cup {Assign("profile", p) : p \in Profiles}
  \cup {Assign("model_provider", v) : v \in Providers \cup {Official, Unquoted}}
Lines == PlainLines \cup {Dotted(p, v) : p \in Profiles, v \in Providers \cup {Official}}
         \cup {Text(l) : l \in PlainLines}

-----------------------------------------------------------------------------
(* What TOML, and so Codex, reads.                                         *)

\* The table a line is in: that of the last header before it among `headers`.
InTable(doc, i, headers(_)) ==
  LET above == {j \in 1..i : headers(doc[j])}
  IN  IF above = {} THEN Root
      ELSE LET line == doc[CHOOSE j \in above : \A k \in above : k <= j]
           IN  IF line.is = "text" THEN line.of.section ELSE line.section

IsHeader(line) == line.is = "header"
Table(doc, i) == InTable(doc, i, IsHeader)
Assigns(doc, i, section, key) ==
  \/ doc[i].is = "assignment" /\ doc[i].key = key /\ Table(doc, i) = section
  \/ doc[i].is = "dotted" /\ key = "model_provider" /\ Table(doc, i) = Root
     /\ doc[i].section = section
Assignments(doc, section, key) == {i \in 1..Len(doc) : Assigns(doc, i, section, key)}

\* Nothing is given twice, and a table written with dotted keys has no header.
Parses(doc) ==
  /\ \A s \in Profiles \cup {Root, "other"}, key \in {"profile", "model_provider"} :
       Cardinality(Assignments(doc, s, key)) <= 1
  /\ \A i, j \in 1..Len(doc) :
       doc[i].is = "header" /\ doc[j].is \in {"header", "dotted"} /\ i # j =>
         doc[i].section # doc[j].section \/ (doc[j].is = "dotted" /\ Table(doc, j) # Root)

Value(doc, section, key) == doc[CHOOSE i \in Assignments(doc, section, key) : TRUE].value
Given(doc, section, key) == Assignments(doc, section, key) # {}

selected(doc) ==
  IF Given(doc, Root, "profile")
     /\ Given(doc, Value(doc, Root, "profile"), "model_provider")
  THEN Value(doc, Value(doc, Root, "profile"), "model_provider")
  ELSE IF Given(doc, Root, "model_provider") THEN Value(doc, Root, "model_provider")
  ELSE Official

-----------------------------------------------------------------------------
(* What the line scan sees.                                                *)

Seen(line) == IF line.is = "text" THEN line.of ELSE line
SeemsHeader(line) == Seen(line).is = "header"
SeenTable(doc, i) == InTable(doc, i, SeemsHeader)
SeemsToAssign(doc, i, key) == Seen(doc[i]).is = "assignment" /\ Seen(doc[i]).key = key
Least(S) == CHOOSE i \in S : \A j \in S : i <= j
Greatest(S) == CHOOSE i \in S : \A j \in S : j <= i

\* The active profile, when the scan finds its assignment; else the root.
profile_target(doc) ==
  LET active == {i \in 1..Len(doc) : SeemsToAssign(doc, i, "profile") /\ SeenTable(doc, i) = Root}
      assigned == {SeenTable(doc, i) : i \in {j \in 1..Len(doc) :
                     SeemsToAssign(doc, j, "model_provider") /\ Seen(doc[j]).value # Unquoted}}
      profile == Seen(doc[Greatest(active)]).value
  IN  IF active # {} /\ profile \in assigned THEN profile ELSE Root

SetValue(line, provider) ==
  IF line.is = "text" THEN [line EXCEPT !.of.value = provider]
  ELSE [line EXCEPT !.value = provider]
\* A line put before a line of a string is in the string as well.
Inserted(doc, i, line) ==
  SubSeq(doc, 1, i - 1)
  \o <<IF i <= Len(doc) /\ doc[i].is = "text" THEN Text(line) ELSE line>>
  \o SubSeq(doc, i, Len(doc))

Unwritable == <<Text(Header("other"))>>   \* no document: the edit is refused
rewriting(doc, provider) ==
  LET target == profile_target(doc)
      hidden == IF target = Root /\ Given(doc, Root, "profile")
                THEN Assignments(doc, Value(doc, Root, "profile"), "model_provider") ELSE {}
      found == {i \in 1..Len(doc) : SeemsToAssign(doc, i, "model_provider")
                                      /\ SeenTable(doc, i) = target}
      headers == {i \in 1..Len(doc) : SeemsHeader(doc[i])}
      rewritten == IF hidden # {} THEN hidden ELSE found
  IN  IF ~Parses(doc) THEN Unwritable
      ELSE IF rewritten # {}
      THEN [doc EXCEPT ![Least(rewritten)] = SetValue(@, provider)]
      ELSE IF target # Root THEN Unwritable
      ELSE Inserted(doc, IF headers = {} THEN Len(doc) + 1 ELSE Least(headers),
                    Assign("model_provider", provider))

\* The edited document, if Codex selects the provider in it.
UnreadBack(doc, provider) == doc = Unwritable   \* variant: not read back
Unwritten(doc, provider) == doc = Unwritable \/ ~Parses(doc) \/ selected(doc) # provider

switch(provider) ==
  LET next == rewriting(config, provider)
  IN  /\ switches < MaxSwitches /\ switches' = switches + 1
      /\ asked' = [provider |-> provider, refused |-> Unwritten(next, provider)]
      /\ config' = IF Unwritten(next, provider) THEN config ELSE next

-----------------------------------------------------------------------------
ConfigInit ==
  /\ config \in UNION {[1..n -> Lines] : n \in 0..MaxLines}
  /\ asked = [provider |-> Official, refused |-> FALSE]
  /\ switches = 0

ConfigNext == \E provider \in Providers \cup {Official} : switch(provider)
ConfigSpec == ConfigInit /\ [][ConfigNext]_configVars

ConfigTypeOK ==
  /\ config \in Seq(Lines) /\ Len(config) <= MaxLines + MaxSwitches
  /\ asked \in [provider : Providers \cup {Official}, refused : BOOLEAN]
  /\ switches \in 0..MaxSwitches

-----------------------------------------------------------------------------
(* What is promised.                                                       *)

\* Whichever way the user's file is written, a switch makes the provider the one
\* Codex selects, and changes nothing but one assignment of a provider; or it is
\* refused and the file stays as it was. Of the files of these lines, one with no
\* multi-line string is refused only when TOML itself refuses it. (The code also refuses
\* files with a value over several lines of which one begins with "[", as a nested array
\* does: no such line is in Lines.)
Changed(doc, next) ==
  \/ /\ Len(next) = Len(doc)
     /\ Cardinality({i \in 1..Len(doc) : next[i] # doc[i]}) <= 1
  \/ /\ Len(next) = Len(doc) + 1
     /\ \E i \in 1..Len(next) :
          doc = SubSeq(next, 1, i - 1) \o SubSeq(next, i + 1, Len(next))
SwitchTakesEffect ==
  [][switches' # switches =>
       IF asked'.refused
       THEN /\ config' = config
            /\ ~Parses(config) \/ \E i \in 1..Len(config) : config[i].is = "text"
       ELSE /\ Parses(config') /\ selected(config') = asked'.provider
            /\ Changed(config, config')]_configVars
=============================================================================
