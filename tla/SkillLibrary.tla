----------------------------- MODULE SkillLibrary -----------------------------
(***************************************************************************)
(* The skills: SKILL.md files (skills/loader.py), the registry filled from *)
(* them at import (skills/__init__.py) and the choice of what a question   *)
(* gets to see (skills/selector.py).  The library of definitions follows   *)
(* the files by their times; the registry keeps what it was given.         *)
(***************************************************************************)
EXTENDS Integers, Sequences, FiniteSetsExt

CONSTANTS
  Paths,     \* the SKILL.md files, in the order of their sorted paths
  Skills,    \* names of skills, numbered in their alphabetical order
  Guides,    \* those of kind instruction, which have no handler
  Off,       \* names SKILL_ENABLED turns off
  Floor,     \* _GROUP_FLOOR["analysis"]
  Standard,  \* per group, the tools _llm_decide_node names when the group is empty
  LastTime,  \* bound: file times
  MaxEdits,  \* bound: changes on the disk
  TopN       \* SKILL_SELECT_TOP_N

ASSUME SkillAssumption ==
  /\ Paths \subseteq Nat /\ Skills \subseteq Nat /\ Guides \subseteq Skills /\ Off \subseteq Skills
  /\ Standard \in [{"analysis", "shopping"} -> SUBSET Skills]
  /\ Floor \in Seq(Skills) /\ LastTime \in Nat /\ MaxEdits \in Nat /\ TopN \in Nat

Groups == {"analysis", "shopping"}

VARIABLES
  files,      \* what the disk holds
  edits,      \* changes so far
  time,
  library,    \* _definitions: by name
  scannedAt,  \* _scanned_at
  loading,    \* where load_all_definitions is: no, stat (the times are read), ready
  newestFile, \* the newest time it saw
  registry,   \* group by name of the registered tools
  imported,   \* the library the registry was filled from
  selection,  \* what the last question got
  hidden      \* history: a change the times do not show, since the last scan

skillVars == <<files, edits, time, library, scannedAt, loading, newestFile, registry, imported, selection, hidden>>

Absent    == [ok |-> FALSE, mtime |-> 0]
Unloaded  == <<>>
NoChoice  == [group |-> "none", bound |-> {}, disclosed |-> {}]
Skill(c, t) == [ok |-> TRUE, mtime |-> t, content |-> c]
Contents  == [name : Skills, group : Groups, enabled : BOOLEAN]

-----------------------------------------------------------------------------
(* load_all_definitions.                                                    *)

\* _scan_dir: what cannot be parsed is left out, of two files with one name the last wins.
Scan ==
  LET good(n) == {p \in Paths : files[p].ok /\ files[p].content.name = n}
  IN  [n \in {m \in Skills : good(m) # {}} |-> files[Max(good(n))].content]

\* Mutant: only the first file is asked for its time.
NewestOfFirst == files[Min(Paths)].mtime
Newest == Max({files[p].mtime : p \in Paths})

\* The first load, and a forced one, begin with a scan that is not dated.
Stat(force) ==
  /\ loading = "no"
  /\ IF library = Unloaded \/ force
     THEN library' = Scan /\ scannedAt' = 0
     ELSE UNCHANGED <<library, scannedAt>>
  /\ hidden' = (hidden /\ library # Unloaded /\ ~force)
  /\ newestFile' = Newest
  /\ loading' = "stat"
  /\ selection' = NoChoice
  /\ UNCHANGED <<files, edits, time, registry, imported>>

\* A time newer than the last scan's: everything is read again, after the times were.
Rescan ==
  /\ loading = "stat"
  /\ IF newestFile > scannedAt
     THEN library' = Scan /\ scannedAt' = newestFile /\ hidden' = FALSE
     ELSE UNCHANGED <<library, scannedAt, hidden>>
  /\ loading' = "ready"
  /\ newestFile' = 0
  /\ UNCHANGED <<files, edits, time, registry, imported, selection>>

-----------------------------------------------------------------------------
(* The registry and the selection.                                          *)

Tools(lib) == DOMAIN lib \ Guides

\* register_from_definitions, at import: every tool whose handler loads, enabled or not.
Register ==
  /\ loading = "ready" /\ imported = Unloaded
  /\ \E failed \in SUBSET Tools(library) :
       registry' = [n \in Tools(library) \ failed |-> library[n].group]
  /\ imported' = library
  /\ loading' = "no"
  /\ UNCHANGED <<files, edits, time, library, scannedAt, newestFile, selection, hidden>>

\* The first TopN: hits by score and name, the floor in its order, a group by name.
BestHits(scores) ==
  LET before(a, b) == scores[a] > scores[b] \/ (scores[a] = scores[b] /\ a < b)
  IN  {n \in DOMAIN scores : Cardinality({m \in DOMAIN scores : before(m, n)}) < TopN}
FirstOfFloor(names) ==
  LET places == {i \in 1..Len(Floor) : Floor[i] \in names}
  IN  {Floor[i] : i \in {j \in places : Cardinality({k \in places : k < j}) < TopN}}
FirstByName(names) == {n \in names : Cardinality({m \in names : m < n}) < TopN}

\* Mutant: skills of every scene are scored.
CandidatesOfAll(group) == {n \in DOMAIN library : library[n].enabled}
Candidates(group) == {n \in DOMAIN library : library[n].group = group /\ library[n].enabled}

\* get_enabled_by_group, and what the model is given: of an empty group the standard
\* tools, if they are registered (under another group) and not turned off.
InGroup(group) == {n \in DOMAIN registry : registry[n] = group} \ Off
Bound(group) ==
  IF InGroup(group) # {} THEN InGroup(group) ELSE (DOMAIN registry \ Off) \cap Standard[group]

\* The best hits; without one the floor, as far as it is bound, or the whole group.
\* disclosure_block leaves out a name that has no definition.
Disclosed(group, scores) ==
  DOMAIN library \cap
    (IF DOMAIN scores # {} THEN BestHits(scores)
     ELSE IF group = "analysis" THEN FirstOfFloor(InGroup(group))
     ELSE FirstByName(InGroup(group)))

\* select_skills for a question of the scene; the words of the question decide the scores.
Select(group) ==
  /\ loading = "ready" /\ imported # Unloaded
  /\ \E hits \in SUBSET Candidates(group) : \E scores \in [hits -> 1..2] :
       selection' = [group |-> group, bound |-> Bound(group), disclosed |-> Disclosed(group, scores)]
  /\ loading' = "no"
  /\ UNCHANGED <<files, edits, time, library, scannedAt, newestFile, registry, imported, hidden>>

-----------------------------------------------------------------------------
(* The disk.                                                                *)

SkillInit ==
  /\ files \in [Paths -> {Absent} \cup {Skill(c, 1) : c \in Contents}]
  /\ edits = 0
  /\ time = 1
  /\ library = Unloaded
  /\ scannedAt = 0
  /\ loading = "no"
  /\ newestFile = 0
  /\ registry = <<>>
  /\ imported = Unloaded
  /\ selection = NoChoice
  /\ hidden = FALSE

Changed(p, file) ==
  /\ edits < MaxEdits
  /\ edits' = edits + 1
  /\ files' = [files EXCEPT ![p] = file]
  /\ hidden' = (hidden \/ file.mtime <= scannedAt)
  /\ UNCHANGED <<time, library, scannedAt, loading, newestFile, registry, imported, selection>>

\* A file is written now, or put there with the time it had elsewhere.
Edit(p) == \E c \in Contents, t \in 1..time : Changed(p, Skill(c, t))
Break(p) == files[p].ok /\ Changed(p, [ok |-> FALSE, mtime |-> time])
Delete(p) == files[p] # Absent /\ Changed(p, Absent)

TimePasses ==
  /\ time < LastTime
  /\ time' = time + 1
  /\ UNCHANGED <<files, edits, library, scannedAt, loading, newestFile, registry, imported, selection, hidden>>

SkillNext ==
  \/ \E force \in BOOLEAN : Stat(force)
  \/ Rescan \/ Register \/ TimePasses
  \/ \E g \in Groups : Select(g)
  \/ \E p \in Paths : Edit(p) \/ Break(p) \/ Delete(p)

SkillSpec == SkillInit /\ [][SkillNext]_skillVars

-----------------------------------------------------------------------------
\* "Definition changes take effect at once" (skills/loader.py:25): between loads the
\* library is what the disk holds, or the times show the next load that it is not,
\* also for a file written while the library was read.  Named exception: a change
\* without a newer time, that is a deleted file or one that was put there with its
\* old time, stays unseen.
LibraryCatchesUp ==
  loading # "stat" /\ library # Unloaded /\ ~hidden =>
    library = Scan \/ Newest > scannedAt

\* The instructions a question gets to see never send the model to a tool that it
\* was not given, as long as the definitions are the ones the tools were registered
\* from.  Named exceptions: a tool turned off in the settings, or whose handler failed,
\* is still disclosed.
DisclosedBound ==
  library = imported =>
    selection.disclosed \ Guides \subseteq
      selection.bound \cup Off \cup (Tools(imported) \ DOMAIN registry)
=============================================================================
