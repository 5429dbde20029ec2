----------------------------- MODULE SkillCache -----------------------------
(***************************************************************************)
(* The cache of middlewares/skill_loading_middleware.py: the skills found  *)
(* in a directory that other processes change, and a fingerprint of the    *)
(* directory by which a refresh decides whether to read it again.          *)
(*                                                                         *)
(* The fingerprint holds the name and the modification time of each skill  *)
(* directory.  Creating or removing SKILL.md changes that time, writing    *)
(* into the file does not.  A directory is created and removed, not moved  *)
(* away and back, which would restore its time; and any two changes have   *)
(* different times.                                                        *)
(***************************************************************************)
EXTENDS Integers, FiniteSets, Functions

CONSTANTS
    Skill,        \* names of skills, and of their directories
    Allowed,      \* the directories _scan_skills considers
    NoSkill,      \* there is no SKILL.md
    Unreadable    \* there is one, and reading it raises

\* What SKILL.md is from one change to the next.  Its name is the one in the
\* frontmatter, or the directory's as long as there is none (the text is not there yet).
Versions == [written : Nat, name : Skill]

ASSUME SkillAssumption ==
    /\ Allowed \subseteq Skill
    /\ NoSkill \notin Versions /\ Unreadable \notin Versions /\ NoSkill # Unreadable

VARIABLES
    dir,      \* the directories there are: time of the last change, and SKILL.md
    clock,    \* the file system's time
    cache,    \* _skill_cache: by name, a directory and what its SKILL.md was
    print,    \* _cache_dir_hash
    scan,     \* a refresh under way
    loaded    \* not in the code: what was read to fill the cache, by directory

skillVars == <<dir, clock, cache, print, scan, loaded>>

\* at: "stat", the fingerprint is taken; "load", the directories are read.
NoScan == [at |-> "none", print |-> <<>>, left |-> {}, found |-> <<>>, loaded |-> <<>>]

SkillInit ==
    /\ dir = <<>> /\ clock = 0
    /\ cache = <<>> /\ print = <<>> /\ loaded = <<>>
    /\ scan = NoScan

\* The middleware of a new process has read nothing.
EmptyCache ==
    /\ cache' = <<>> /\ print' = <<>> /\ loaded' = <<>>
    /\ scan' = NoScan
    /\ UNCHANGED <<dir, clock>>

Entry(time, file) == [time |-> time, file |-> file]

Version(time, name) == [written |-> time, name |-> name]

Put(f, x, y) == [z \in DOMAIN f \cup {x} |-> IF z = x THEN y ELSE f[z]]

-----------------------------------------------------------------------------
(* Other processes change the directory. *)

Unread == UNCHANGED <<cache, print, scan, loaded>>

MakeDirectory(s) ==
    /\ s \notin DOMAIN dir
    /\ clock' = clock + 1
    /\ dir' = Put(dir, s, Entry(clock', NoSkill))
    /\ Unread

OpenSkillFile(s) ==
    /\ s \in DOMAIN dir /\ dir[s].file = NoSkill
    /\ clock' = clock + 1
    /\ dir' = [dir EXCEPT ![s] = Entry(clock', Version(clock', s))]
    /\ Unread

\* The text is written into the file that is there: the directory's time stays.
WriteSkillFile(s) ==
    /\ s \in DOMAIN dir /\ dir[s].file # NoSkill
    /\ clock' = clock + 1
    /\ \E name \in Skill : dir' = [dir EXCEPT ![s].file = Version(clock', name)]
    /\ Unread

RemoveSkillFile(s) ==
    /\ s \in DOMAIN dir /\ dir[s].file # NoSkill
    /\ clock' = clock + 1
    /\ dir' = [dir EXCEPT ![s] = Entry(clock', NoSkill)]
    /\ Unread

RemoveDirectory(s) ==
    /\ s \in DOMAIN dir
    /\ clock' = clock + 1
    /\ dir' = Restrict(dir, DOMAIN dir \ {s})
    /\ Unread

EditDirectory ==
    \E s \in Skill : \/ MakeDirectory(s) \/ OpenSkillFile(s) \/ WriteSkillFile(s)
                     \/ RemoveSkillFile(s) \/ RemoveDirectory(s)

-----------------------------------------------------------------------------
(* _refresh_cache_if_needed, interrupted by the changes above *)

Scanning(record) ==
    /\ scan' = record
    /\ UNCHANGED <<dir, clock, cache, print, loaded>>

\* _compute_dir_hash lists the directory ...
BeginRefresh ==
    /\ scan.at = "none"
    /\ Scanning([NoScan EXCEPT !.at = "stat", !.left = DOMAIN dir])

\* ... and asks for the time of each entry, which is 0 when it has gone.
StatEntry(s) ==
    /\ scan.at = "stat" /\ s \in scan.left
    /\ Scanning([scan EXCEPT !.left = @ \ {s},
                   !.print = Put(@, s, IF s \in DOMAIN dir THEN dir[s].time ELSE 0)])

\* An entry that goes between exists() and stat() makes the refresh raise.
StatRaises(s) ==
    /\ scan.at = "stat" /\ s \in scan.left \ DOMAIN dir
    /\ Scanning(NoScan)

\* Nothing has changed.
KeepCache ==
    /\ scan.at = "stat" /\ scan.left = {} /\ scan.print = print
    /\ Scanning(NoScan)

\* _scan_skills lists the directory again.
BeginScan ==
    /\ scan.at = "stat" /\ scan.left = {} /\ scan.print # print
    /\ Scanning([scan EXCEPT !.at = "load", !.left = DOMAIN dir \cap Allowed])

\* What _load_skill comes upon in a directory, which may have gone.
Readings(s) ==
    IF s \in DOMAIN dir /\ dir[s].file # NoSkill THEN {dir[s].file, Unreadable} ELSE {NoSkill}

\* A skill goes by its name: the directory read last has it.  The order is the one in
\* which the file system lists.
LoadSkill(s) ==
    /\ scan.at = "load" /\ s \in scan.left
    /\ \E file \in Readings(s) :
          Scanning([scan EXCEPT !.left = @ \ {s},
                      !.loaded = Put(@, s, file),
                      !.found = IF file \in {NoSkill, Unreadable} THEN @
                                ELSE Put(@, file.name, [of |-> s, file |-> file])])

Fingerprint == [s \in DOMAIN dir |-> dir[s].time]

\* Slip: the fingerprint that is kept is taken after the directory was read.
PrintAfterScan == Fingerprint

\* The fingerprint that is kept with what was read.
PrintOfScan == scan.print

EndRefresh ==
    /\ scan.at = "load" /\ scan.left = {}
    /\ cache' = scan.found /\ loaded' = scan.loaded
    /\ print' = PrintOfScan
    /\ scan' = NoScan
    /\ UNCHANGED <<dir, clock>>

\* clear_cache
ClearCache ==
    /\ scan.at = "none"
    /\ EmptyCache

Refresh ==
    \/ BeginRefresh \/ KeepCache \/ BeginScan \/ EndRefresh \/ ClearCache
    \/ \E s \in Skill : StatEntry(s) \/ StatRaises(s) \/ LoadSkill(s)

-----------------------------------------------------------------------------
\* What was read in a directory is what is there, or was written over in place since,
\* which no refresh notices.
UpToDate(file, s) ==
    /\ dir[s].file # NoSkill
    /\ file # dir[s].file => dir[s].time < dir[s].file.written

\* Skills can be added and removed without a restart.  When a refresh finds the
\* fingerprint it has kept, however the directory changed while it was taken and while
\* the skills were read:
\*  - each skill there is was read as it is, and its name is in the cache, unless its
\*    SKILL.md could not be read, which is not tried again;
\*  - each skill in the cache is there, may be loaded and was read as it is.  (A name may
\*    also stand for a directory that is not there: one made after the fingerprint was
\*    begun, read, and removed again.  It leaves no trace in a fingerprint.)
CacheFollowsDirectory ==
    scan.at = "none" /\ print = Fingerprint =>
        /\ \A s \in DOMAIN dir \cap Allowed : dir[s].file # NoSkill =>
              /\ s \in DOMAIN loaded /\ loaded[s] # NoSkill
              /\ loaded[s] # Unreadable =>
                    UpToDate(loaded[s], s) /\ loaded[s].name \in DOMAIN cache
        /\ \A name \in DOMAIN cache : cache[name].of \in DOMAIN dir =>
              /\ cache[name].of \in Allowed
              /\ UpToDate(cache[name].file, cache[name].of)
              /\ cache[name].file.name = name
=============================================================================
