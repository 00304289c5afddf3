------------------------------- MODULE Panel --------------------------------
(***************************************************************************)
(* What the server keeps on disk about itself: the themes directory, the   *)
(* binary it runs and the theme settings.  Themes are installed (themes.rs *)
(* install_zip, called by two handlers of admin.rs), activated and deleted *)
(* (admin.rs), served (main.rs current_theme_dir), and replaced as a whole *)
(* together with the binary by an online update (updates.rs                *)
(* apply_server_update and apply_server_replace_cross_device).             *)
(*                                                                         *)
(* Nothing keeps two of these jobs apart: each call that changes the file  *)
(* system is an action, each may fail, and the process may end at any      *)
(* point.  A theme directory is removed file by file, and nobody looks at  *)
(* an error of it.  Installs of different ids touch different directories, *)
(* so one id besides the built-in "default" is enough.                     *)
(***************************************************************************)
EXTENDS Integers

CONSTANTS
    Jobs,       \* requests to the admin API, each made once
    Packages,   \* theme packages of the id "custom"
    Bare,       \* those without index.html, whose entry is another file
    First,      \* the version installed by hand
    Versions,   \* versions of the update manifest
    MaxCrashes, \* bound on ends of the process other than an update's own
    MaxOld,     \* bound on how often a path gains an ".old"
    Missing     \* no such file or directory

ASSUME PanelAssumption ==
    /\ Bare \subseteq Packages
    /\ First \notin Versions
    /\ (Versions \cup {First}) \cap Packages = {}
    /\ Missing \notin Versions \cup Packages \cup {First}
    /\ MaxCrashes \in Nat
    /\ MaxOld \in Nat \ {0}

VARIABLES
    up,         \* a server process runs
    themes,     \* themes_root: a tree, or Missing
    themesOld,  \* its ".old" sibling
    themesTmp,  \* .pharus-themes-<version>
    bins,       \* the executable the service manager starts, 0, and its
                \* ".old" siblings: k + 1 is the ".old" of k
    exe,        \* which of them the process runs, or Gone
    binTmp,     \* .pharus-bin-<version>
    stage,      \* .pharus-update/server-<version>
    row,        \* the themes table lists "custom"
    current,    \* the setting current_theme
    stepOf,     \* where each job stands
    arg,        \* its package, version or theme
    at,         \* the executable an update means to replace
    left,       \* files an install has yet to extract
    crashes,    \* crashes so far
    marks       \* history: what went wrong so far, see Marks

themeFiles == <<themes, themesOld, themesTmp>>
binFiles == <<bins, exe, binTmp>>
Disk == <<themeFiles, binFiles, stage>>
Settings == <<row, current>>
panelVars == <<up, Disk, Settings, stepOf, arg, at, left, crashes, marks>>

(***************************************************************************)
(* A theme directory maps its files to where they come from, a tree maps   *)
(* names to theme directories; "tmp" is install_zip's .tmp-custom.  What   *)
(* the server serves is index.html; an install looks for the file that its *)
(* manifest calls the entry, which may be another.  A                      *)
(* bundle is good or bad: the file in the stage may not be the one whose   *)
(* checksum was verified.  current_exe() follows the file that the process *)
(* runs, also when it is renamed to ".old"; once it is removed, the name   *)
(* it gives is no file's (external).                                       *)
(***************************************************************************)
Ids == {"default", "custom"}
Files == {"index", "rest"}
Sources == Packages \cup Versions \cup {First}
Dir == [Files -> Sources \cup {Missing}]
Tree == [Ids \cup {"tmp"} -> Dir \cup {Missing}]
Binary == [of : Versions \cup {First}, good : BOOLEAN]
Slots == 0..MaxOld
Gone == -1
Staged == {"none", "good", "bad"}
Stage == [bundle : Staged, pharus : Staged, themes : Staged]
Marks == {"overlap", "leftover", "stopped", "raced", "hand", "swapped",
          "swapStopped", "gap", "crossed", "sameVersion"}
InstallPoints == {"clear", "extract", "abort", "evict", "move", "row"}
DeletePoints == {"delete", "unlist"}
UpdatePoints == {"fetch", "unpack", "copyThemes", "checkThemes", "dropOldThemes",
                 "retireThemes", "placeThemes", "stageBinary", "checkBinary",
                 "dropOldBinary", "retireBinary", "placeBinary", "exit"}
JobPoints == {"new", "checked", "done"} \cup InstallPoints \cup DeletePoints \cup UpdatePoints

ASSUME MissingIsNoFile == Missing \notin Dir \cup Tree \cup Binary

EmptyDir == [f \in Files |-> Missing]
EmptyTree == [n \in Ids \cup {"tmp"} |-> Missing]
FilesOf(src) == IF src \in Bare THEN {"rest"} ELSE Files
EntryOf(p) == IF p \in Bare THEN "rest" ELSE "index"
Copy(src) == [f \in Files |-> IF f \in FilesOf(src) THEN src ELSE Missing]
Holding(bundle, pharus, tree) ==
    [bundle |-> bundle, pharus |-> pharus, themes |-> tree]
EmptyStage == Holding("none", "none", "none")
Program(v, good) == [of |-> v, good |-> good]
Whole(dir) == \E src \in Sources : dir = Copy(src)
PartOfOne(dir) == \E src \in Sources : \A f \in Files : dir[f] \in {Missing, Copy(src)[f]}

PanelInit ==
    /\ up = TRUE
    /\ \E custom \in {Missing} \cup {Copy(p) : p \in Packages} :
         /\ themes = [EmptyTree EXCEPT !["default"] = Copy(First),
                                       !["custom"] = custom]
         /\ row = (custom # Missing)
         /\ current \in {n \in Ids : themes[n] # Missing /\ themes[n]["index"] # Missing}
    /\ themesOld = Missing
    /\ themesTmp = [v \in Versions |-> Missing]
    /\ bins = [k \in Slots |-> IF k = 0 THEN Program(First, TRUE) ELSE Missing]
    /\ exe = 0
    /\ binTmp = [v \in Versions |-> Missing]
    /\ stage = [v \in Versions |-> EmptyStage]
    /\ stepOf = [j \in Jobs |-> "new"]
    /\ arg = [j \in Jobs |-> Missing]
    /\ at = [j \in Jobs |-> 0]
    /\ left = [j \in Jobs |-> {}]
    /\ crashes = 0
    /\ marks = {}

\* What it means for the job's traces that it goes no further.
MarksOfStop(j) ==
    IF stepOf[j] \in {"evict", "move", "delete"} THEN {"stopped"}
    ELSE IF stepOf[j] = "placeThemes" THEN {"swapStopped"}
    ELSE IF stepOf[j] = "placeBinary" /\ at[j] = 0 THEN {"gap"} ELSE {}

Advance(j, from, to) ==
    /\ up
    /\ stepOf[j] = from
    /\ stepOf' = [stepOf EXCEPT ![j] = to]

Installing == \E j \in Jobs : stepOf[j] \in InstallPoints
Updating(v) == \E j \in Jobs : stepOf[j] \in UpdatePoints /\ arg[j] = v

\* create_dir_all makes what is missing of the path, themes_root included.
Rooted == IF themes = Missing THEN EmptyTree ELSE themes

Without(name) == IF themes = Missing THEN Missing ELSE [themes EXCEPT ![name] = Missing]
There(name) == themes # Missing /\ themes[name] # Missing
HasFile(name, f) == There(name) /\ themes[name][f] # Missing

-----------------------------------------------------------------------------
(* remove_dir_all: the files go one by one, then the directory.  It stops  *)
(* at its first error, and install_zip and delete_theme go on regardless.  *)

NotThemes == UNCHANGED <<up, themesOld, themesTmp, binFiles, stage, at, crashes>>

Removes(j) ==
    IF stepOf[j] \in {"clear", "abort"} THEN {"tmp"}
    ELSE IF stepOf[j] \in {"evict", "delete"} THEN {"custom"} ELSE {}

Unlink(j, f) ==
    /\ up
    /\ \E name \in Removes(j) :
         /\ HasFile(name, f)
         /\ themes' = [themes EXCEPT ![name] = [@ EXCEPT ![f] = Missing]]
    /\ NotThemes
    /\ UNCHANGED <<Settings, stepOf, arg, left, marks>>

\* The call is over, with the directory or without.
RemovalOver(name) ==
    \/ themes' = themes
    \/ There(name) /\ themes[name] = EmptyDir /\ themes' = Without(name)

-----------------------------------------------------------------------------
(* install_zip and the row written after it: of a theme step, the rest of  *)
(* the disk is left as it is.                                              *)

\* The temporary directory is to be removed first, whoever uses it.
InstallStart(j, p) ==
    /\ Advance(j, "new", "clear")
    /\ arg' = [arg EXCEPT ![j] = p]
    /\ left' = [left EXCEPT ![j] = FilesOf(p)]
    /\ marks' = IF Installing THEN marks \cup {"overlap"} ELSE marks
    /\ UNCHANGED themes
    /\ NotThemes
    /\ UNCHANGED Settings

\* create_dir_all takes the directory as it finds it.
InstallCreate(j) ==
    /\ Advance(j, "clear", "extract")
    /\ themes' = [Rooted EXCEPT !["tmp"] = IF @ = Missing THEN EmptyDir ELSE @]
    /\ marks' = IF Rooted["tmp"] \in {Missing, EmptyDir} THEN marks ELSE marks \cup {"leftover"}
    /\ NotThemes
    /\ UNCHANGED <<Settings, arg, left>>

\* The file's parent directory is made if it is missing, then the file.
Extract(j, f) ==
    /\ f \in left[j]
    /\ Advance(j, "extract", "extract")
    /\ left' = [left EXCEPT ![j] = @ \ {f}]
    /\ LET tmp == IF Rooted["tmp"] = Missing THEN EmptyDir ELSE Rooted["tmp"] IN
       themes' = [Rooted EXCEPT !["tmp"] = [tmp EXCEPT ![f] = arg[j]]]
    /\ NotThemes
    /\ UNCHANGED <<Settings, arg, marks>>

\* mutant: the archive is taken for extracted once its entry file is there
InstallCheckEntry(j) ==
    /\ HasFile("tmp", EntryOf(arg[j]))
    /\ Advance(j, "extract", "evict")
    /\ UNCHANGED themes
    /\ NotThemes
    /\ UNCHANGED <<Settings, arg, left, marks>>

\* Everything is extracted and the entry file exists: the installed theme is
\* to be removed to make room.
InstallCheck(j) ==
    /\ left[j] = {}
    /\ HasFile("tmp", EntryOf(arg[j]))
    /\ Advance(j, "extract", "evict")
    /\ UNCHANGED themes
    /\ NotThemes
    /\ UNCHANGED <<Settings, arg, left, marks>>

InstallEvicted(j) ==
    /\ Advance(j, "evict", "move")
    /\ RemovalOver("custom")
    /\ NotThemes
    /\ UNCHANGED <<Settings, arg, left, marks>>

\* A refusal or an error before that: the temporary directory is removed.
InstallAbort(j) ==
    /\ Advance(j, "extract", "abort")
    /\ left' = [left EXCEPT ![j] = {}]
    /\ UNCHANGED themes
    /\ NotThemes
    /\ UNCHANGED <<Settings, arg, marks>>

InstallAborted(j) ==
    /\ Advance(j, "abort", "done")
    /\ RemovalOver("tmp")
    /\ NotThemes
    /\ UNCHANGED <<Settings, arg, left, marks>>

\* A rename needs its source, and a target that is missing or empty.
InstallMove(j) ==
    /\ There("tmp")
    /\ themes["custom"] \in {Missing, EmptyDir}
    /\ Advance(j, "move", "row")
    /\ themes' = [themes EXCEPT !["custom"] = themes["tmp"], !["tmp"] = Missing]
    /\ marks' = marks \ {"stopped"}
    /\ NotThemes
    /\ UNCHANGED <<Settings, arg, left>>

DbFree == \A j \in Jobs : stepOf[j] \notin DeletePoints

\* upsert_theme
InstallRow(j) ==
    /\ DbFree
    /\ Advance(j, "row", "done")
    /\ row' = TRUE
    /\ UNCHANGED <<up, Disk, current, arg, at, left, crashes, marks>>

-----------------------------------------------------------------------------
(* The other theme operations *)

\* activate_theme looks for index.html, then writes the setting.
ActivateCheck(j, id) ==
    /\ HasFile(id, "index")
    /\ Advance(j, "new", "checked")
    /\ arg' = [arg EXCEPT ![j] = id]
    /\ marks' = IF id = "custom" /\ ~DbFree THEN marks \cup {"raced"} ELSE marks
    /\ UNCHANGED <<up, Disk, Settings, at, left, crashes>>

ActivateSet(j) ==
    /\ DbFree
    /\ Advance(j, "checked", "done")
    /\ current' = arg[j]
    /\ UNCHANGED <<up, Disk, row, arg, at, left, crashes, marks>>

Activating == \E j \in Jobs : stepOf[j] = "checked" /\ arg[j] = "custom"

\* mutant: the active theme can be deleted
DeleteThemeAny(j) ==
    /\ row
    /\ DbFree
    /\ Advance(j, "new", "delete")
    /\ marks' = IF Activating THEN marks \cup {"raced"} ELSE marks
    /\ UNCHANGED <<up, Disk, Settings, arg, at, left, crashes>>

\* delete_theme, under the database lock from here on: the directory, then the
\* row.  An activation that looks at the directory needs no lock for that.
DeleteTheme(j) ==
    /\ current # "custom"
    /\ row
    /\ DbFree
    /\ Advance(j, "new", "delete")
    /\ marks' = IF Activating THEN marks \cup {"raced"} ELSE marks
    /\ UNCHANGED <<up, Disk, Settings, arg, at, left, crashes>>

DeleteRemoved(j) ==
    /\ Advance(j, "delete", "unlist")
    /\ RemovalOver("custom")
    /\ marks' = IF themes' # Missing /\ themes'["custom"] # Missing
                THEN marks \cup {"stopped"} ELSE marks
    /\ NotThemes
    /\ UNCHANGED <<Settings, arg, left>>

\* The statement may fail.
DeleteRow(j, deleted) ==
    /\ Advance(j, "unlist", "done")
    /\ row' = (row /\ ~deleted)
    /\ UNCHANGED <<up, Disk, current, arg, at, left, crashes, marks>>

\* pharus set-theme, a process of its own, takes any name.
SetTheme(id) ==
    /\ current # id
    /\ current' = id
    /\ marks' = marks \cup {"hand"}
    /\ UNCHANGED <<up, Disk, row, stepOf, arg, at, left, crashes>>

-----------------------------------------------------------------------------
(* apply_server_update: the path of the executable is asked for and the    *)
(* stage emptied, also of what another job put there.                      *)

UpdateFrame == UNCHANGED <<up, Settings, left, crashes>>

UpdateStart(j, v) ==
    /\ Advance(j, "new", "fetch")
    /\ arg' = [arg EXCEPT ![j] = v]
    /\ at' = [at EXCEPT ![j] = exe]
    /\ stage' = [stage EXCEPT ![v] = EmptyStage]
    /\ marks' = IF Updating(v) THEN marks \cup {"sameVersion"} ELSE marks
    /\ UpdateFrame
    /\ UNCHANGED <<themeFiles, binFiles>>

\* mutant: the archive is unpacked whatever its checksum
FetchUnchecked(j, quality) ==
    /\ Advance(j, "fetch", "unpack")
    /\ LET now == stage[arg[j]] IN
       stage' = [stage EXCEPT ![arg[j]] = Holding(quality, now.pharus, now.themes)]
    /\ UpdateFrame
    /\ UNCHANGED <<themeFiles, binFiles, arg, at, marks>>

\* The download is written to the stage; then its checksum is compared.
Fetch(j, quality) ==
    /\ Advance(j, "fetch", IF quality = "good" THEN "unpack" ELSE "done")
    /\ LET now == stage[arg[j]] IN
       stage' = [stage EXCEPT ![arg[j]] = Holding(quality, now.pharus, now.themes)]
    /\ UpdateFrame
    /\ UNCHANGED <<themeFiles, binFiles, arg, at, marks>>

\* The archive on disk is unpacked, and holds pharus and themes/.
Unpack(j) ==
    /\ Advance(j, "unpack", "copyThemes")
    /\ LET got == stage[arg[j]].bundle IN
       /\ got # "none"
       /\ stage' = [stage EXCEPT ![arg[j]] = Holding(got, got, got)]
    /\ UpdateFrame
    /\ UNCHANGED <<themeFiles, binFiles, arg, at, marks>>

\* copy_tree into the emptied sibling, in one step; the bundle ships "default"
\* alone.
CopyThemes(j) ==
    /\ Advance(j, "copyThemes", "checkThemes")
    /\ LET v == arg[j] IN
       /\ stage[v].themes # "none"
       /\ themesTmp' = [themesTmp EXCEPT ![v] = [EmptyTree EXCEPT !["default"] =
                            IF stage[v].themes = "good" THEN Copy(v) ELSE EmptyDir]]
    /\ UpdateFrame
    /\ UNCHANGED <<themes, themesOld, binFiles, stage, arg, at, marks>>

\* themes_root.exists()
CheckThemes(j) ==
    /\ Advance(j, "checkThemes", IF themes = Missing THEN "placeThemes" ELSE "dropOldThemes")
    /\ UpdateFrame
    /\ UNCHANGED <<themeFiles, binFiles, stage, arg, at, marks>>

\* An ".old" tree that exists is removed, in one step; what a removal that fails
\* leaves of it, nothing reads.
DropOldThemes(j) ==
    /\ Advance(j, "dropOldThemes", "retireThemes")
    /\ themesOld' = Missing
    /\ UpdateFrame
    /\ UNCHANGED <<themes, themesTmp, binFiles, stage, arg, at, marks>>

\* The installed themes go with the tree, and a temporary directory.
RetireThemes(j) ==
    /\ themes # Missing
    /\ themesOld \in {Missing, EmptyTree}
    /\ Advance(j, "retireThemes", "placeThemes")
    /\ themesOld' = themes
    /\ themes' = Missing
    /\ marks' = marks \cup {"swapped"} \cup (IF Installing THEN {"overlap"} ELSE {})
    /\ UpdateFrame
    /\ UNCHANGED <<themesTmp, binFiles, stage, arg, at>>

PlaceThemes(j) ==
    /\ themes \in {Missing, EmptyTree}
    /\ Advance(j, "placeThemes", "stageBinary")
    /\ themesTmp[arg[j]] # Missing
    /\ themes' = themesTmp[arg[j]]
    /\ themesTmp' = [themesTmp EXCEPT ![arg[j]] = Missing]
    /\ UpdateFrame
    /\ UNCHANGED <<themesOld, binFiles, stage, arg, at, marks>>

\* The staged binary moves next to the running one.
StageBinary(j) ==
    /\ Advance(j, "stageBinary", "checkBinary")
    /\ LET v == arg[j] IN
       /\ stage[v].pharus # "none"
       /\ binTmp' = [binTmp EXCEPT ![v] = Program(v, stage[v].pharus = "good")]
       /\ stage' = [stage EXCEPT ![v] = Holding(@.bundle, "none", @.themes)]
    /\ UpdateFrame
    /\ UNCHANGED <<themeFiles, bins, exe, arg, at, marks>>

Exists(k) == k # Gone /\ bins[k] # Missing

\* current.exists()
CheckBinary(j) ==
    /\ at[j] < MaxOld
    /\ Advance(j, "checkBinary", IF Exists(at[j]) THEN "dropOldBinary" ELSE "placeBinary")
    /\ UpdateFrame
    /\ UNCHANGED <<themeFiles, binFiles, stage, arg, at, marks>>

\* An ".old" that exists is removed, by name.  (One that another update puts
\* there after old.exists() said no is replaced by the rename instead.)  By now
\* the binary may have gone to ".old" itself.
DropOldBinary(j) ==
    /\ Advance(j, "dropOldBinary", "retireBinary")
    /\ bins' = [bins EXCEPT ![at[j] + 1] = Missing]
    /\ exe' = IF exe = at[j] + 1 THEN Gone ELSE exe
    /\ marks' = IF Exists(at[j]) THEN marks ELSE marks \cup {"crossed"}
    /\ UpdateFrame
    /\ UNCHANGED <<themeFiles, binTmp, stage, arg, at>>

\* mutant: the binary is removed, not renamed to ".old"
RetireBinaryAway(j) ==
    /\ Exists(at[j])
    /\ Advance(j, "retireBinary", "placeBinary")
    /\ bins' = [bins EXCEPT ![at[j]] = Missing]
    /\ exe' = IF exe = at[j] THEN Gone ELSE exe
    /\ UpdateFrame
    /\ UNCHANGED <<themeFiles, binTmp, stage, arg, at, marks>>

RetireBinary(j) ==
    /\ Exists(at[j])
    /\ Advance(j, "retireBinary", "placeBinary")
    /\ bins' = [bins EXCEPT ![at[j] + 1] = bins[at[j]], ![at[j]] = Missing]
    /\ exe' = IF exe = at[j] THEN at[j] + 1 ELSE IF exe = at[j] + 1 THEN Gone ELSE exe
    /\ UpdateFrame
    /\ UNCHANGED <<themeFiles, binTmp, stage, arg, at, marks>>

PlaceBinary(j) ==
    /\ Advance(j, "placeBinary", "exit")
    /\ binTmp[arg[j]] # Missing
    /\ bins' = IF at[j] = Gone THEN bins ELSE [bins EXCEPT ![at[j]] = binTmp[arg[j]]]
    /\ exe' = IF exe = at[j] THEN Gone ELSE exe
    /\ binTmp' = [binTmp EXCEPT ![arg[j]] = Missing]
    /\ UpdateFrame
    /\ UNCHANGED <<themeFiles, stage, arg, at, marks>>

-----------------------------------------------------------------------------
(* Failures, the end of the process and its restart *)

\* A call of the job fails; the job leaves everything as it stands.  It has
\* cleared the place of the staged binary when that cannot be moved.
Fail(j) ==
    /\ stepOf[j] \in {"clear", "move", "row", "checked"}
                      \cup (UpdatePoints \ {"checkThemes", "checkBinary", "exit"})
    /\ Advance(j, stepOf[j], "done")
    /\ \/ UNCHANGED binTmp
       \/ stepOf[j] = "stageBinary" /\ binTmp' = [binTmp EXCEPT ![arg[j]] = Missing]
    /\ marks' = marks \cup MarksOfStop(j)
    /\ UNCHANGED <<up, themeFiles, bins, exe, stage, Settings, arg, at, left, crashes>>

ProcessEnds ==
    /\ up' = FALSE
    /\ stepOf' = [j \in Jobs |-> IF stepOf[j] = "new" THEN "new" ELSE "done"]
    /\ left' = [j \in Jobs |-> {}]
    /\ marks' = marks \cup UNION {MarksOfStop(j) : j \in Jobs}
    /\ UNCHANGED <<Disk, Settings, arg, at>>

\* process::exit, 400 ms after the last rename.
Exit(j) ==
    /\ up /\ stepOf[j] = "exit"
    /\ ProcessEnds
    /\ UNCHANGED crashes

Crash ==
    /\ up /\ crashes < MaxCrashes
    /\ crashes' = crashes + 1
    /\ ProcessEnds

\* The service manager starts what it finds at its path (external).
Start ==
    /\ ~up
    /\ bins[0] # Missing
    /\ bins[0].good
    /\ up' = TRUE
    /\ exe' = 0
    /\ UNCHANGED <<themeFiles, bins, binTmp, stage, Settings, stepOf, arg, at, left,
                   crashes, marks>>

InstallStep(j) ==
    \/ \E p \in Packages : InstallStart(j, p)
    \/ \E f \in Files : Extract(j, f)
    \/ InstallCreate(j) \/ InstallCheck(j) \/ InstallEvicted(j) \/ InstallMove(j)
    \/ InstallRow(j) \/ InstallAbort(j) \/ InstallAborted(j)

ThemeStep(j) ==
    \/ \E id \in Ids : ActivateCheck(j, id)
    \/ ActivateSet(j) \/ DeleteTheme(j) \/ DeleteRemoved(j)
    \/ \E deleted \in BOOLEAN : DeleteRow(j, deleted)

UpdateStep(j) ==
    \/ \E v \in Versions : UpdateStart(j, v)
    \/ \E quality \in {"good", "bad"} : Fetch(j, quality)
    \/ Unpack(j) \/ CopyThemes(j) \/ CheckThemes(j) \/ DropOldThemes(j)
    \/ RetireThemes(j) \/ PlaceThemes(j) \/ StageBinary(j) \/ CheckBinary(j)
    \/ DropOldBinary(j) \/ RetireBinary(j) \/ PlaceBinary(j) \/ Exit(j)

PanelNext ==
    \/ \E j \in Jobs : InstallStep(j) \/ ThemeStep(j) \/ UpdateStep(j) \/ Fail(j)
    \/ \E j \in Jobs, f \in Files : Unlink(j, f)
    \/ \E id \in Ids : SetTheme(id)
    \/ Crash \/ Start

PanelSpec == PanelInit /\ [][PanelNext]_panelVars

-----------------------------------------------------------------------------
\* Every variable has its type; a tree, a file or a setting is one the
\* program can have written.
PanelTypeOK ==
    /\ up \in BOOLEAN /\ row \in BOOLEAN
    /\ themes \in Tree \cup {Missing}
    /\ themesOld \in Tree \cup {Missing}
    /\ themesTmp \in [Versions -> Tree \cup {Missing}]
    /\ bins \in [Slots -> Binary \cup {Missing}]
    /\ exe \in Slots \cup {Gone}
    /\ at \in [Jobs -> Slots \cup {Gone}]
    /\ binTmp \in [Versions -> Binary \cup {Missing}]
    /\ stage \in [Versions -> Stage]
    /\ current \in Ids
    /\ stepOf \in [Jobs -> JobPoints]
    /\ arg \in [Jobs -> Packages \cup Versions \cup Ids \cup {Missing}]
    /\ left \in [Jobs -> SUBSET Files]
    /\ crashes \in 0..MaxCrashes
    /\ marks \subseteq Marks

(***************************************************************************)
(* An installed theme is one package, entirely (themes.rs 90-94).  Half of *)
(* one is there only while an install or a deletion removes it, or after   *)
(* such a removal has stopped or failed, until an install succeeds; files  *)
(* of two packages, only after two installs of the id that overlapped, or  *)
(* after one whose temporary directory could not be emptied (160).         *)
(***************************************************************************)
InstalledWhole ==
    \/ ~There("custom")
    \/ Whole(themes["custom"])
    \/ /\ PartOfOne(themes["custom"])
       /\ \/ \E j \in Jobs : stepOf[j] \in {"evict", "move", "delete"}
          \/ "stopped" \in marks
    \/ marks \cap {"overlap", "leftover"} # {}

(***************************************************************************)
(* The site can be served: the active theme is installed, whole and with   *)
(* an index.html (main.rs 110-121; admin.rs 1955 looks for one, 1970-1972  *)
(* refuses to delete it).  The ways out: an install of it between its      *)
(* first removal and the move, or stopped there; overlapping installs or   *)
(* one over leftovers; an install of a package whose entry is another file *)
(* over the active theme; an activation that looked before the end of a    *)
(* deletion; a name set by hand; a removal that stopped; an update, which  *)
(* replaces the themes directory by one without the installed themes, and  *)
(* which may stop with none.                                               *)
(***************************************************************************)
ActiveThemeServed ==
    \/ There(current) /\ Whole(themes[current]) /\ HasFile(current, "index")
    \/ \E j \in Jobs : stepOf[j] = "placeThemes"
    \/ marks \cap {"swapStopped", "sameVersion"} # {}
    \/ /\ current = "custom"
       /\ \/ \E j \in Jobs : stepOf[j] \in {"evict", "move"}
          \/ There("custom") /\ \E p \in Bare : themes["custom"] = Copy(p)
          \/ marks \cap {"stopped", "overlap", "leftover", "raced", "hand", "swapped"} # {}

(***************************************************************************)
(* The service manager finds a good binary to start (updates.rs 221-312),  *)
(* unless an update is between retiring the old one and placing the new    *)
(* one, or was stopped there, by an error or by another update's exit, or  *)
(* unpacked an archive that an update of the same version had overwritten. *)
(***************************************************************************)
ServerRunnable ==
    \/ bins[0] # Missing /\ bins[0].good
    \/ /\ bins[0] = Missing
       /\ \/ "gap" \in marks
          \/ \E j \in Jobs : stepOf[j] = "placeBinary" /\ at[j] = 0
    \/ "sameVersion" \in marks

(***************************************************************************)
(* Whatever stops when, and whatever updates of different versions         *)
(* overlap, a good binary is left in place or under an ".old" name         *)
(* (updates.rs 222-223), unless one update found the binary in place (304) *)
(* and removed ".old" (307) after another had renamed it to that (309).    *)
(***************************************************************************)
PreviousKept ==
    \/ \E k \in Slots : bins[k] # Missing /\ bins[k].good
    \/ marks \cap {"sameVersion", "crossed"} # {}

\* What updates.rs 222-223 says, without the exception: two updates of different
\* versions refute it.
PreviousNeverLost ==
    \/ \E k \in Slots : bins[k] # Missing /\ bins[k].good
    \/ "sameVersion" \in marks
=============================================================================
