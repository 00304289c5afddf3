------------------------------ MODULE Profile -------------------------------
(***************************************************************************)
(* The name and the region of an agent, each kept twice: in the agents     *)
(* table and in the agent's entry of the map that everything shown is      *)
(* taken from.  Written by the admin handlers rename_agent and             *)
(* update_region, by the Region frame of an agent that has looked up where *)
(* it is, and by every registration (ws.rs), which copies the row.         *)
(*                                                                         *)
(* The table and the map have a lock each; every writer takes one after    *)
(* the other and broadcasts after both.                                    *)
(***************************************************************************)
EXTENDS AgentLink

CONSTANTS
    Edits,      \* admin requests, each of which changes one thing
    Values,     \* names, and region codes, an operator may set
    Detected    \* the code an agent finds for itself

ASSUME ProfileAssumption ==
    /\ Detected \notin Values /\ None \notin Values \cup {Detected}
    /\ Edits \cap Handlers = {}

VARIABLES
    row,        \* the agents table
    entry,      \* the agents map
    told,       \* the region last broadcast
    read,       \* what each handler has read of the row, to put in the map
    seen,       \* where each handler is with the Region frame
    edit,       \* where each admin request is, and what it writes
    mixed,      \* history: fields whose writers overlapped, or failed to write
    overtaken   \* history: handlers that looked for an override before it was set

profileVars == <<row, entry, told, read, seen, edit, mixed, overtaken>>
vars == <<linkVars, profileVars>>

Fields == {"name", "region"}
NoRegion == [code |-> None, source |-> "auto"]
Region == [code : Values, source : {"manual"}]
          \cup [code : {Detected}, source : {"auto"}] \cup {NoRegion}
Row == [name : Values, region : Region]
NoEdit == [at |-> "new", agent |-> None, field |-> "name", value |-> None]

Init ==
    /\ LinkInit
    /\ row \in [Agents -> [name : Values, region : Region]]
    /\ entry = row
    /\ told = [a \in Agents |-> row[a].region]
    /\ read = [h \in Handlers |-> [name |-> None, region |-> NoRegion]]
    /\ seen = [h \in Handlers |-> "none"]
    /\ edit = [e \in Edits |-> NoEdit]
    /\ mixed = {}
    /\ overtaken = {}

\* The writers of a's field that are between their first step and their last.
Writers(a, f) ==
    LET joining == IF f = "name" THEN {"found", "greeted"} ELSE {"greeted", "registered"} IN
    {h \in Handlers : /\ agentOf[h] = a
                      /\ \/ pc[h] \in joining
                         \/ f = "region" /\ seen[h] \in {"stored", "entered"}}
    \cup {e \in Edits : edit[e].agent = a /\ edit[e].field = f
                        /\ edit[e].at \in {"stored", "entered"}}

\* History, at the first write of a writer of the field: others are at work.
Joins(a, f, torn) ==
    mixed' = IF torn \/ Writers(a, f) # {} THEN mixed \cup {<<a, f>>} ELSE mixed

\* A row or an entry with one field changed.
With(r, f, value) ==
    IF f = "name" THEN [name |-> value, region |-> r.region]
                  ELSE [name |-> r.name, region |-> value]

Write(var, a, f, value) == [var EXCEPT ![a] = With(@, f, value)]

-----------------------------------------------------------------------------
(* admin.rs rename_agent and update_region                                 *)

Job(at, a, f, value) == [at |-> at, agent |-> a, field |-> f, value |-> value]

Proceed(e, from, to) ==
    /\ edit[e].at = from
    /\ edit' = [edit EXCEPT ![e] = Job(to, @.agent, @.field, @.value)]

\* The row is written, or the handler returns; None drops an override.
EditRow(e, a, f, value) ==
    LET new == IF f = "name" THEN value
               ELSE IF value = None THEN NoRegion
               ELSE [code |-> value, source |-> "manual"]
    IN
    /\ edit[e].at = "new"
    /\ f = "name" => value # None
    /\ edit' = [edit EXCEPT ![e] = Job("stored", a, f, new)]
    /\ row' = Write(row, a, f, new)
    /\ overtaken' = IF f = "region" /\ value # None
                    THEN overtaken \cup {h \in Handlers : agentOf[h] = a /\ seen[h] = "checked"}
                    ELSE overtaken
    /\ Joins(a, f, FALSE)
    /\ UNCHANGED <<linkVars, entry, told, read, seen>>

\* mutant: the entry is left to the next registration
EditEntryLater(e) ==
    /\ Proceed(e, "stored", IF edit[e].field = "name" THEN "done" ELSE "entered")
    /\ UNCHANGED <<linkVars, row, entry, told, read, seen, mixed, overtaken>>

EditEntry(e) ==
    /\ Proceed(e, "stored", IF edit[e].field = "name" THEN "done" ELSE "entered")
    /\ entry' = Write(entry, edit[e].agent, edit[e].field, edit[e].value)
    /\ UNCHANGED <<linkVars, row, told, read, seen, mixed, overtaken>>

\* RegionUpdate; a new name is not broadcast.
EditTell(e) ==
    /\ Proceed(e, "entered", "done")
    /\ told' = [told EXCEPT ![edit[e].agent] = edit[e].value]
    /\ UNCHANGED <<linkVars, row, entry, read, seen, mixed, overtaken>>

-----------------------------------------------------------------------------
(* ws.rs: the Region frame, in the loop of a handler                       *)

Sees(h, from, to) ==
    /\ pc[h] = "loop" /\ seen[h] = from
    /\ seen' = [seen EXCEPT ![h] = to]

\* mutant: the agent's code is taken whatever the operator has set
DetectAnyway(h) ==
    /\ Sees(h, "none", "checked")
    /\ UNCHANGED <<linkVars, row, entry, told, read, edit, mixed, overtaken>>

\* region_source: a manual override is left alone.  A session reports once.
DetectCheck(h) ==
    /\ Sees(h, "none", IF row[agentOf[h]].region.source = "manual" THEN "done" ELSE "checked")
    /\ UNCHANGED <<linkVars, row, entry, told, read, edit, mixed, overtaken>>

Found == [code |-> Detected, source |-> "auto"]

\* A failure of set_region is logged, and the rest done all the same.
DetectStore(h, ok) ==
    /\ Sees(h, "checked", "stored")
    /\ row' = IF ok THEN Write(row, agentOf[h], "region", Found) ELSE row
    /\ Joins(agentOf[h], "region", ~ok)
    /\ UNCHANGED <<linkVars, entry, told, read, edit, overtaken>>

DetectEntry(h) ==
    /\ Sees(h, "stored", "entered")
    /\ entry' = Write(entry, agentOf[h], "region", Found)
    /\ UNCHANGED <<linkVars, row, told, read, edit, mixed, overtaken>>

DetectTell(h) ==
    /\ Sees(h, "entered", "done")
    /\ told' = [told EXCEPT ![agentOf[h]] = Found]
    /\ UNCHANGED <<linkVars, row, entry, read, edit, mixed, overtaken>>

-----------------------------------------------------------------------------
(* ws.rs: a registration                                                   *)

\* find_by_token and find_agent_by_hostname also give the name.
ProfileLookup(h, a) ==
    /\ Lookup(h, a)
    /\ read' = Write(read, h, "name", row[a].name)
    /\ Joins(a, "name", FALSE)
    /\ UNCHANGED <<row, entry, told, seen, edit, overtaken>>

\* The epoch is taken, and the region loaded under the table's lock.
ProfileGreet(h) ==
    /\ Greet(h)
    /\ read' = Write(read, h, "region", row[agentOf[h]].region)
    /\ Joins(agentOf[h], "region", FALSE)
    /\ UNCHANGED <<row, entry, told, seen, edit, overtaken>>

ProfileRegister(h) ==
    /\ Register(h)
    /\ entry' = [entry EXCEPT ![agentOf[h]] = read[h]]
    /\ UNCHANGED <<row, told, read, seen, edit, mixed, overtaken>>

ProfileAnnounce(h) ==
    /\ Announce(h)
    /\ told' = [told EXCEPT ![agentOf[h]] = read[h].region]
    /\ UNCHANGED <<row, entry, read, seen, edit, mixed, overtaken>>

\* The loop is left between two frames.
ProfileBreak(h) ==
    /\ seen[h] \in {"none", "done"}
    /\ Break(h)
    /\ UNCHANGED profileVars

Connect(h) ==
    /\ \/ Refuse(h) \/ LinkLost(h) \/ Leave(h) \/ Cancel(h) \/ Part(h)
    /\ UNCHANGED profileVars

Next ==
    \/ \E e \in Edits :
           \/ \E a \in Agents, f \in Fields, value \in Values \cup {None} :
                  EditRow(e, a, f, value)
           \/ EditEntry(e) \/ EditTell(e)
    \/ \E h \in Handlers :
           \/ DetectCheck(h) \/ (\E ok \in BOOLEAN : DetectStore(h, ok))
           \/ DetectEntry(h) \/ DetectTell(h)
           \/ (\E a \in Agents : ProfileLookup(h, a)) \/ ProfileGreet(h)
           \/ ProfileRegister(h) \/ ProfileAnnounce(h) \/ ProfileBreak(h) \/ Connect(h)

Spec == Init /\ [][Next]_vars

-----------------------------------------------------------------------------
\* Every variable has its type (the agents table, AgentState, RegionUpdate).
ProfileTypeOK ==
    /\ LinkTypeOK
    /\ row \in [Agents -> Row]
    /\ entry \in [Agents -> Row]
    /\ told \in [Agents -> Region]
    /\ read \in [Handlers -> [name : Values \cup {None}, region : Region]]
    /\ seen \in [Handlers -> {"none", "checked", "stored", "entered", "done"}]
    /\ edit \in [Edits -> [at : {"new", "stored", "entered", "done"},
                           agent : Agents \cup {None}, field : Fields,
                           value : Values \cup Region \cup {None}]]
    /\ mixed \in SUBSET (Agents \X Fields)
    /\ overtaken \in SUBSET Handlers

\* When no writer is under way, what is shown of an agent is what is stored, and
\* the browsers were told its region last: unless two writers of the field have
\* overlapped, or a write to the table failed (admin.rs:746-767, 894-924,
\* ws.rs:131-155, 302-331).
EntryFollowsRow ==
    \A a \in Agents :
        /\ Writers(a, "name") = {} /\ <<a, "name">> \notin mixed =>
               entry[a].name = row[a].name
        /\ Writers(a, "region") = {} /\ <<a, "region">> \notin mixed =>
               entry[a].region = row[a].region /\ told[a] = row[a].region

\* An operator's region gives way to the agent's own only where the agent's
\* handler had looked for it before it was set (ws.rs:301-316).
OverriddenOnlyByRace ==
    [][\A a \in Agents :
          row[a].region.source = "manual" /\ row'[a].region = Found =>
              \E h \in overtaken : seen[h] = "checked" /\ seen'[h] = "stored"]_vars

\* "a manual override always wins over agent-side detection" (ws.rs:302).  Does
\* not hold: the override is looked for under one lock and the agent's code is
\* stored under another.
ManualWins ==
    [][\A a \in Agents : row[a].region.source = "manual" => row'[a].region # Found]_vars
=============================================================================
