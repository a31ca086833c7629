------------------------------- MODULE Settings -------------------------------
(***************************************************************************)
(* The settings screen of the terminal interface                           *)
(* (internal/tui/screens/settings_screen.go), the program around it        *)
(* (internal/tui/app.go) and the file it edits (internal/config/config.go).*)
(*                                                                         *)
(* The program is one loop over keys and messages.  A key may leave a      *)
(* command, whose message (`pending`) comes back later, between other keys *)
(* and in any order.  Saving is a sequence of system calls inside one turn *)
(* of the loop: it may fail at each, and the process may be killed there.  *)
(*                                                                         *)
(* Fields and antennas are reached with the cursor keys, which change      *)
(* nothing else, so the cursors are not in the state, and neither is a     *)
(* text before Enter takes it, nor the question before an antenna is       *)
(* deleted: a message that comes then throws them away, as if the key had  *)
(* not been hit.  Of the fields of the file there are those whose          *)
(* conversions differ: warning_threshold stands for both limits,           *)
(* company_id for the required texts.  Of an antenna there are its id, its *)
(* protocol, and whether a port has a location; an id that a file has      *)
(* twice, which Validate refuses, has one row; and a form that is not      *)
(* acceptable is one that Enter does not take.  `menu` stands for every    *)
(* other screen.  What is only shown (the errors) is left out.             *)
(*                                                                         *)
(* Definitions named <operation>_<fault> are not part of the               *)
(* specification: each is the operation with a fault some property catches.*)
(***************************************************************************)
EXTENDS Integers, FiniteSets, SequencesExt

CONSTANTS
    Strings,      \* the texts there are
    Ids,          \* antenna ids
    Protocols,    \* the sequence the selectors go through
    Texts,        \* what an operator types into each field
    Numerals,     \* the number that each text of a number stands for
    Files,        \* files the program may start with
    Unreadable,   \* a file LoadFromYAML refuses
    Env,          \* what LoadFromEnv gives then
    MaxAntennas,  \* bound of the model on the antennas
    MaxPending    \* bound of the model on the messages on their way

\* A field a file does not give is "" or Unset.
Unset == -100

Fields   == {"company_id", "web_access_mode", "web_auth_token", "warning_threshold"}
Antennas == [id : Ids, protocol : Strings, located : BOOLEAN]
Limits   == {Numerals[t] : t \in DOMAIN Numerals} \cup {0, Unset}
Configs  ==
    [company_id : Strings, web_access_mode : Strings, web_listen_addr : Strings,
     web_auth_token : Strings, warning_threshold : Limits, health_listen_addr : Strings,
     antennas : Seq(Antennas)]

ASSUME SettingsAssumption ==
    /\ {"", "local", "lan", "127.0.0.1", "0.0.0.0", "generic", "chainway",
        "0 (unlimited)", "0 (never)", "unlimited"} \subseteq Strings
    /\ Protocols \in Seq(Strings)
    /\ {"generic", "chainway"} \subseteq ToSet(Protocols)
    /\ "" \notin ToSet(Protocols)
    /\ DOMAIN Texts = Fields
    /\ \A f \in Fields : Texts[f] \subseteq Strings
    /\ DOMAIN Numerals \subseteq Strings
    /\ \A t \in DOMAIN Numerals : Numerals[t] \in Int \ {Unset}
    /\ Unreadable \notin Configs
    /\ \A f \in Files : f = Unreadable \/ f \in Configs
    /\ Env \in Configs
    /\ MaxAntennas \in Nat
    /\ MaxPending \in Nat \ {0}

\* ApplyDefaults gives 1000, and LoadFromEnv a limit.
ASSUME LimitAssumption ==
    /\ \E t \in DOMAIN Numerals : Numerals[t] = 1000
    /\ Env.warning_threshold # Unset

VARIABLES
    file,           \* the configuration file
    saving,         \* the system call SaveToYAML is at
    cfg,            \* a.cfg; m.original is a copy of it
    screen,         \* a.currentScreen
    pending,        \* the messages of commands not handled yet
    values,         \* the texts of the fields
    rows,           \* the protocol rows: of the antennas of cfg
    draft,          \* the antennas in the editor
    form,           \* its form
    prompt,         \* promptMode
    hasChanges,     \* of the screen
    editorChanged   \* of the editor

disk == <<file, saving>>
edit == <<values, rows, draft, form, prompt, hasChanges, editorChanged>>
vars == <<disk, cfg, screen, pending, edit>>

Messages == {"back", "discard", "save", "save and leave"}

-----------------------------------------------------------------------------
(* The configuration.                                                      *)

\* A file may leave out the protocol of an antenna.
WithProtocols(antennas) ==
    [i \in DOMAIN antennas |->
        [antennas[i] EXCEPT !.protocol = IF @ = "" THEN "generic" ELSE @]]

\* Fault: a limit of 0 is taken for one that is not set.
ApplyDefaults_ZeroIsUnset(c) ==
    [c EXCEPT !.web_access_mode = IF @ = "" THEN "local" ELSE @,
              !.web_listen_addr = IF @ = "" THEN "127.0.0.1" ELSE @,
              !.health_listen_addr = IF @ = "" THEN "127.0.0.1" ELSE @,
              !.warning_threshold = IF @ \in {0, Unset} THEN 1000 ELSE @,
              !.antennas = WithProtocols(@)]

ApplyDefaults(c) ==
    [c EXCEPT !.web_access_mode = IF @ = "" THEN "local" ELSE @,
              !.web_listen_addr = IF @ = "" THEN "127.0.0.1" ELSE @,
              !.health_listen_addr = IF @ = "" THEN "127.0.0.1" ELSE @,
              !.warning_threshold = IF @ = Unset THEN 1000 ELSE @,
              !.antennas = WithProtocols(@)]

\* A file from before web_access_mode that listens on every address is refused.
Readable(f) ==
    /\ f # Unreadable
    /\ ~(f.web_access_mode = "" /\ f.web_listen_addr = "0.0.0.0")
    /\ f.health_listen_addr \in {"", "127.0.0.1", "::1"}

Load(f) == IF Readable(f) THEN ApplyDefaults(f) ELSE Env

UniqueIDs(antennas) ==
    \A i, j \in DOMAIN antennas : antennas[i].id = antennas[j].id => i = j

\* A protocol that is missing would do; ApplyDefaults leaves none.
AntennasValid(antennas) ==
    /\ UniqueIDs(antennas)
    /\ \A i \in DOMAIN antennas :
          /\ antennas[i].protocol \in ToSet(Protocols)
          /\ antennas[i].located => antennas[i].protocol = "chainway"

Validate(c) ==
    /\ c.company_id # ""
    /\ c.web_access_mode \in {"local", "lan"}
    /\ c.web_access_mode = "local" => c.web_listen_addr = "127.0.0.1"
    /\ c.web_access_mode = "lan" =>
          c.web_listen_addr = "0.0.0.0" /\ c.web_auth_token # ""
    /\ AntennasValid(c.antennas)

-----------------------------------------------------------------------------
(* Between the configuration and the texts.                                *)

\* The texts parseQueueCap reads, and the number of each.
QueueCaps ==
    [t \in {"0 (unlimited)", "0 (never)", "unlimited"} \cup DOMAIN Numerals |->
        IF t \in DOMAIN Numerals THEN Numerals[t] ELSE 0]

\* Texts the validators of the fields take.
Accepted(f, t) ==
    CASE f = "web_access_mode"   -> t \in {"local", "lan", "LAN"}
      [] f = "warning_threshold" -> t \in DOMAIN QueueCaps \cup {"never"}
      [] OTHER                   -> TRUE

ThresholdText(n) ==
    IF n = 0 THEN "0 (never)" ELSE CHOOSE t \in DOMAIN QueueCaps : QueueCaps[t] = n

FieldValues(c) ==
    [f \in Fields |->
        CASE f = "company_id"        -> c.company_id
          [] f = "web_access_mode"   -> c.web_access_mode
          [] f = "web_auth_token"    -> c.web_auth_token
          [] f = "warning_threshold" -> ThresholdText(c.warning_threshold)]

ProtocolRows(c) ==
    [id \in {a.id : a \in ToSet(c.antennas)} |->
        (CHOOSE a \in ToSet(c.antennas) : a.id = id).protocol]

copyConfig(c) == [c EXCEPT !.health_listen_addr = ""]

\* The antennas of the editor, with the protocols of the rows.
WithRows(antennas) ==
    [i \in DOMAIN antennas |->
        IF antennas[i].id \in DOMAIN rows
        THEN [antennas[i] EXCEPT !.protocol = rows[antennas[i].id]]
        ELSE antennas[i]]

\* A limit whose text cannot be read stays what it was.
GetConfig ==
    [copyConfig(cfg) EXCEPT
        !.company_id = values["company_id"],
        !.web_access_mode = values["web_access_mode"],
        !.web_auth_token = values["web_auth_token"],
        !.web_listen_addr = CASE values["web_access_mode"] = "local" -> "127.0.0.1"
                              [] values["web_access_mode"] = "lan"   -> "0.0.0.0"
                              [] OTHER                               -> @,
        !.warning_threshold = IF values["warning_threshold"] \in DOMAIN QueueCaps
                              THEN QueueCaps[values["warning_threshold"]] ELSE @,
        !.antennas = WithRows(draft)]

-----------------------------------------------------------------------------
(* NewApp, and SetConfig after a save or a discard.                        *)

Closed == [mode |-> "list"]

NotSaving == [call |-> "none", leave |-> FALSE]

\* Fault: the editor is not made anew, so its changes are not new ones.
SetConfig_KeepsEditor(c) ==
    /\ values' = FieldValues(c)
    /\ rows' = ProtocolRows(c)
    /\ draft' = c.antennas
    /\ form' = Closed
    /\ prompt' = "none"
    /\ hasChanges' = FALSE
    /\ UNCHANGED editorChanged

SetConfig(c) ==
    /\ values' = FieldValues(c)
    /\ rows' = ProtocolRows(c)
    /\ draft' = c.antennas
    /\ form' = Closed
    /\ prompt' = "none"
    /\ hasChanges' = FALSE
    /\ editorChanged' = FALSE

Init ==
    /\ file \in Files
    /\ saving = NotSaving
    /\ cfg = Load(file)
    /\ screen = "menu"
    /\ pending = {}
    /\ values = FieldValues(cfg)
    /\ rows = ProtocolRows(cfg)
    /\ draft = cfg.antennas
    /\ form = Closed
    /\ prompt = "none"
    /\ hasChanges = FALSE
    /\ editorChanged = FALSE

\* The program is quit or killed, at any time, and started again.
Restart ==
    /\ saving' = NotSaving
    /\ cfg' = Load(file)
    /\ screen' = "menu"
    /\ pending' = {}
    /\ SetConfig(Load(file))
    /\ UNCHANGED file

-----------------------------------------------------------------------------
(* The keys of the screen.                                                 *)

Keys == saving = NotSaving /\ screen = "settings" /\ prompt = "none"

\* The form of an antenna does not have the keys.
Browsing == Keys /\ form.mode = "list"

\* The editor has the keys of the list while the cursor is on a protocol row.
OnRow == Browsing /\ DOMAIN rows # {}

Only(unchanged) == UNCHANGED <<disk, cfg, screen, pending, unchanged>>

OpenSettings ==
    /\ saving = NotSaving
    /\ screen = "menu"
    /\ screen' = "settings"
    /\ UNCHANGED <<disk, cfg, pending, edit>>

\* Enter on a field, then on its new text (validateCurrentField); company_id is
\* not a required field of the screen.
EditField(f, t) ==
    /\ Browsing
    /\ t \in Texts[f]
    /\ Accepted(f, t)
    /\ values' = [values EXCEPT ![f] = t]
    /\ hasChanges' = (hasChanges \/ values[f] # t)
    /\ Only(<<rows, draft, form, prompt, editorChanged>>)

\* moveCursor goes round; a protocol that is not one counts as the first.
Position(protocol) ==
    IF protocol \in ToSet(Protocols)
    THEN CHOOSE n \in DOMAIN Protocols : Protocols[n] = protocol
    ELSE 1

Cycle(protocol, delta) ==
    Protocols[((Position(protocol) - 1 + delta) % Len(Protocols)) + 1]

\* cycleCurrentAntennaProtocol and setDraftProtocol.
CycleRow(id, delta) ==
    LET protocol == Cycle(rows[id], delta)
    IN  /\ Browsing
        /\ id \in DOMAIN rows
        /\ rows' = [rows EXCEPT ![id] = protocol]
        /\ draft' = [i \in DOMAIN draft |->
              IF draft[i].id # id THEN draft[i]
              ELSE [draft[i] EXCEPT !.protocol = protocol,
                                    !.located = @ /\ protocol = "chainway"]]
        /\ hasChanges' = TRUE
        /\ Only(<<values, form, prompt, editorChanged>>)

-----------------------------------------------------------------------------
(* The keys of the antenna editor.                                         *)

\* Fault: syncProtocolFieldsFromDraft is not called.
EditorTurn_NoSync(antennas, changed) ==
    /\ draft' = antennas
    /\ editorChanged' = (editorChanged \/ changed)
    /\ hasChanges' = (hasChanges \/ (~editorChanged /\ changed))
    /\ Only(<<values, rows, prompt>>)

\* What Update of the screen does after the editor had a key.
EditorTurn(antennas, changed) ==
    /\ draft' = antennas
    /\ editorChanged' = (editorChanged \/ changed)
    /\ hasChanges' = (hasChanges \/ (~editorChanged /\ changed))
    /\ rows' = [id \in DOMAIN rows |->
          IF \E a \in ToSet(antennas) : a.id = id
          THEN (CHOOSE a \in ToSet(antennas) : a.id = id).protocol
          ELSE rows[id]]
    /\ Only(<<values, prompt>>)

StartAdd ==
    /\ Browsing
    /\ Len(draft) < MaxAntennas
    /\ form' = [mode |-> "form", at |-> 0, protocol |-> "generic", located |-> FALSE]
    /\ EditorTurn(draft, FALSE)

StartEdit(i) ==
    /\ OnRow
    /\ form' = [mode |-> "form", at |-> i, protocol |-> draft[i].protocol,
                located |-> draft[i].located]
    /\ EditorTurn(draft, FALSE)

\* The locations are reachable, and are kept, only for chainway.
EditForm ==
    /\ Keys
    /\ form.mode = "form"
    /\ \/ \E delta \in {-1, 1} :
             LET protocol == Cycle(form.protocol, delta)
             IN  form' = [form EXCEPT !.protocol = protocol,
                                      !.located = @ /\ protocol = "chainway"]
       \/ /\ form.protocol = "chainway"
          /\ \E some \in BOOLEAN : form' = [form EXCEPT !.located = some]
    /\ EditorTurn(draft, FALSE)

CancelForm ==
    /\ Keys
    /\ form.mode = "form"
    /\ form' = Closed
    /\ EditorTurn(draft, FALSE)

\* No other antenna has the id.
Commitable(id) == \A i \in DOMAIN draft : i # form.at => draft[i].id # id

CommitForm(id) ==
    /\ Keys
    /\ form.mode = "form"
    /\ Commitable(id)
    /\ LET antenna == [id |-> id, protocol |-> form.protocol,
                       located |-> form.located /\ form.protocol = "chainway"]
       IN  EditorTurn(IF form.at = 0 THEN Append(draft, antenna)
                      ELSE ReplaceAt(draft, form.at, antenna), TRUE)
    /\ form' = Closed

\* Its question, and yes.
Delete(i) ==
    /\ OnRow
    /\ EditorTurn(RemoveAt(draft, i), TRUE)
    /\ UNCHANGED form

EditorKey ==
    \/ StartAdd
    \/ \E i \in DOMAIN draft : StartEdit(i) \/ Delete(i)
    \/ EditForm
    \/ CancelForm
    \/ \E id \in Ids : CommitForm(id)

-----------------------------------------------------------------------------
(* Leaving and saving: the questions, and the messages of their answers.   *)

Command(message) ==
    /\ Cardinality(pending \cup {message}) <= MaxPending
    /\ pending' = pending \cup {message}

AskSave ==
    /\ Browsing
    /\ hasChanges
    /\ prompt' = "save"
    /\ Only(<<values, rows, draft, form, hasChanges, editorChanged>>)

Leave ==
    /\ Browsing
    /\ IF hasChanges
       THEN prompt' = "exit" /\ UNCHANGED pending
       ELSE Command("back") /\ UNCHANGED prompt
    /\ UNCHANGED <<disk, cfg, screen, values, rows, draft, form, hasChanges,
                   editorChanged>>

\* `stay`, and no to the first question, only close it.
Answer ==
    /\ saving = NotSaving
    /\ screen = "settings"
    /\ \/ prompt # "none" /\ UNCHANGED pending
       \/ prompt = "save" /\ Command("save")
       \/ prompt = "exit" /\ (Command("save and leave") \/ Command("discard"))
    /\ prompt' = "none"
    /\ UNCHANGED <<disk, cfg, screen, values, rows, draft, form, hasChanges,
                   editorChanged>>

Take(message) ==
    /\ saving = NotSaving
    /\ message \in pending
    /\ pending' = pending \ {message}

\* No other screen knows these messages.
DropMessage(message) ==
    /\ Take(message)
    /\ screen # "settings"
    /\ UNCHANGED <<disk, cfg, screen, edit>>

HandleBack ==
    /\ Take("back")
    /\ screen = "settings"
    /\ screen' = "menu"
    /\ UNCHANGED <<disk, cfg, edit>>

HandleDiscard ==
    /\ Take("discard")
    /\ screen = "settings"
    /\ SetConfig(cfg)
    /\ screen' = "menu"
    /\ UNCHANGED <<disk, cfg>>

\* Validate comes first; a message with nothing valid to save is spent.
HandleSave(message) ==
    /\ Take(message)
    /\ screen = "settings"
    /\ saving' = IF Validate(GetConfig)
                 THEN [call |-> "write", leave |-> message = "save and leave"]
                 ELSE NotSaving
    /\ UNCHANGED <<file, cfg, screen, edit>>

-----------------------------------------------------------------------------
(* SaveToYAML and the end of handleSettingsSave.  Nothing ever reads the    *)
(* backup or a temporary file that was left behind.                        *)

WriteStep ==
    /\ saving.call = "write"
    /\ saving' = [saving EXCEPT !.call = "rename"]
    /\ UNCHANGED <<cfg, screen, pending, edit>>

\* Fault: the file itself is written.
WriteTemp_InPlace == WriteStep /\ file' = Unreadable

\* The backup, then the temporary file and its sync.
WriteTemp == WriteStep /\ UNCHANGED file

RenameTemp ==
    /\ saving.call = "rename"
    /\ saving' = NotSaving
    /\ file' = GetConfig
    /\ cfg' = GetConfig
    /\ SetConfig(GetConfig)
    /\ screen' = IF saving.leave THEN "menu" ELSE "settings"
    /\ UNCHANGED pending

\* Any of the calls.
SaveFails ==
    /\ saving # NotSaving
    /\ saving' = NotSaving
    /\ UNCHANGED <<file, cfg, screen, pending, edit>>

Save == WriteTemp \/ RenameTemp \/ SaveFails

-----------------------------------------------------------------------------
FieldKey ==
    \/ \E f \in Fields : \E t \in Texts[f] : EditField(f, t)
    \/ \E id \in DOMAIN rows, delta \in {-1, 1} : CycleRow(id, delta)

Next ==
    \/ Restart
    \/ OpenSettings
    \/ FieldKey
    \/ EditorKey
    \/ AskSave
    \/ Leave
    \/ Answer
    \/ \E message \in Messages : DropMessage(message)
    \/ HandleBack
    \/ HandleDiscard
    \/ \E message \in {"save", "save and leave"} : HandleSave(message)
    \/ Save

Spec == Init /\ [][Next]_vars

-----------------------------------------------------------------------------
\* A gateway that starts now reads the file and accepts what it says.
Usable(f) == Readable(f) /\ Validate(Load(f))

(* The screen that shows something else than the configuration it was made  *)
(* from knows it, so that leaving asks first: after any sequence of edits,  *)
(* saves, discards and messages that come late (hasChanges of the screen    *)
(* and of the antenna editor).                                              *)
UnsavedIsNoticed ==
    values # FieldValues(cfg) \/ draft # cfg.antennas \/ rows # ProtocolRows(cfg)
        => hasChanges

(* A save writes the antennas as the editor has them: the protocol rows,    *)
(* which GetConfig takes last, never bring back an older protocol           *)
(* (setDraftProtocol, syncProtocolFieldsFromDraft).                         *)
SavedAntennasAreTheDraft == [][file' # file => file'.antennas = draft]_vars

(* A file the gateway starts with stays one it starts with, whatever is     *)
(* saved, whichever call of the save fails and wherever the program is      *)
(* killed (Validate before SaveToYAML, the rename of the temporary file).   *)
FileStaysUsable == [][Usable(file) => Usable(file')]_vars

(* What the next start reads from the file is the configuration the screen  *)
(* was left with: writing and loading it lose nothing but the address of    *)
(* the health endpoint (the pointers of the limits, ApplyDefaults).         *)
NextStartSeesTheSame ==
    saving = NotSaving =>
        [Load(file) EXCEPT !.health_listen_addr = ""] = [cfg EXCEPT !.health_listen_addr = ""]

(* The comment of copyConfig: it preserves all fields.  So a save changes   *)
(* no field the screen does not show.                                       *)
HealthAddressIsKept ==
    [][file' # file => Load(file').health_listen_addr = Load(file).health_listen_addr]_vars
=============================================================================
