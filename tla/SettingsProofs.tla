---------------------------- MODULE SettingsProofs ----------------------------
(***************************************************************************)
(* Proofs about the settings screen: for every set of ids and of texts,    *)
(* every sequence of protocols, every file to start with and every bound.  *)
(*                                                                         *)
(* The invariant relates the two copies of the antennas (rows and draft),  *)
(* the two flags that something changed, and the configuration in memory   *)
(* to the file: what the next start would load is what is shown, but for   *)
(* the address of the health endpoint, which a save leaves out.            *)
(***************************************************************************)
EXTENDS Settings, SequenceTheorems, TLAPS

Savings == [call : {"none", "write", "rename"}, leave : BOOLEAN]

Forms ==
    {Closed} \cup
    [mode : {"form"}, at : 0..Len(draft), protocol : Strings, located : BOOLEAN]

\* A limit is set once ApplyDefaults has been there.
Set(c) == c \in Configs /\ c.warning_threshold # Unset

(* Types.  The position in an open form is one of the draft: nothing takes  *)
(* an antenna away below it (antennaEditorModel.Update).                   *)
TypeInv ==
    /\ file = Unreadable \/ file \in Configs
    /\ saving \in Savings
    /\ saving.call = "none" => saving = NotSaving
    /\ Set(cfg)
    /\ screen \in {"menu", "settings"}
    /\ pending \subseteq Messages
    /\ values \in [Fields -> Strings]
    /\ rows \in [DOMAIN rows -> Strings]
    /\ draft \in Seq(Antennas)
    /\ form \in Forms
    /\ prompt \in {"none", "save", "exit"}
    /\ hasChanges \in BOOLEAN
    /\ editorChanged \in BOOLEAN

Shown == values = FieldValues(cfg) /\ draft = cfg.antennas /\ rows = ProtocolRows(cfg)

ChangeInv ==
    /\ editorChanged => hasChanges
    /\ ~hasChanges => Shown

Sole(antennas, i) == \A j \in DOMAIN antennas : antennas[j].id = antennas[i].id => j = i

Agree(antennas, protocols) ==
    \A i \in DOMAIN antennas :
        antennas[i].id \in DOMAIN protocols /\ Sole(antennas, i)
            => protocols[antennas[i].id] = antennas[i].protocol

RowsInv == Agree(draft, rows)

SaveInv == saving # NotSaving => Validate(GetConfig)

ButHealth(c) == [c EXCEPT !.health_listen_addr = ""]

DiskInv == ButHealth(Load(file)) = ButHealth(cfg)

IInv == TypeInv /\ ChangeInv /\ RowsInv /\ SaveInv /\ DiskInv

-----------------------------------------------------------------------------
(* The operators.                                                          *)

LEMMA UnsetIsAnInteger == Unset \in Int /\ Unset # 0 /\ Unset # 1000
BY DEF Unset

\* There is a protocol, and the selectors only show protocols.
LEMMA CycleIsText ==
    ASSUME NEW protocol, NEW delta \in {-1, 1}
    PROVE  Cycle(protocol, delta) \in Strings
<1>1. Protocols \in Seq(Strings) /\ DOMAIN Protocols = 1 .. Len(Protocols)
      /\ Len(Protocols) \in Nat
  BY SettingsAssumption, LenProperties
<1>2. Len(Protocols) > 0
  <2>1. "generic" \in ToSet(Protocols)
    BY SettingsAssumption
  <2>2. PICK n \in DOMAIN Protocols : Protocols[n] = "generic"
    BY <2>1 DEF ToSet
  <2> QED  BY <1>1, <2>2
<1>3. Position(protocol) \in 1 .. Len(Protocols)
  <2>1. CASE protocol \in ToSet(Protocols)
    BY <1>1, <2>1 DEF Position, ToSet
  <2>2. CASE protocol \notin ToSet(Protocols)
    BY <1>2, <1>1, <2>2 DEF Position
  <2> QED  BY <2>1, <2>2
<1> DEFINE n == ((Position(protocol) - 1 + delta) % Len(Protocols)) + 1
<1>4. n \in 1 .. Len(Protocols)
  BY <1>1, <1>2, <1>3
<1>5. Protocols[n] \in Strings
  BY <1>1, <1>4, ElementOfSeq
<1> QED  BY <1>5 DEF Cycle

LEMMA DefaultProtocols ==
    ASSUME NEW antennas \in Seq(Antennas)
    PROVE  /\ WithProtocols(antennas) \in Seq(Antennas)
           /\ "" \notin {antennas[i].protocol : i \in DOMAIN antennas}
                => WithProtocols(antennas) = antennas
<1>1. /\ DOMAIN antennas = 1 .. Len(antennas) /\ Len(antennas) \in Nat
      /\ antennas = [i \in DOMAIN antennas |-> antennas[i]]
  BY LenProperties
<1>2. ASSUME NEW i \in DOMAIN antennas
      PROVE  /\ WithProtocols(antennas)[i] \in Antennas
             /\ antennas[i].protocol # "" => WithProtocols(antennas)[i] = antennas[i]
  <2> DEFINE protocol == IF antennas[i].protocol = "" THEN "generic"
                         ELSE antennas[i].protocol
  <2>1. antennas[i] \in Antennas
    BY <1>1, ElementOfSeq
  <2>2. protocol \in Strings
    BY <2>1, SettingsAssumption DEF Antennas
  <2>3. WithProtocols(antennas)[i] = [antennas[i] EXCEPT !.protocol = protocol]
    BY DEF WithProtocols
  <2>4. [antennas[i] EXCEPT !.protocol = protocol] \in Antennas
    <3> HIDE DEF protocol
    <3> QED  BY <2>1, <2>2 DEF Antennas
  <2>5. antennas[i].protocol # ""
          => [antennas[i] EXCEPT !.protocol = antennas[i].protocol] = antennas[i]
    BY <2>1 DEF Antennas
  <2> QED  BY <2>3, <2>4, <2>5
<1>3. WithProtocols(antennas) \in [1 .. Len(antennas) -> Antennas]
  BY <1>1, <1>2 DEF WithProtocols
<1>4. WithProtocols(antennas) \in Seq(Antennas)
  BY <1>1, <1>3, SeqDef
<1>5. ASSUME \A i \in DOMAIN antennas : antennas[i].protocol # ""
      PROVE  WithProtocols(antennas) = antennas
  <2>1. \A i \in DOMAIN antennas : WithProtocols(antennas)[i] = antennas[i]
    BY <1>2, <1>5
  <2>2. WithProtocols(antennas) = [i \in DOMAIN antennas |-> WithProtocols(antennas)[i]]
    BY DEF WithProtocols
  <2> QED  BY <1>1, <2>1, <2>2
<1> QED  BY <1>4, <1>5

LEMMA DefaultsAreSet ==
    ASSUME NEW c \in Configs
    PROVE  Set(ApplyDefaults(c))
<1>1. 1000 \in Limits
  BY LimitAssumption DEF Limits
<1>2. ApplyDefaults(c) \in Configs
  <2>1. /\ c.company_id \in Strings /\ c.web_access_mode \in Strings
        /\ c.web_listen_addr \in Strings /\ c.web_auth_token \in Strings
        /\ c.warning_threshold \in Limits /\ c.health_listen_addr \in Strings
        /\ c.antennas \in Seq(Antennas)
    BY DEF Configs
  <2> DEFINE mode == IF c.web_access_mode = "" THEN "local" ELSE c.web_access_mode
             listen == IF c.web_listen_addr = "" THEN "127.0.0.1" ELSE c.web_listen_addr
             health == IF c.health_listen_addr = "" THEN "127.0.0.1"
                       ELSE c.health_listen_addr
             limit == IF c.warning_threshold = Unset THEN 1000 ELSE c.warning_threshold
             antennas == WithProtocols(c.antennas)
  <2>2. /\ mode \in Strings /\ listen \in Strings /\ health \in Strings /\ limit \in Limits
        /\ antennas \in Seq(Antennas)
    BY <1>1, <2>1, SettingsAssumption, DefaultProtocols
  <2>3. ApplyDefaults(c) =
        [c EXCEPT !.web_access_mode = mode, !.web_listen_addr = listen,
                  !.health_listen_addr = health, !.warning_threshold = limit,
                  !.antennas = antennas]
    BY DEF ApplyDefaults
  <2> HIDE DEF mode, listen, health, limit, antennas
  <2> QED  BY <2>1, <2>2, <2>3 DEF Configs
<1>3. ApplyDefaults(c).warning_threshold # Unset
  BY UnsetIsAnInteger DEF ApplyDefaults, Configs
<1> QED  BY <1>2, <1>3 DEF Set

LEMMA LoadIsSet ==
    ASSUME NEW f, f = Unreadable \/ f \in Configs
    PROVE  Set(Load(f))
<1>1. CASE Readable(f)
  BY <1>1, DefaultsAreSet DEF Load, Readable
<1>2. CASE ~Readable(f)
  BY <1>2, SettingsAssumption, LimitAssumption DEF Load, Set
<1> QED  BY <1>1, <1>2

\* Every limit that is set has a text.
LEMMA LimitHasText ==
    ASSUME NEW n \in Limits, n # Unset
    PROVE  ThresholdText(n) \in Strings
<1>1. CASE n = 0
  <2>1. ThresholdText(n) = "0 (never)"
    BY <1>1 DEF ThresholdText
  <2> QED  BY <2>1, SettingsAssumption
<1>2. CASE n # 0
  <2>1. PICK t \in DOMAIN Numerals : Numerals[t] = n
    BY <1>2 DEF Limits
  <2>2. t \in DOMAIN QueueCaps /\ QueueCaps[t] = n
    BY <2>1 DEF QueueCaps
  <2>3. (CHOOSE u \in DOMAIN QueueCaps : QueueCaps[u] = n) \in DOMAIN QueueCaps
    BY <2>2
  <2>4. DOMAIN QueueCaps \subseteq Strings
    BY SettingsAssumption DEF QueueCaps
  <2> QED  BY <1>2, <2>3, <2>4 DEF ThresholdText
<1> QED  BY <1>1, <1>2

\* What is read from the text of a limit is a limit.
LEMMA TextGivesLimit ==
    ASSUME NEW t \in DOMAIN QueueCaps
    PROVE  QueueCaps[t] \in Limits /\ QueueCaps[t] # Unset
<1>1. CASE t \in DOMAIN Numerals
  <2>1. QueueCaps[t] = Numerals[t]
    BY <1>1 DEF QueueCaps
  <2>2. Numerals[t] # Unset
    BY <1>1, SettingsAssumption
  <2> QED  BY <1>1, <2>1, <2>2 DEF Limits
<1>2. CASE t \notin DOMAIN Numerals
  <2>1. QueueCaps[t] = 0
    BY <1>2 DEF QueueCaps
  <2>2. Unset # 0
    BY DEF Unset
  <2> QED  BY <2>1, <2>2 DEF Limits
<1> QED  BY <1>1, <1>2

LEMMA FieldValuesAreTexts ==
    ASSUME NEW c, Set(c)
    PROVE  FieldValues(c) \in [Fields -> Strings]
<1>1. /\ c.company_id \in Strings /\ c.web_access_mode \in Strings
      /\ c.web_auth_token \in Strings
  BY DEF Set, Configs
<1>2. ThresholdText(c.warning_threshold) \in Strings
  BY LimitHasText DEF Set, Configs
<1>3. \A f \in Fields : FieldValues(c)[f] \in Strings
  BY <1>1, <1>2 DEF FieldValues, Fields
<1> QED  BY <1>3 DEF FieldValues

LEMMA AntennaOfSeq ==
    ASSUME NEW antennas \in Seq(Antennas), NEW i \in DOMAIN antennas
    PROVE  /\ antennas[i] \in Antennas
           /\ antennas[i].id \in Ids
           /\ antennas[i].protocol \in Strings
           /\ antennas[i].located \in BOOLEAN
           /\ antennas[i] \in ToSet(antennas)
<1>1. antennas[i] \in Antennas
  BY LenProperties, ElementOfSeq
<1> QED  BY <1>1 DEF Antennas, ToSet

\* The antenna that is found by its id, and the only one when no other has it.
LEMMA FoundAntenna ==
    ASSUME NEW antennas \in Seq(Antennas), NEW id,
           \E a \in ToSet(antennas) : a.id = id
    PROVE  LET found == CHOOSE a \in ToSet(antennas) : a.id = id
           IN  /\ found.protocol \in Strings
               /\ \A i \in DOMAIN antennas :
                     antennas[i].id = id /\ Sole(antennas, i) => found = antennas[i]
<1> DEFINE found == CHOOSE a \in ToSet(antennas) : a.id = id
<1>1. found \in ToSet(antennas) /\ found.id = id
  OBVIOUS
<1> HIDE DEF found
<1>2. PICK j \in DOMAIN antennas : found = antennas[j]
  BY <1>1 DEF ToSet
<1>3. found.protocol \in Strings
  BY <1>2, AntennaOfSeq
<1>4. ASSUME NEW i \in DOMAIN antennas, antennas[i].id = id, Sole(antennas, i)
      PROVE  found = antennas[i]
  BY <1>1, <1>2, <1>4 DEF Sole
<1> QED  BY <1>3, <1>4 DEF found

LEMMA RowsOfConfiguration ==
    ASSUME NEW c \in Configs
    PROVE  /\ ProtocolRows(c) \in [DOMAIN ProtocolRows(c) -> Strings]
           /\ Agree(c.antennas, ProtocolRows(c))
<1> DEFINE ids == {a.id : a \in ToSet(c.antennas)}
<1>1. c.antennas \in Seq(Antennas)
  BY DEF Configs
<1>2. \A id \in ids : \E a \in ToSet(c.antennas) : a.id = id
  OBVIOUS
<1>3. ASSUME NEW id \in ids
      PROVE  ProtocolRows(c)[id] \in Strings
  BY <1>1, <1>2, FoundAntenna DEF ProtocolRows
<1>4. DOMAIN ProtocolRows(c) = ids
  BY DEF ProtocolRows
<1>5. ASSUME NEW i \in DOMAIN c.antennas, Sole(c.antennas, i), c.antennas[i].id \in ids
      PROVE  ProtocolRows(c)[c.antennas[i].id] = c.antennas[i].protocol
  <2> DEFINE id == c.antennas[i].id
  <2>1. ProtocolRows(c)[id] = (CHOOSE a \in ToSet(c.antennas) : a.id = id).protocol
    BY <1>5 DEF ProtocolRows
  <2>2. \E a \in ToSet(c.antennas) : a.id = id
    BY <1>1, AntennaOfSeq
  <2>3. (CHOOSE a \in ToSet(c.antennas) : a.id = id) = c.antennas[i]
    BY <1>1, <1>5, <2>2, FoundAntenna
  <2> QED  BY <2>1, <2>3
<1>6. ProtocolRows(c) \in [ids -> Strings]
  BY <1>3 DEF ProtocolRows
<1> QED  BY <1>4, <1>5, <1>6 DEF Agree

\* syncProtocolFieldsFromDraft, for any antennas and any rows.
Synced(antennas, protocols) ==
    [id \in DOMAIN protocols |->
        IF \E a \in ToSet(antennas) : a.id = id
        THEN (CHOOSE a \in ToSet(antennas) : a.id = id).protocol
        ELSE protocols[id]]

LEMMA SyncedRows ==
    ASSUME NEW antennas \in Seq(Antennas), NEW protocols,
           protocols \in [DOMAIN protocols -> Strings]
    PROVE  /\ Synced(antennas, protocols) \in [DOMAIN protocols -> Strings]
           /\ Agree(antennas, Synced(antennas, protocols))
<1>1. ASSUME NEW id \in DOMAIN protocols
      PROVE  Synced(antennas, protocols)[id] \in Strings
  <2>1. CASE \E a \in ToSet(antennas) : a.id = id
    BY <2>1, FoundAntenna DEF Synced
  <2>2. CASE ~\E a \in ToSet(antennas) : a.id = id
    BY <2>2 DEF Synced
  <2> QED  BY <2>1, <2>2
<1>2. ASSUME NEW i \in DOMAIN antennas, Sole(antennas, i),
             antennas[i].id \in DOMAIN protocols
      PROVE  Synced(antennas, protocols)[antennas[i].id] = antennas[i].protocol
  <2> DEFINE id == antennas[i].id
  <2>1. \E a \in ToSet(antennas) : a.id = id
    BY AntennaOfSeq
  <2>2. Synced(antennas, protocols)[id] =
        (CHOOSE a \in ToSet(antennas) : a.id = id).protocol
    BY <1>2, <2>1 DEF Synced
  <2>3. (CHOOSE a \in ToSet(antennas) : a.id = id) = antennas[i]
    BY <1>2, <2>1, FoundAntenna
  <2> QED  BY <2>2, <2>3
<1>3. DOMAIN Synced(antennas, protocols) = DOMAIN protocols
  BY DEF Synced
<1>4. Synced(antennas, protocols) \in [DOMAIN protocols -> Strings]
  BY <1>1 DEF Synced
<1> QED  BY <1>2, <1>3, <1>4 DEF Agree

\* Nothing changed: the rows are found again.
LEMMA SyncedUnchanged ==
    ASSUME NEW c \in Configs
    PROVE  Synced(c.antennas, ProtocolRows(c)) = ProtocolRows(c)
BY DEF Synced, ProtocolRows

-----------------------------------------------------------------------------
(* What a save writes.                                                     *)

LEMMA WithRowsProperties ==
    ASSUME TypeInv
    PROVE  /\ WithRows(draft) \in Seq(Antennas)
           /\ DOMAIN WithRows(draft) = DOMAIN draft
           /\ \A i \in DOMAIN draft : WithRows(draft)[i].id = draft[i].id
<1>1. draft \in Seq(Antennas) /\ DOMAIN draft = 1 .. Len(draft) /\ Len(draft) \in Nat
  BY LenProperties DEF TypeInv
<1>2. ASSUME NEW i \in DOMAIN draft
      PROVE  WithRows(draft)[i] \in Antennas /\ WithRows(draft)[i].id = draft[i].id
  <2>1. CASE draft[i].id \in DOMAIN rows
    <3>1. rows[draft[i].id] \in Strings
      BY <2>1 DEF TypeInv
    <3>2. draft[i] \in Antennas
      BY <1>1, AntennaOfSeq
    <3>3. WithRows(draft)[i] = [draft[i] EXCEPT !.protocol = rows[draft[i].id]]
      BY <2>1 DEF WithRows
    <3> QED  BY <3>1, <3>2, <3>3 DEF Antennas
  <2>2. CASE draft[i].id \notin DOMAIN rows
    <3>1. WithRows(draft)[i] = draft[i]
      BY <2>2 DEF WithRows
    <3> QED  BY <1>1, <3>1, AntennaOfSeq
  <2> QED  BY <2>1, <2>2
<1>3. WithRows(draft) \in Seq(Antennas)
  <2>1. WithRows(draft) \in [1 .. Len(draft) -> Antennas]
    BY <1>1, <1>2 DEF WithRows
  <2> QED  BY <1>1, <2>1, SeqDef
<1> QED  BY <1>2, <1>3 DEF WithRows

LEMMA GetConfigIsSet ==
    ASSUME TypeInv
    PROVE  /\ Set(GetConfig)
           /\ GetConfig.health_listen_addr = ""
           /\ GetConfig.web_access_mode = values["web_access_mode"]
           /\ GetConfig.antennas = WithRows(draft)
<1> DEFINE listen == CASE values["web_access_mode"] = "local" -> "127.0.0.1"
                       [] values["web_access_mode"] = "lan"   -> "0.0.0.0"
                       [] OTHER                               -> cfg.web_listen_addr
           limit == IF values["warning_threshold"] \in DOMAIN QueueCaps
                    THEN QueueCaps[values["warning_threshold"]] ELSE cfg.warning_threshold
<1>1. cfg \in Configs /\ cfg.warning_threshold # Unset
  BY DEF TypeInv, Set
<1>2. /\ cfg.company_id \in Strings /\ cfg.web_access_mode \in Strings
      /\ cfg.web_listen_addr \in Strings /\ cfg.web_auth_token \in Strings
      /\ cfg.warning_threshold \in Limits
  BY <1>1 DEF Configs
<1>3. /\ values["company_id"] \in Strings /\ values["web_access_mode"] \in Strings
      /\ values["web_auth_token"] \in Strings
  BY DEF TypeInv, Fields
<1>4. listen \in Strings /\ "" \in Strings
  <2>1. {"", "127.0.0.1", "0.0.0.0"} \subseteq Strings
    BY SettingsAssumption
  <2> QED  BY <1>2, <2>1
<1>5. limit \in Limits /\ limit # Unset
  BY <1>1, <1>2, TextGivesLimit
<1>6. GetConfig =
      [[cfg EXCEPT !.health_listen_addr = ""] EXCEPT
          !.company_id = values["company_id"],
          !.web_access_mode = values["web_access_mode"],
          !.web_auth_token = values["web_auth_token"],
          !.web_listen_addr = listen,
          !.warning_threshold = limit,
          !.antennas = WithRows(draft)]
  <2>1. [cfg EXCEPT !.health_listen_addr = ""].web_listen_addr = cfg.web_listen_addr
    BY <1>1 DEF Configs
  <2>2. [cfg EXCEPT !.health_listen_addr = ""].warning_threshold = cfg.warning_threshold
    BY <1>1 DEF Configs
  <2> QED  BY <2>1, <2>2 DEF GetConfig, copyConfig
<1> HIDE DEF listen, limit
<1>7. WithRows(draft) \in Seq(Antennas)
  BY WithRowsProperties
<1> QED  BY <1>1, <1>3, <1>4, <1>5, <1>6, <1>7 DEF Set, Configs

\* What Validate accepts is read back as it was written.
LEMMA WrittenIsRead ==
    ASSUME TypeInv, Validate(GetConfig)
    PROVE  /\ Readable(GetConfig)
           /\ Validate(Load(GetConfig))
           /\ ButHealth(Load(GetConfig)) = ButHealth(GetConfig)
<1> DEFINE g == GetConfig
<1>1. g \in Configs /\ g.warning_threshold # Unset /\ g.health_listen_addr = ""
  BY GetConfigIsSet DEF Set
<1>2. Validate(g)
  OBVIOUS
<1> HIDE DEF g
<1>3. g.web_access_mode # "" /\ g.web_listen_addr # ""
  BY <1>2 DEF Validate
<1>4. Readable(g)
  <2>1. g # Unreadable
    BY <1>1, SettingsAssumption
  <2> QED  BY <1>1, <1>3, <2>1 DEF Readable
<1>5. Load(g) = [g EXCEPT !.health_listen_addr = "127.0.0.1"]
  <2>1. g.antennas \in Seq(Antennas)
    BY <1>1 DEF Configs
  <2>2. \A i \in DOMAIN g.antennas : g.antennas[i].protocol # ""
    BY <1>2, SettingsAssumption DEF Validate, AntennasValid
  <2>3. WithProtocols(g.antennas) = g.antennas
    BY <2>1, <2>2, DefaultProtocols
  <2> QED  BY <1>1, <1>3, <1>4, <2>3 DEF Load, ApplyDefaults, Configs
<1>6. Validate(Load(g))
  BY <1>1, <1>2, <1>5 DEF Validate, Configs
<1>7. ButHealth(Load(g)) = ButHealth(g)
  BY <1>1, <1>5 DEF ButHealth, Configs
<1> QED  BY <1>4, <1>6, <1>7 DEF g

\* No antenna that a save writes has an older protocol in its row.
LEMMA WrittenAntennas ==
    ASSUME TypeInv, RowsInv, Validate(GetConfig)
    PROVE  GetConfig.antennas = draft
<1>1. GetConfig.antennas = WithRows(draft)
  BY GetConfigIsSet
<1>2. UniqueIDs(WithRows(draft))
  BY <1>1 DEF Validate, AntennasValid
<1>3. ASSUME NEW i \in DOMAIN draft
      PROVE  WithRows(draft)[i] = draft[i]
  <2>1. Sole(draft, i)
    BY <1>2, WithRowsProperties DEF UniqueIDs, Sole
  <2>2. CASE draft[i].id \in DOMAIN rows
    <3>1. rows[draft[i].id] = draft[i].protocol
      BY <2>1, <2>2 DEF RowsInv, Agree
    <3>2. WithRows(draft)[i] = [draft[i] EXCEPT !.protocol = draft[i].protocol]
      BY <2>2, <3>1 DEF WithRows
    <3>3. draft[i] \in Antennas
      BY AntennaOfSeq DEF TypeInv
    <3> QED  BY <3>2, <3>3 DEF Antennas
  <2>3. CASE draft[i].id \notin DOMAIN rows
    BY <2>3 DEF WithRows
  <2> QED  BY <2>2, <2>3
<1>4. draft = [i \in DOMAIN draft |-> draft[i]]
  <2>1. draft \in [1 .. Len(draft) -> Antennas] /\ DOMAIN draft = 1 .. Len(draft)
    BY LenProperties DEF TypeInv
  <2> QED  BY <2>1
<1>5. WithRows(draft) = [i \in DOMAIN draft |-> WithRows(draft)[i]]
  BY DEF WithRows
<1>6. WithRows(draft) = draft
  BY <1>3, <1>4, <1>5
<1> QED  BY <1>1, <1>6

-----------------------------------------------------------------------------
(* The steps.                                                              *)

LEMMA ConfigurationShown ==
    ASSUME NEW c, Set(c)
    PROVE  /\ FieldValues(c) \in [Fields -> Strings]
           /\ ProtocolRows(c) \in [DOMAIN ProtocolRows(c) -> Strings]
           /\ c.antennas \in Seq(Antennas)
           /\ Agree(c.antennas, ProtocolRows(c))
<1>1. c \in Configs
  BY DEF Set
<1>2. c.antennas \in Seq(Antennas)
  BY <1>1 DEF Configs
<1> QED  BY <1>1, <1>2, FieldValuesAreTexts, RowsOfConfiguration

LEMMA InitInv == Init => IInv
<1> SUFFICES ASSUME Init PROVE IInv
  OBVIOUS
<1>1. file = Unreadable \/ file \in Configs
  BY SettingsAssumption DEF Init
<1>2. Set(cfg)
  BY <1>1, LoadIsSet DEF Init
<1>3. /\ values = FieldValues(cfg) /\ rows = ProtocolRows(cfg) /\ draft = cfg.antennas
      /\ cfg = Load(file) /\ saving = NotSaving /\ form = Closed
      /\ hasChanges = FALSE /\ editorChanged = FALSE
  BY DEF Init
<1>4. TypeInv
  <2>1. saving \in Savings
    BY <1>3 DEF NotSaving, Savings
  <2>2. screen \in {"menu", "settings"} /\ pending \subseteq Messages
        /\ prompt \in {"none", "save", "exit"}
    BY DEF Init
  <2> QED  BY <1>1, <1>2, <1>3, <2>1, <2>2, ConfigurationShown DEF TypeInv, Forms
<1>5. ChangeInv
  BY <1>3 DEF ChangeInv, Shown
<1>6. RowsInv
  BY <1>2, <1>3, ConfigurationShown DEF RowsInv
<1>7. SaveInv /\ DiskInv
  BY <1>3 DEF SaveInv, DiskInv
<1> QED  BY <1>4, <1>5, <1>6, <1>7 DEF IInv

\* SetConfig makes the screen and the editor anew.
LEMMA Renewed ==
    ASSUME NEW c, Set(c), SetConfig(c), cfg' = c
    PROVE  /\ values' \in [Fields -> Strings]
           /\ rows' \in [DOMAIN rows' -> Strings]
           /\ draft' \in Seq(Antennas)
           /\ form' \in Forms'
           /\ prompt' \in {"none", "save", "exit"}
           /\ hasChanges' \in BOOLEAN /\ editorChanged' \in BOOLEAN
           /\ ChangeInv'
           /\ RowsInv'
<1>1. /\ values' = FieldValues(c) /\ rows' = ProtocolRows(c) /\ draft' = c.antennas
      /\ form' = Closed /\ prompt' = "none"
      /\ hasChanges' = FALSE /\ editorChanged' = FALSE
  BY DEF SetConfig
<1>2. ChangeInv'
  BY <1>1 DEF ChangeInv, Shown
<1>3. Agree(draft', rows')
  BY <1>1, ConfigurationShown
<1>4. RowsInv'
  BY <1>3 DEF RowsInv
<1>5. form' \in Forms'
  BY <1>1 DEF Forms
<1> QED  BY <1>1, <1>2, <1>4, <1>5, ConfigurationShown

\* What leaves the configuration and the edits alone, outside a save.
LEMMA Still ==
    ASSUME IInv, saving = NotSaving,
           UNCHANGED <<disk, cfg, values, rows, draft, form, hasChanges, editorChanged>>,
           screen' \in {"menu", "settings"}, pending' \subseteq Messages,
           prompt' \in {"none", "save", "exit"}
    PROVE  IInv'
<1>1. TypeInv'
  BY DEF IInv, TypeInv, disk, Forms
<1>2. ChangeInv'
  BY DEF IInv, ChangeInv, Shown
<1>3. RowsInv'
  BY DEF IInv, RowsInv
<1>4. SaveInv'
  BY DEF SaveInv, disk
<1>5. DiskInv'
  BY DEF IInv, DiskInv, disk
<1> QED  BY <1>1, <1>2, <1>3, <1>4, <1>5 DEF IInv

LEMMA RestartStep == IInv /\ Restart => IInv'
<1> SUFFICES ASSUME IInv, Restart PROVE IInv'
  OBVIOUS
<1>1. /\ saving' = NotSaving /\ cfg' = Load(file) /\ file' = file
      /\ screen' = "menu" /\ pending' = {} /\ SetConfig(cfg')
  BY DEF Restart
<1>2. Set(cfg') /\ (file' = Unreadable \/ file' \in Configs)
  BY <1>1, LoadIsSet DEF IInv, TypeInv
<1>3. TypeInv' /\ ChangeInv' /\ RowsInv'
  <2>1. saving' \in Savings
    BY <1>1 DEF NotSaving, Savings
  <2> QED  BY <1>1, <1>2, <2>1, Renewed DEF TypeInv
<1>4. SaveInv' /\ DiskInv'
  BY <1>1 DEF SaveInv, DiskInv
<1> QED  BY <1>3, <1>4 DEF IInv

\* Outside the form it is closed.
LEMMA ListIsClosed ==
    ASSUME TypeInv, form.mode = "list"
    PROVE  form = Closed
BY DEF TypeInv, Forms

LEMMA OpenForm ==
    ASSUME TypeInv, form.mode = "form"
    PROVE  /\ form.at \in 0 .. Len(draft)
           /\ form.protocol \in Strings
           /\ form.located \in BOOLEAN
           /\ form = [mode |-> "form", at |-> form.at, protocol |-> form.protocol,
                      located |-> form.located]
BY DEF TypeInv, Forms, Closed

LEMMA EditFieldStep ==
    ASSUME IInv, NEW f \in Fields, NEW t \in Texts[f], EditField(f, t)
    PROVE  IInv'
<1>1. /\ values' = [values EXCEPT ![f] = t] /\ hasChanges' = (hasChanges \/ values[f] # t)
      /\ UNCHANGED <<disk, cfg, screen, pending, rows, draft, form, prompt, editorChanged>>
      /\ saving = NotSaving
  BY DEF EditField, Only, Browsing, Keys
<1>2. t \in Strings
  BY SettingsAssumption
<1>3. values \in [Fields -> Strings] /\ hasChanges \in BOOLEAN
  BY DEF IInv, TypeInv
<1>4. values' \in [Fields -> Strings]
  BY <1>1, <1>2, <1>3
<1>5. TypeInv'
  BY <1>1, <1>3, <1>4 DEF IInv, TypeInv, disk, Forms
<1>6. ChangeInv'
  <2>1. CASE values[f] = t
    <3>1. values' = values
      BY <1>1, <1>3, <2>1
    <3> QED  BY <1>1, <1>3, <2>1, <3>1 DEF IInv, ChangeInv, Shown
  <2>2. CASE values[f] # t
    BY <1>1, <2>2 DEF ChangeInv
  <2> QED  BY <2>1, <2>2
<1>7. RowsInv' /\ SaveInv' /\ DiskInv'
  BY <1>1 DEF IInv, RowsInv, SaveInv, DiskInv, disk
<1> QED  BY <1>5, <1>6, <1>7 DEF IInv

LEMMA CycleRowStep ==
    ASSUME IInv, NEW id \in DOMAIN rows, NEW delta \in {-1, 1}, CycleRow(id, delta)
    PROVE  IInv'
<1> DEFINE protocol == Cycle(rows[id], delta)
           turned(a) == [a EXCEPT !.protocol = protocol,
                                  !.located = a.located /\ protocol = "chainway"]
<1>1. protocol \in Strings
  BY CycleIsText
<1>2. /\ rows' = [rows EXCEPT ![id] = protocol]
      /\ draft' = [i \in DOMAIN draft |->
                      IF draft[i].id # id THEN draft[i] ELSE turned(draft[i])]
      /\ hasChanges' = TRUE
      /\ UNCHANGED <<disk, cfg, screen, pending, values, form, prompt, editorChanged>>
      /\ saving = NotSaving /\ form.mode = "list"
  BY DEF CycleRow, Only, Browsing, Keys
<1> HIDE DEF protocol
<1>3. /\ draft \in Seq(Antennas) /\ DOMAIN draft = 1 .. Len(draft) /\ Len(draft) \in Nat
      /\ rows \in [DOMAIN rows -> Strings]
  BY LenProperties DEF IInv, TypeInv
<1>4. ASSUME NEW a \in Antennas
      PROVE  /\ turned(a) \in Antennas /\ turned(a).id = a.id
             /\ turned(a).protocol = protocol
  <2> DEFINE kept == a.located /\ protocol = "chainway"
  <2>1. kept \in BOOLEAN
    OBVIOUS
  <2>2. turned(a) = [a EXCEPT !.protocol = protocol, !.located = kept]
    OBVIOUS
  <2> HIDE DEF kept
  <2> QED  BY <1>1, <2>1, <2>2 DEF Antennas
<1> HIDE DEF turned
<1>5. ASSUME NEW i \in DOMAIN draft
      PROVE  /\ draft'[i] \in Antennas
             /\ draft'[i].id = draft[i].id
             /\ draft'[i].protocol = IF draft[i].id = id THEN protocol ELSE draft[i].protocol
  <2>1. draft[i] \in Antennas
    BY <1>3, AntennaOfSeq
  <2> QED  BY <1>2, <1>4, <2>1
<1>6. DOMAIN draft' = DOMAIN draft
  BY <1>2
<1>7. draft' \in Seq(Antennas)
  <2>1. draft' \in [1 .. Len(draft) -> Antennas]
    BY <1>2, <1>3, <1>5
  <2> QED  BY <1>3, <2>1, SeqDef
<1>8. rows' \in [DOMAIN rows' -> Strings] /\ DOMAIN rows' = DOMAIN rows
  BY <1>1, <1>2, <1>3
<1>9. TypeInv'
  <2>1. form' = Closed
    BY <1>2, ListIsClosed DEF IInv
  <2> QED  BY <1>2, <1>7, <1>8, <2>1 DEF IInv, TypeInv, disk, Forms
<1>10. ChangeInv'
  BY <1>2 DEF ChangeInv
<1>11. RowsInv'
  <2> SUFFICES ASSUME NEW i \in DOMAIN draft', draft'[i].id \in DOMAIN rows',
                      Sole(draft', i)
               PROVE  rows'[draft'[i].id] = draft'[i].protocol
    BY DEF RowsInv, Agree
  <2>1. draft[i].id \in DOMAIN rows /\ Sole(draft, i)
    BY <1>5, <1>6, <1>8 DEF Sole
  <2>2. rows[draft[i].id] = draft[i].protocol
    BY <1>6, <2>1 DEF IInv, RowsInv, Agree
  <2> QED  BY <1>2, <1>3, <1>5, <1>6, <2>1, <2>2
<1>12. SaveInv' /\ DiskInv'
  BY <1>2 DEF IInv, SaveInv, DiskInv, disk
<1> QED  BY <1>9, <1>10, <1>11, <1>12 DEF IInv

\* A key of the editor, whatever it leaves of the form.
LEMMA EditorTurnStep ==
    ASSUME IInv, NEW antennas \in Seq(Antennas), NEW changed \in BOOLEAN,
           changed \/ antennas = draft, saving = NotSaving,
           EditorTurn(antennas, changed), form' \in Forms'
    PROVE  IInv'
<1>1. /\ draft' = antennas
      /\ editorChanged' = (editorChanged \/ changed)
      /\ hasChanges' = (hasChanges \/ (~editorChanged /\ changed))
      /\ rows' = Synced(antennas, rows)
      /\ UNCHANGED <<disk, cfg, screen, pending, values, prompt>>
  BY DEF EditorTurn, Only, Synced
<1>2. /\ rows \in [DOMAIN rows -> Strings]
      /\ hasChanges \in BOOLEAN /\ editorChanged \in BOOLEAN
      /\ cfg \in Configs
  BY DEF IInv, TypeInv, Set
<1>3. rows' \in [DOMAIN rows -> Strings] /\ Agree(draft', rows')
  BY <1>1, <1>2, SyncedRows
<1>4. TypeInv'
  BY <1>1, <1>2, <1>3 DEF IInv, TypeInv, disk
<1>5. ChangeInv'
  <2>1. CASE hasChanges'
    BY <2>1 DEF ChangeInv
  <2>2. CASE ~hasChanges'
    <3>1. ~hasChanges /\ ~editorChanged /\ ~changed
      BY <1>1, <1>2, <2>2 DEF IInv, ChangeInv
    <3>2. draft' = draft /\ Shown
      BY <1>1, <3>1 DEF IInv, ChangeInv
    <3>3. rows' = ProtocolRows(cfg)
      BY <1>1, <1>2, <3>2, SyncedUnchanged DEF Shown
    <3> QED  BY <1>1, <3>1, <3>2, <3>3 DEF ChangeInv, Shown
  <2> QED  BY <2>1, <2>2
<1>6. RowsInv'
  BY <1>3 DEF RowsInv
<1>7. SaveInv' /\ DiskInv'
  BY <1>1 DEF IInv, SaveInv, DiskInv, disk
<1> QED  BY <1>4, <1>5, <1>6, <1>7 DEF IInv

LEMMA RemovedIsSeq ==
    ASSUME NEW S, NEW s \in Seq(S), NEW i \in DOMAIN s
    PROVE  RemoveAt(s, i) \in Seq(S)
<1>1. DOMAIN s = 1 .. Len(s) /\ Len(s) \in Nat
  BY LenProperties
<1>2. SubSeq(s, 1, i - 1) \in Seq(S) /\ SubSeq(s, i + 1, Len(s)) \in Seq(S)
  BY <1>1, SubSeqProperties, ElementOfSeq
<1> QED  BY <1>2, ConcatProperties DEF RemoveAt

LEMMA EditorKeyStep == IInv /\ EditorKey => IInv'
<1> SUFFICES ASSUME IInv, EditorKey PROVE IInv'
  OBVIOUS
<1>1. TypeInv /\ draft \in Seq(Antennas) /\ DOMAIN draft = 1 .. Len(draft)
      /\ Len(draft) \in Nat
  BY LenProperties DEF IInv, TypeInv
<1>2. CASE StartAdd
  <2>1. saving = NotSaving /\ EditorTurn(draft, FALSE)
        /\ form' = [mode |-> "form", at |-> 0, protocol |-> "generic", located |-> FALSE]
    BY <1>2 DEF StartAdd, Browsing, Keys
  <2>2. draft' = draft
    BY <2>1 DEF EditorTurn
  <2>3. form' \in Forms'
    <3>1. "generic" \in Strings
      BY SettingsAssumption
    <3> QED  BY <1>1, <2>1, <2>2, <3>1 DEF Forms
  <2> QED  BY <1>1, <2>1, <2>3, EditorTurnStep
<1>3. ASSUME NEW i \in DOMAIN draft, StartEdit(i)
      PROVE  IInv'
  <2>1. /\ saving = NotSaving /\ EditorTurn(draft, FALSE)
        /\ form' = [mode |-> "form", at |-> i, protocol |-> draft[i].protocol,
                    located |-> draft[i].located]
    BY <1>3 DEF StartEdit, OnRow, Browsing, Keys
  <2>2. draft' = draft
    BY <2>1 DEF EditorTurn
  <2>3. form' \in Forms'
    BY <1>1, <2>1, <2>2, AntennaOfSeq DEF Forms
  <2> QED  BY <1>1, <2>1, <2>3, EditorTurnStep
<1>4. ASSUME NEW i \in DOMAIN draft, Delete(i)
      PROVE  IInv'
  <2>1. /\ saving = NotSaving /\ EditorTurn(RemoveAt(draft, i), TRUE)
        /\ form' = form /\ form.mode = "list"
    BY <1>4 DEF Delete, OnRow, Browsing, Keys
  <2>2. form' \in Forms'
    BY <1>1, <2>1, ListIsClosed DEF Forms
  <2>3. RemoveAt(draft, i) \in Seq(Antennas)
    BY <1>1, RemovedIsSeq
  <2> QED  BY <2>1, <2>2, <2>3, EditorTurnStep
<1>5. CASE EditForm
  <2>1. saving = NotSaving /\ EditorTurn(draft, FALSE) /\ form.mode = "form"
    BY <1>5 DEF EditForm, Keys
  <2>2. draft' = draft
    BY <2>1 DEF EditorTurn
  <2>3. form' \in Forms'
    <3>1. ASSUME NEW delta \in {-1, 1},
                 form' = [form EXCEPT !.protocol = Cycle(form.protocol, delta),
                                      !.located = @ /\ Cycle(form.protocol, delta) = "chainway"]
          PROVE  form' \in Forms'
      <4> DEFINE protocol == Cycle(form.protocol, delta)
                 kept == form.located /\ protocol = "chainway"
      <4>1. protocol \in Strings /\ kept \in BOOLEAN
        BY CycleIsText
      <4>2. form' = [form EXCEPT !.protocol = protocol, !.located = kept]
        BY <3>1
      <4> HIDE DEF protocol, kept
      <4>3. form' = [mode |-> "form", at |-> form.at, protocol |-> protocol, located |-> kept]
        BY <1>1, <2>1, <4>2, OpenForm
      <4> QED  BY <1>1, <2>1, <2>2, <4>1, <4>3, OpenForm DEF Forms
    <3>2. ASSUME NEW some \in BOOLEAN, form' = [form EXCEPT !.located = some]
          PROVE  form' \in Forms'
      <4>1. form' = [mode |-> "form", at |-> form.at, protocol |-> form.protocol,
                     located |-> some]
        BY <1>1, <2>1, <3>2, OpenForm
      <4> QED  BY <1>1, <2>1, <2>2, <4>1, OpenForm DEF Forms
    <3> QED  BY <1>5, <3>1, <3>2 DEF EditForm
  <2> QED  BY <1>1, <2>1, <2>3, EditorTurnStep
<1>6. CASE CancelForm
  <2>1. saving = NotSaving /\ EditorTurn(draft, FALSE) /\ form' = Closed
    BY <1>6 DEF CancelForm, Keys
  <2>2. form' \in Forms'
    BY <2>1 DEF Forms
  <2> QED  BY <1>1, <2>1, <2>2, EditorTurnStep
<1>7. ASSUME NEW id \in Ids, CommitForm(id)
      PROVE  IInv'
  <2> DEFINE kept == form.located /\ form.protocol = "chainway"
             antenna == [id |-> id, protocol |-> form.protocol, located |-> kept]
             antennas == IF form.at = 0 THEN Append(draft, antenna)
                         ELSE ReplaceAt(draft, form.at, antenna)
  <2>1. saving = NotSaving /\ form.mode = "form" /\ form' = Closed
        /\ EditorTurn(antennas, TRUE)
    BY <1>7 DEF CommitForm, Keys
  <2>2. form' \in Forms'
    BY <2>1 DEF Forms
  <2>3. kept \in BOOLEAN
    OBVIOUS
  <2> HIDE DEF kept
  <2>4. antenna \in Antennas
    BY <1>1, <2>1, <2>3, OpenForm DEF Antennas
  <2> HIDE DEF antenna
  <2>5. CASE form.at = 0
    <3>1. antennas \in Seq(Antennas)
      BY <1>1, <2>4, <2>5, AppendProperties
    <3> HIDE DEF antennas
    <3> QED  BY <2>1, <2>2, <3>1, EditorTurnStep
  <2>6. CASE form.at # 0
    <3>1. form.at \in 1 .. Len(draft)
      BY <1>1, <2>1, <2>6, OpenForm
    <3>2. antennas \in Seq(Antennas)
      BY <1>1, <2>4, <2>6, <3>1, ExceptSeq DEF ReplaceAt
    <3> HIDE DEF antennas
    <3> QED  BY <2>1, <2>2, <3>2, EditorTurnStep
  <2> QED  BY <2>5, <2>6
<1> QED  BY <1>2, <1>3, <1>4, <1>5, <1>6, <1>7 DEF EditorKey

\* The questions, their answers, and messages that save nothing.
LEMMA QuestionStep ==
    ASSUME IInv,
           \/ OpenSettings \/ AskSave \/ Leave \/ Answer \/ HandleBack
           \/ \E message \in Messages : DropMessage(message)
    PROVE  IInv'
<1>1. /\ screen \in {"menu", "settings"} /\ pending \subseteq Messages
      /\ prompt \in {"none", "save", "exit"}
  BY DEF IInv, TypeInv
<1>2. CASE OpenSettings
  BY <1>1, <1>2, Still DEF OpenSettings, disk, edit
<1>3. CASE AskSave
  BY <1>1, <1>3, Still DEF AskSave, Only, Browsing, Keys, disk
<1>4. CASE Leave
  <2>1. pending' \subseteq Messages /\ prompt' \in {"none", "save", "exit"}
    BY <1>1, <1>4 DEF Leave, Command, Messages
  <2> QED  BY <1>1, <1>4, <2>1, Still DEF Leave, Browsing, Keys
<1>5. CASE Answer
  <2>1. pending' \subseteq Messages
    BY <1>1, <1>5 DEF Answer, Command, Messages
  <2> QED  BY <1>1, <1>5, <2>1, Still DEF Answer
<1>6. CASE HandleBack
  BY <1>1, <1>6, Still DEF HandleBack, Take, edit
<1>7. ASSUME NEW message \in Messages, DropMessage(message)
      PROVE  IInv'
  BY <1>1, <1>7, Still DEF DropMessage, Take, edit
<1> QED  BY <1>2, <1>3, <1>4, <1>5, <1>6, <1>7

LEMMA HandleDiscardStep == IInv /\ HandleDiscard => IInv'
<1> SUFFICES ASSUME IInv, HandleDiscard PROVE IInv'
  OBVIOUS
<1>1. /\ UNCHANGED <<file, saving, cfg>> /\ SetConfig(cfg') /\ saving = NotSaving
      /\ screen' = "menu" /\ pending' \subseteq pending
  BY DEF HandleDiscard, Take, disk
<1>2. TypeInv' /\ ChangeInv' /\ RowsInv'
  BY <1>1, Renewed DEF IInv, TypeInv
<1>3. SaveInv' /\ DiskInv'
  BY <1>1 DEF IInv, SaveInv, DiskInv
<1> QED  BY <1>2, <1>3 DEF IInv

\* While a save is under way nothing it writes changes.
LEMMA SavingStep ==
    ASSUME IInv, saving' \in Savings, saving'.call = "none" => saving' = NotSaving,
           saving' # NotSaving => Validate(GetConfig),
           pending' \subseteq Messages, UNCHANGED <<file, cfg, screen, edit>>
    PROVE  IInv'
<1>1. TypeInv'
  BY DEF IInv, TypeInv, edit, Forms
<1>2. ChangeInv' /\ RowsInv' /\ DiskInv'
  BY DEF IInv, ChangeInv, Shown, RowsInv, DiskInv, edit
<1>3. GetConfig' = GetConfig
  BY DEF GetConfig, WithRows, edit
<1>4. SaveInv'
  BY <1>3 DEF SaveInv
<1> QED  BY <1>1, <1>2, <1>4 DEF IInv

LEMMA HandleSaveStep ==
    ASSUME IInv, NEW message \in {"save", "save and leave"}, HandleSave(message)
    PROVE  IInv'
<1>1. CASE Validate(GetConfig)
  BY <1>1, SavingStep DEF HandleSave, Take, Savings, IInv, TypeInv
<1>2. CASE ~Validate(GetConfig)
  BY <1>2, SavingStep DEF HandleSave, Take, Savings, NotSaving, IInv, TypeInv
<1> QED  BY <1>1, <1>2

LEMMA RenameTempStep == IInv /\ RenameTemp => IInv'
<1> SUFFICES ASSUME IInv, RenameTemp PROVE IInv'
  OBVIOUS
<1>1. /\ saving' = NotSaving /\ file' = GetConfig /\ cfg' = GetConfig
      /\ SetConfig(GetConfig) /\ screen' \in {"menu", "settings"} /\ pending' = pending
      /\ saving.call = "rename"
  BY DEF RenameTemp
<1>2. Set(GetConfig)
  BY GetConfigIsSet DEF IInv
<1>3. TypeInv' /\ ChangeInv' /\ RowsInv'
  <2>1. saving' \in Savings
    BY <1>1 DEF NotSaving, Savings
  <2>2. Set(cfg') /\ file' \in Configs
    BY <1>1, <1>2 DEF Set
  <2> QED  BY <1>1, <1>2, <2>1, <2>2, Renewed DEF IInv, TypeInv
<1>4. Validate(GetConfig)
  BY <1>1 DEF IInv, SaveInv, NotSaving
<1>5. ButHealth(Load(file')) = ButHealth(cfg')
  BY <1>1, <1>4, WrittenIsRead DEF IInv
<1>6. SaveInv' /\ DiskInv'
  BY <1>1, <1>5 DEF SaveInv, DiskInv
<1> QED  BY <1>3, <1>6 DEF IInv

LEMMA SaveStep == IInv /\ Save => IInv'
<1> SUFFICES ASSUME IInv, Save PROVE IInv'
  OBVIOUS
<1>1. CASE WriteTemp
  <2>1. saving \in Savings /\ pending \subseteq Messages
    BY DEF IInv, TypeInv
  <2>2. Validate(GetConfig)
    BY <1>1 DEF WriteTemp, WriteStep, IInv, SaveInv, NotSaving
  <2>3. saving' = [saving EXCEPT !.call = "rename"]
    BY <1>1 DEF WriteTemp, WriteStep
  <2>4. saving' \in Savings /\ saving'.call # "none"
    BY <2>1, <2>3 DEF Savings
  <2> QED  BY <1>1, <2>1, <2>2, <2>4, SavingStep DEF WriteTemp, WriteStep
<1>2. CASE RenameTemp
  BY <1>2, RenameTempStep
<1>3. CASE SaveFails
  BY <1>3, SavingStep DEF SaveFails, Savings, NotSaving, IInv, TypeInv
<1> QED  BY <1>1, <1>2, <1>3 DEF Save

LEMMA NextInv == IInv /\ [Next]_vars => IInv'
<1> SUFFICES ASSUME IInv, [Next]_vars PROVE IInv'
  OBVIOUS
<1>1. CASE Restart
  BY <1>1, RestartStep
<1>2. CASE OpenSettings \/ AskSave \/ Leave \/ Answer \/ HandleBack
           \/ \E message \in Messages : DropMessage(message)
  BY <1>2, QuestionStep
<1>3. CASE FieldKey
  BY <1>3, EditFieldStep, CycleRowStep DEF FieldKey
<1>4. CASE EditorKey
  BY <1>4, EditorKeyStep
<1>5. CASE HandleDiscard
  BY <1>5, HandleDiscardStep
<1>6. ASSUME NEW message \in {"save", "save and leave"}, HandleSave(message)
      PROVE  IInv'
  BY <1>6, HandleSaveStep
<1>7. CASE Save
  BY <1>7, SaveStep
<1>8. CASE UNCHANGED vars
  <2>1. UNCHANGED <<file, cfg, screen, edit>> /\ saving' = saving /\ pending' = pending
    BY <1>8 DEF vars, disk
  <2> QED  BY <2>1, SavingStep DEF IInv, TypeInv, SaveInv
<1> QED  BY <1>1, <1>2, <1>3, <1>4, <1>5, <1>6, <1>7, <1>8 DEF Next

-----------------------------------------------------------------------------
(* The theorems.                                                           *)

(* The invariant, and with it the types, hold in every state the program    *)
(* reaches from any of the files (the settings screen and SaveToYAML).     *)
THEOREM SettingsInvariant == Spec => []IInv
<1>1. Init => IInv
  BY InitInv
<1>2. IInv /\ [Next]_vars => IInv'
  BY NextInv
<1> QED  BY <1>1, <1>2, PTL DEF Spec

(* hasChanges is true whenever the screen shows something else than the     *)
(* configuration: no sequence of edits, saves, discards and late messages   *)
(* makes leaving lose a change unasked (hasChanges of the screen and the    *)
(* editor, SetConfig).                                                      *)
THEOREM NothingIsLostUnasked == Spec => []UnsavedIsNoticed
<1>1. IInv => UnsavedIsNoticed
  BY DEF IInv, ChangeInv, Shown, UnsavedIsNoticed
<1> QED  BY <1>1, SettingsInvariant, PTL

(* What the next start loads is what the screen was left with, but for the  *)
(* address of the health endpoint (SaveToYAML, LoadFromYAML,                *)
(* ApplyDefaults): even while a save is under way.                          *)
THEOREM NextStartAgrees == Spec => []NextStartSeesTheSame
<1>1. IInv => NextStartSeesTheSame
  BY DEF IInv, DiskInv, ButHealth, NextStartSeesTheSame
<1> QED  BY <1>1, SettingsInvariant, PTL

\* Only the last call of a save changes the file, and it was validated.
LEMMA FileChange ==
    ASSUME IInv, [Next]_vars, file' # file
    PROVE  file' = GetConfig /\ Validate(GetConfig)
<1>1. RenameTemp
  <2>1. CASE Restart \/ OpenSettings \/ AskSave \/ Leave \/ Answer \/ HandleBack
             \/ HandleDiscard \/ \E message \in Messages : DropMessage(message)
    BY <2>1 DEF Restart, OpenSettings, AskSave, Leave, Answer, HandleBack, HandleDiscard,
                DropMessage, Only, disk
  <2>2. CASE FieldKey
    BY <2>2 DEF FieldKey, EditField, CycleRow, Only, disk
  <2>3. CASE EditorKey
    BY <2>3 DEF EditorKey, StartAdd, StartEdit, Delete, EditForm, CancelForm, CommitForm,
                EditorTurn, Only, disk
  <2>4. CASE \E message \in {"save", "save and leave"} : HandleSave(message)
    BY <2>4 DEF HandleSave
  <2>5. CASE Save
    BY <2>5 DEF Save, WriteTemp, SaveFails
  <2>6. CASE UNCHANGED vars
    BY <2>6 DEF vars, disk
  <2> QED  BY <2>1, <2>2, <2>3, <2>4, <2>5, <2>6 DEF Next
<1> QED  BY <1>1 DEF RenameTemp, IInv, SaveInv, NotSaving

(* A save writes the antennas as the editor has them, whatever rows the     *)
(* screen shows beside them (GetConfig, setDraftProtocol,                   *)
(* syncProtocolFieldsFromDraft).                                            *)
THEOREM SavesWriteTheDraft == Spec => SavedAntennasAreTheDraft
<1>1. IInv /\ [Next]_vars => [file' # file => file'.antennas = draft]_vars
  BY FileChange, WrittenAntennas DEF IInv
<1> QED  BY <1>1, SettingsInvariant, PTL DEF Spec, SavedAntennasAreTheDraft

(* A file the gateway starts with stays one it starts with: no edit that is *)
(* saved, no failing call and no kill leaves another one (Validate before   *)
(* SaveToYAML, the rename of the temporary file).                           *)
THEOREM FilesStayUsable == Spec => FileStaysUsable
<1>1. IInv /\ [Next]_vars => [Usable(file) => Usable(file')]_vars
  <2> SUFFICES ASSUME IInv, [Next]_vars, Usable(file)
               PROVE  Usable(file')
    OBVIOUS
  <2>1. CASE file' # file
    BY <2>1, FileChange, WrittenIsRead DEF IInv, Usable
  <2>2. CASE file' = file
    BY <2>2
  <2> QED  BY <2>1, <2>2
<1> QED  BY <1>1, SettingsInvariant, PTL DEF Spec, FileStaysUsable
=============================================================================
