---------------------------- MODULE CoverageConfig ----------------------------
(***************************************************************************)
(* The coverage execution config of a repository: created with the preset  *)
(* of the language GitHub names, and edited by requests that load the row, *)
(* change the object and flush the columns that differ from what was       *)
(* loaded.  command stands for the install command, the test command and   *)
(* the report path, which the code treats alike.                           *)
(***************************************************************************)
EXTENDS Integers, FiniteSets

CONSTANTS
    Requests,   \* concurrent update requests
    Custom,     \* commands an administrator may write
    Unset       \* a field the request leaves out

VARIABLES
    config,     \* the row
    request,    \* each request: its payload, and the object it works on
    response,   \* each request's status code, 0 before its answer
    torn        \* history: the rules that updates which overlapped may have broken

configVars == <<config, request, response, torn>>

Languages == {"python", "typescript", "javascript", "go"}
(* DEFAULTS_BY_LANGUAGE.                                                   *)
Format(language) == CASE language = "python" -> "cobertura_xml"
                      [] language \in {"typescript", "javascript"} -> "lcov"
                      [] language = "go" -> "go_coverprofile"
Formats == {Format(l) : l \in Languages}
Command(language) == CASE language = "python" -> "pytest"
                       [] language \in {"typescript", "javascript"} -> "npm test"
                       [] language = "go" -> "go test"
Commands == {Command(l) : l \in Languages} \cup Custom

Row == [language : Languages, confirmed : BOOLEAN, command : Commands, format : Formats]
Preset(language, confirmed) ==
    [language |-> language, confirmed |-> confirmed, command |-> Command(language),
     format |-> Format(language)]

(* A payload the schema accepts: both fields given must agree.             *)
Payload == {p \in [language : Languages \cup {Unset}, command : Custom \cup {Unset},
                   format : Formats \cup {Unset}] :
               p.language # Unset /\ p.format # Unset => p.format = Format(p.language)}
Idle == [phase |-> "idle"]

ConfigTypeOK ==
    /\ config \in Row
    /\ \A r \in Requests : \/ request[r] = Idle
                           \/ /\ request[r].phase = "loaded"
                              /\ request[r].payload \in Payload /\ request[r].row \in Row
    /\ response \in [Requests -> {0, 200, 422}]
    /\ torn \subseteq {"format", "command"}

(* build_coverage_execution_config: a language GitHub does not name, or    *)
(* that is not supported, gets an unconfirmed Python preset.               *)
ConfigInit ==
    /\ config \in {Preset(l, TRUE) : l \in Languages} \cup {Preset("python", FALSE)}
    /\ request = [r \in Requests |-> Idle]
    /\ response = [r \in Requests |-> 0]
    /\ torn = {}

Load(r, payload) ==
    /\ request[r] = Idle
    /\ request' = [request EXCEPT ![r] = [phase |-> "loaded", payload |-> payload,
                                          row |-> config]]
    /\ response' = [response EXCEPT ![r] = 0]
    /\ UNCHANGED <<config, torn>>

(* Mutant of Edited: a language takes only the fields that are empty.      *)
EditedWithoutPreset(row, payload) ==
    [language |-> IF payload.language = Unset THEN row.language ELSE payload.language,
     confirmed |-> TRUE,
     command |-> IF payload.command = Unset THEN row.command ELSE payload.command,
     format |-> IF payload.format # Unset THEN payload.format
                ELSE IF payload.language # Unset THEN Format(payload.language) ELSE row.format]
(* Mutant of Edited: the presets override what is given with the language. *)
EditedByPreset(row, payload) ==
    IF payload.language # Unset THEN Preset(payload.language, TRUE)
    ELSE [row EXCEPT !.confirmed = TRUE,
                     !.command = IF payload.command = Unset THEN @ ELSE payload.command,
                     !.format = IF payload.format = Unset THEN @ ELSE payload.format]
(* The object after the payload is applied: the language brings its        *)
(* presets, what else is given overrides them.                             *)
Edited(row, payload) ==
    LET base == IF payload.language = Unset THEN row ELSE Preset(payload.language, TRUE)
    IN [base EXCEPT !.confirmed = TRUE,
                    !.command = IF payload.command = Unset THEN @ ELSE payload.command,
                    !.format = IF payload.format = Unset THEN @ ELSE payload.format]

(* Mutant of Invalid: only a format the request gives is examined.         *)
InvalidIfGiven(edited, payload) ==
    payload.language # Unset /\ edited.format # Format(edited.language)
Invalid(edited, payload) == edited.format # Format(edited.language)

(* Whether the row is no longer what the request loaded.                   *)
Overtaken(r) == config # request[r].row

(* What an update that is stored leaves torn: it can break both rules when *)
(* it was overtaken; otherwise it has examined the format, and a language  *)
(* brings its commands.                                                    *)
TornBy(r) ==
    IF Overtaken(r) THEN {"format", "command"}
    ELSE IF request[r].payload.language = Unset THEN torn \ {"format"} ELSE {}

(* The answer; the flush writes the columns that the object has changed.   *)
Finish(r) ==
    /\ request[r] # Idle
    /\ LET loaded == request[r].row
           edited == Edited(loaded, request[r].payload)
       IN IF Invalid(edited, request[r].payload)
          THEN /\ response' = [response EXCEPT ![r] = 422]
               /\ UNCHANGED <<config, torn>>
          ELSE /\ response' = [response EXCEPT ![r] = 200]
               /\ torn' = TornBy(r)
               /\ config' = [f \in DOMAIN config |->
                                IF edited[f] = loaded[f] THEN config[f] ELSE edited[f]]
    /\ request' = [request EXCEPT ![r] = Idle]

ConfigNext == \E r \in Requests : Finish(r) \/ \E payload \in Payload : Load(r, payload)

ConfigSpec == ConfigInit /\ [][ConfigNext]_configVars

-----------------------------------------------------------------------------
(* Properties                                                              *)

(* The report format is the one the coverage gate can parse for the        *)
(* language, after any sequence of updates and refusals, unless the last   *)
(* update to be stored had been overtaken by another.                      *)
FormatFitsLanguage == "format" \notin torn => config.format = Format(config.language)

(* The commands are an administrator's or those of the language: switching *)
(* the language never leaves the commands of the one before.  Where        *)
(* updates overtook each other, the next one to name a language and not    *)
(* to be overtaken puts the commands right again.                          *)
CommandFitsLanguage ==
    "command" \notin torn => config.command \in Custom \cup {Command(config.language)}

(* What a successful request asked for is what is stored when it answers,  *)
(* whatever others stored meanwhile, except that a field it asked to stay  *)
(* as it was loaded is not written.                                        *)
Answered ==
    \A r \in Requests :
       request[r] # Idle /\ request'[r] = Idle /\ response'[r] = 200
       => \A f \in {"language", "command", "format"} :
             \/ request[r].payload[f] \in {Unset, config'[f]}
             \/ Overtaken(r) /\ request[r].payload[f] = request[r].row[f]
AnsweredAsAsked == [][Answered]_configVars

(* Updates store what they were asked for and leave the configuration      *)
(* fitting, in any number at once, as far as none overtook another.        *)
ConfigurationFits ==
    [](ConfigTypeOK /\ FormatFitsLanguage /\ CommandFitsLanguage) /\ AnsweredAsAsked
=============================================================================
