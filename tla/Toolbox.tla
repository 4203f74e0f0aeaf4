------------------------------- MODULE Toolbox -------------------------------
(***************************************************************************)
(* internal/common: the configurations of the app's tools, and the choice  *)
(* of one per tool for a student, platform and version of the app.  Each   *)
(* operation on the table is one statement, so it is one step.             *)
(*                                                                         *)
(* A configuration may be for one student, one platform, and from some     *)
(* version on; NULL, the empty text and version 0 leave these open.        *)
(* Deleting a row hides it from every statement and from the unique key.   *)
(***************************************************************************)
EXTENDS Integers

CONSTANTS
    Tool, StudentId, Platform,
    Anyone,              \* no student, platform
    MaxVersionNumber,    \* the largest version of a configuration
    StudentIDMatch,      \* 1 << StudentIDMatchBit
    AppVersion,          \* versions of apps and of configurations that are sent
    MaxConfigs           \* bounds the model: rows ever created

ASSUME ToolboxAssumption ==
    /\ Tool \subseteq Nat \ {0}
    /\ Anyone \notin StudentId \cup Platform
    /\ MaxVersionNumber \in Nat /\ StudentIDMatch \in Nat
    /\ StudentIDMatch > 2 * MaxVersionNumber + 1
    /\ AppVersion \subseteq Int
    /\ MaxConfigs \in Nat

VARIABLES
    configs,             \* configs[i]: the row of an id, or NoConfig
    lastConfig           \* the auto-increment counter

toolboxVars == <<configs, lastConfig>>

ConfigId == 1 .. MaxConfigs
AnyOr(S) == S \cup {Anyone}
Sent == [tool : Tool, student : AnyOr(StudentId), platform : AnyOr(Platform), version : AppVersion]
NoConfig == [tool |-> 0, student |-> Anyone, platform |-> Anyone, version |-> 0]
Active == {i \in ConfigId : configs[i] # NoConfig}

ToolboxInit == configs = [i \in ConfigId |-> NoConfig] /\ lastConfig = 0

-----------------------------------------------------------------------------
(* The administrators' operations                                          *)

(* validateToolboxConfig                                                   *)
Valid(config) == config.version \in 0 .. MaxVersionNumber

(* Mutant of KeyTaken: a unique key over the columns themselves, for which *)
(* NULL is equal to nothing.                                               *)
KeyTaken_Nullable(config, others) ==
    /\ config.student # Anyone /\ config.platform # Anyone /\ config.version # 0
    /\ \E i \in others : configs[i] = config

(* The unique key uk_toolbox_config, over columns that are '' and 0 for     *)
(* NULL.                                                                   *)
KeyTaken(config, others) == \E i \in others : configs[i] = config

CreateToolboxConfig(config) ==
    /\ Valid(config)
    /\ lastConfig < MaxConfigs
    /\ lastConfig' = lastConfig + 1
    /\ configs' = IF KeyTaken(config, Active) THEN configs ELSE [configs EXCEPT ![lastConfig'] = config]

(* What the update answers is read by a statement of its own.              *)
UpdateToolboxConfig(i, config) ==
    /\ Valid(config)
    /\ i \in Active
    /\ ~KeyTaken(config, Active \ {i})
    /\ configs' = [configs EXCEPT ![i] = config]
    /\ UNCHANGED lastConfig

DeleteToolboxConfig(i) ==
    /\ i \in Active
    /\ configs' = [configs EXCEPT ![i] = NoConfig]
    /\ UNCHANGED lastConfig

ToolboxNext ==
    \/ \E config \in Sent : CreateToolboxConfig(config)
    \/ \E i \in ConfigId, config \in Sent : UpdateToolboxConfig(i, config)
    \/ \E i \in ConfigId : DeleteToolboxConfig(i)

ToolboxSpec == ToolboxInit /\ [][ToolboxNext]_toolboxVars

-----------------------------------------------------------------------------
(* The choice                                                              *)

Request == [student : AnyOr(StudentId), platform : AnyOr(Platform), version : AppVersion]

(* A configuration that asks for something the request has not (score -1). *)
Matches(config, request) ==
    /\ config.student \in {Anyone, request.student}
    /\ config.version > 0 => request.version >= config.version
    /\ config.platform \in {Anyone, request.platform}

Least(a, b) == IF a <= b THEN a ELSE b

StudentScore(config) == IF config.student # Anyone THEN StudentIDMatch ELSE 0
PlatformScore(config) == IF config.platform # Anyone THEN 1 ELSE 0

(* getMatchScore of a configuration that matches.  The parts have bits of  *)
(* their own, so that | is +.                                              *)
MatchScore(config) ==
    StudentScore(config) + 2 * Least(config.version, MaxVersionNumber) + PlatformScore(config)

Candidates(tool, request) ==
    {i \in Active : configs[i].tool = tool /\ Matches(configs[i], request)}

(* What the loop in GetToolboxConfig keeps for a tool: the highest score,  *)
(* and the last id of several with it.                                     *)
Beats(i, j) ==
    \/ MatchScore(configs[i]) > MatchScore(configs[j])
    \/ MatchScore(configs[i]) = MatchScore(configs[j]) /\ i > j

GetToolboxConfig(tool, request) ==
    {i \in Candidates(tool, request) : \A j \in Candidates(tool, request) \ {i} : Beats(i, j)}

-----------------------------------------------------------------------------
(* Properties                                                              *)

Config == {c \in Sent : Valid(c)}

ToolboxTypeOK ==
    /\ configs \in [ConfigId -> Config \cup {NoConfig}]
    /\ lastConfig \in 0 .. MaxConfigs

(* The order the comment at get_toolbox_config.go:39 promises: the student *)
(* comes before the version, the version before the platform.              *)
MoreSpecific(c, d) ==
    \/ c.student # Anyone /\ d.student = Anyone
    \/ /\ c.student = d.student
       /\ \/ c.version > d.version
          \/ c.version = d.version /\ c.platform # Anyone /\ d.platform = Anyone

(* Whatever the administrators have stored, and whoever asks: a tool that  *)
(* has a configuration for the request is answered with exactly one, and   *)
(* that one is more specific than every other that matches; which of two   *)
(* is newer never decides (get_toolbox_config.go:81-126, the unique key).  *)
AnswerMostSpecific ==
    \A tool \in Tool, request \in Request :
        Candidates(tool, request) # {} =>
            \E i \in GetToolboxConfig(tool, request) :
                /\ GetToolboxConfig(tool, request) = {i}
                /\ \A j \in Candidates(tool, request) \ {i} : MoreSpecific(configs[i], configs[j])

=============================================================================
