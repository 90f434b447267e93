---------------------------- MODULE ServerConfig ----------------------------
(***************************************************************************)
(* How main (main.go) comes to its configuration: defaults, then the file  *)
(* named by -config (parseConfigFile, util.go), then the other flags; and  *)
(* how a syntax error of the file is reported (contextAtOffset).           *)
(*                                                                         *)
(* A text is a sequence of "nl", the newline, and "char", any other byte.  *)
(***************************************************************************)
EXTENDS Integers, Sequences, FiniteSets, FiniteSetsExt

CONSTANTS
    Settings,     \* the fields of Config but Route: "listen", "loglevel", ...
    Values,       \* values of a setting
    Default,      \* in Values: the default of each setting
    LogLevels,    \* in Values: what log.ParseLevel accepts
    Entries,      \* routes that a file may list
    MaxRoutes,    \* bound: routes in the file
    MaxText,      \* bound: length of a file that has a syntax error
    Unset         \* not given on the command line, or in the file

ASSUME SettingsAssumption ==
    /\ "loglevel" \in Settings
    /\ "route" \notin Settings
    /\ Default \in LogLevels
    /\ LogLevels \subseteq Values
    /\ Unset \notin Values
    /\ MaxRoutes \in Nat
    /\ MaxText \in Nat
    /\ \A n \in 0 .. MaxRoutes : Unset \notin [1 .. n -> Entries]

RouteFields == {"handler", "path", "target"}

DefaultRoute == [handler |-> "api/v1", path |-> "/api/v1", target |-> "nil"]

\* The fields of a ConfigRoute that nothing was decoded into.
ZeroRoute == [handler |-> "", path |-> "", target |-> "nil"]

VARIABLES
    pc,           \* where main is
    flags,        \* what the command line gives, by setting
    file,         \* what the configuration file gives
    config,       \* the settings of config
    table,        \* config.Route
    level,        \* the level given to log.SetLevel
    report        \* the syntax error and the context reported for it

vars == <<pc, flags, file, config, table, level, report>>

NoFile == [s \in Settings \cup {"route"} |-> Unset]

NoReport == [text |-> <<>>, offset |-> 0, start |-> 0, end |-> 0, line |-> 0, pos |-> 0]

Init ==
    /\ pc = "flags"
    /\ flags = [s \in Settings |-> Unset]
    /\ file = NoFile
    /\ config = [s \in Settings |-> Default]
    /\ table = <<DefaultRoute>>
    /\ level = Unset
    /\ report = NoReport
-----------------------------------------------------------------------------
(* The command line and the file.                                          *)

ParseFlags ==
    /\ pc = "flags"
    /\ flags' \in [Settings -> Values \cup {Unset}]
    /\ pc' \in {"file", "merge"}
    /\ UNCHANGED <<file, config, table, level, report>>

\* The file cannot be read, or a value in it has another type.
FatalError ==
    /\ pc = "file"
    /\ pc' = "fatal"
    /\ UNCHANGED <<flags, file, config, table, level, report>>

\* What json.Unmarshal makes of one route: an absent field stays as it is.
DecodeRoute(entry, old) ==
    [f \in RouteFields |-> IF entry[f] = Unset THEN old[f] ELSE entry[f]]

\* The slice is refilled in place: the first route of the file is decoded
\* over the default one, the others over zeroed memory.
DecodeRoutes(routes) ==
    [i \in DOMAIN routes |->
        DecodeRoute(routes[i], IF i = 1 THEN DefaultRoute ELSE ZeroRoute)]

RouteLists == UNION {[1 .. n -> Entries] : n \in 0 .. MaxRoutes}

Given(routes, given) ==
    file' = [s \in Settings \cup {"route"} |-> IF s = "route" THEN routes ELSE given[s]]

Unmarshal ==
    /\ pc = "file"
    /\ \E given \in [Settings -> Values \cup {Unset}],
          routes \in RouteLists \cup {Unset} :
          /\ Given(routes, given)
          /\ config' = [s \in Settings |->
                          IF given[s] = Unset THEN config[s] ELSE given[s]]
          /\ table' = IF routes = Unset THEN table ELSE DecodeRoutes(routes)
    /\ pc' = "merge"
    /\ UNCHANGED <<flags, level, report>>
-----------------------------------------------------------------------------
(* The report of a syntax error.                                           *)

\* The positions of the newlines, the first byte being at 1.
Newlines(text) == {i \in DOMAIN text : text[i] = "nl"}

\* Faulty variant: the position is not made to count from zero.
PosFromOne(offset, start) == offset - start

Pos(offset, start) == offset - start - 1

\* start and end delimit the line that is shown; pos is where its mark goes.
ContextAtOffset(text, offset) ==
    LET start == Max({0} \cup {i \in Newlines(text) : i <= offset})
    IN  [text |-> text,
         offset |-> offset,
         start |-> start,
         end |-> Min({Len(text)} \cup {i - 1 : i \in {j \in Newlines(text) : j > start}}),
         line |-> Cardinality({i \in Newlines(text) : i <= start}),
         pos |-> Pos(offset, start)]

Texts == UNION {[1 .. n -> {"char", "nl"}] : n \in 0 .. MaxText}

\* Offset counts the bytes read when the error was found, the offending one
\* included; it is 0 for an empty file only.
SyntaxErrors == {e \in Texts \X (0 .. MaxText) :
                    e[2] \in (IF e[1] = <<>> THEN {0} ELSE 1 .. Len(e[1]))}

\* strings.Repeat panics when its count is negative.
FatalSyntaxError ==
    /\ pc = "file"
    /\ \E e \in SyntaxErrors : report' = ContextAtOffset(e[1], e[2])
    /\ pc' = IF report'.pos < 0 THEN "panic" ELSE "fatal"
    /\ UNCHANGED <<flags, file, config, table, level>>
-----------------------------------------------------------------------------
\* The value that the flag package returns.
Flag(s) == IF flags[s] = Unset THEN Default ELSE flags[s]

\* Faulty variant: all flags are taken, those not given too.
MergeEveryFlag ==
    /\ pc = "merge"
    /\ config' = [s \in Settings |-> Flag(s)]
    /\ pc' = "loglevel"
    /\ UNCHANGED <<flags, file, table, level, report>>

\* A flag is taken when it differs from the default.
MergeFlags ==
    /\ pc = "merge"
    /\ config' = [s \in Settings |-> IF Flag(s) # Default THEN Flag(s) ELSE config[s]]
    /\ pc' = "loglevel"
    /\ UNCHANGED <<flags, file, table, level, report>>

\* A level that cannot be parsed gives "info", the default.
SetLogLevel ==
    /\ pc = "loglevel"
    /\ level' = IF config["loglevel"] \in LogLevels THEN config["loglevel"] ELSE Default
    /\ pc' = "serving"
    /\ UNCHANGED <<flags, file, config, table, report>>

\* The server runs, or the process has ended.
Done == pc \in {"serving", "fatal", "panic"} /\ UNCHANGED vars

Next ==
    \/ ParseFlags \/ FatalError \/ Unmarshal \/ FatalSyntaxError
    \/ MergeFlags \/ SetLogLevel \/ Done

Spec == Init /\ [][Next]_vars
-----------------------------------------------------------------------------
\* A setting that the server runs with is the flag's, if that is not the
\* default, else the file's, else the default: no source that does not name
\* a setting wipes out another's value.  It logs at the level so found, and at
\* a legal one where that is none (main.go:339-363).
Precedence ==
    pc = "serving" =>
        /\ \A s \in Settings :
              config[s] = IF flags[s] \notin {Unset, Default} THEN flags[s]
                          ELSE IF file[s] # Unset THEN file[s]
                          ELSE Default
        /\ level \in LogLevels
        /\ config["loglevel"] \in LogLevels => level = config["loglevel"]

Byte(i) == report.text[i]

\* A syntax error is reported with the line it is in, that line's number
\* counted from 0, and a mark under the offending byte.  The report fails
\* exactly when that byte is a newline or the file is empty (util.go:26-50).
ReportShowsError ==
    /\ pc = "panic" <=> pc \in {"fatal", "panic"} /\ report.pos < 0
    /\ pc = "panic" => report.offset = 0 \/ Byte(report.offset) = "nl"
    /\ pc = "fatal" /\ report.offset > 0 =>
          /\ Byte(report.offset) # "nl"
          /\ report.start + report.pos + 1 = report.offset
          /\ report.offset <= report.end
          /\ \A i \in report.start + 1 .. report.end : Byte(i) # "nl"
          /\ report.line = Cardinality({i \in Newlines(report.text) : i < report.offset})
=============================================================================
