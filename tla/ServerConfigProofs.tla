------------------------- MODULE ServerConfigProofs -------------------------
(***************************************************************************)
(* The precedence of flags, file and defaults, for any settings and        *)
(* values, and the report of a syntax error, for a file of any length.     *)
(***************************************************************************)
EXTENDS ServerConfig, SequenceLemmas

\* The value of a setting once the file is read, and once the flags are.
Decoded(s) == IF file[s] # Unset THEN file[s] ELSE Default

Merged(s) == IF flags[s] \notin {Unset, Default} THEN flags[s] ELSE Decoded(s)

\* Precedence speaks of the serving process only; this says what the settings
\* are at every point on the way there.
ConfigInv ==
    /\ pc \in {"flags", "file"} =>
          /\ config = [s \in Settings |-> Default]
          /\ file = NoFile
    /\ pc = "merge" => config = [s \in Settings |-> Decoded(s)]
    /\ pc \in {"loglevel", "serving"} => config = [s \in Settings |-> Merged(s)]
    /\ pc = "serving" =>
          level = IF config["loglevel"] \in LogLevels THEN config["loglevel"] ELSE Default

LEMMA Initially == Init => ConfigInv
  BY DEF Init, ConfigInv

\* Each step of main keeps the settings what they should be at its point.
LEMMA ConfigStep == ConfigInv /\ [Next]_vars => ConfigInv'
<1> SUFFICES ASSUME ConfigInv, [Next]_vars PROVE ConfigInv'
  OBVIOUS
<1> USE DEF Merged, Decoded
<1>1. CASE ParseFlags
  BY <1>1, SettingsAssumption DEF ParseFlags, ConfigInv, NoFile
<1>2. CASE FatalError
  BY <1>2 DEF FatalError, ConfigInv
<1>3. CASE Unmarshal
  BY <1>3, SettingsAssumption DEF Unmarshal, Given, ConfigInv
<1>4. CASE FatalSyntaxError
  BY <1>4 DEF FatalSyntaxError, ConfigInv
<1>5. CASE MergeFlags
  BY <1>5 DEF MergeFlags, Flag, ConfigInv
<1>6. CASE SetLogLevel
  BY <1>6 DEF SetLogLevel, ConfigInv
<1>7. CASE UNCHANGED vars
  BY <1>7 DEF vars, ConfigInv
<1> QED BY <1>1, <1>2, <1>3, <1>4, <1>5, <1>6, <1>7 DEF Next, Done

\* The settings of a serving process are the flags', else the file's, else the
\* defaults (main.go:339-363), whatever settings and values there are.
THEOREM SettingsPrecedence == Spec => []Precedence
<1>1. ConfigInv => Precedence
  BY SettingsAssumption DEF ConfigInv, Precedence, Merged, Decoded
<1> QED BY <1>1, Initially, ConfigStep, PTL DEF Spec

-----------------------------------------------------------------------------
(* The report of a syntax error.                                           *)

\* What contextAtOffset returns: start is the last newline up to the offset or
\* 0, end the byte before the next newline or the last one.
LEMMA Context ==
    ASSUME NEW e \in SyntaxErrors, NEW r, r = ContextAtOffset(e[1], e[2])
    PROVE  /\ r.text = e[1] /\ r.offset = e[2] /\ r.pos = r.offset - r.start - 1
           /\ Len(r.text) \in Nat /\ DOMAIN r.text = 1 .. Len(r.text)
           /\ r.offset \in 0 .. Len(r.text)
           /\ r.start \in 0 .. r.offset
           /\ r.start = 0 \/ r.start \in Newlines(r.text)
           /\ \A i \in Newlines(r.text) : i <= r.offset => i <= r.start
           /\ r.end \in Nat /\ r.end <= Len(r.text)
           /\ r.end = Len(r.text) \/ (r.end + 1 \in Newlines(r.text) /\ r.end + 1 > r.start)
           /\ \A i \in Newlines(r.text) : i > r.start => r.end < i
           /\ r.line = Cardinality({i \in Newlines(r.text) : i <= r.start})
<1> DEFINE text == e[1]
           offset == e[2]
           N == Newlines(text)
           Before == {0} \cup {i \in N : i <= offset}
           start == Max(Before)
           Ends == {Len(text)} \cup {i - 1 : i \in {j \in N : j > start}}
           end == Min(Ends)
<1>1. r = [text |-> text, offset |-> offset, start |-> start, end |-> end,
           line |-> Cardinality({i \in N : i <= start}), pos |-> offset - start - 1]
  BY DEF ContextAtOffset, Pos
<1>2. PICK n \in 0 .. MaxText : text \in [1 .. n -> {"char", "nl"}]
  BY DEF SyntaxErrors, Texts
<1>3. n \in Nat /\ text \in Seq({"char", "nl"}) /\ Len(text) = n /\ DOMAIN text = 1 .. n
  BY <1>2, SettingsAssumption
<1>4. offset \in 0 .. n
  BY <1>3 DEF SyntaxErrors
<1>5. N \subseteq 1 .. n
  BY <1>3 DEF Newlines
<1> HIDE DEF text, offset, N
<1>6. start \in Before /\ \A y \in Before : start >= y
  <2>1. \E m \in Before : \A y \in Before : m >= y
    <3>1. CASE {i \in N : i <= offset} = {}
      BY <3>1
    <3>2. CASE {i \in N : i <= offset} # {}
      <4>1. PICK m \in {i \in N : i <= offset} : \A j \in {i \in N : i <= offset} : m >= j
        BY <1>3, <1>5, <3>2, GreatestPosition
      <4> QED BY <1>5, <4>1
    <3> QED BY <3>1, <3>2
  <2> HIDE DEF Before
  <2> QED BY <2>1 DEF Max
<1> HIDE DEF start
<1>7. start \in 0 .. offset
  BY <1>4, <1>5, <1>6
<1>8. end \in Ends /\ \A y \in Ends : end <= y
  <2>1. Ends \subseteq Nat
    BY <1>3, <1>5, <1>7
  <2>2. Ends # {}
    OBVIOUS
  <2> HIDE DEF Ends
  <2>3. \E m \in Ends : \A y \in Ends : m <= y
    BY <2>1, <2>2, LeastPosition
  <2> QED BY <2>3 DEF Min
<1> HIDE DEF end
<1>9. end \in Nat /\ end <= n
  BY <1>3, <1>5, <1>7, <1>8
<1>10. end = n \/ (end + 1 \in N /\ end + 1 > start)
  BY <1>3, <1>5, <1>8
<1>11. \A i \in N : i > start => end < i
  BY <1>5, <1>8, <1>9
<1>12. start = 0 \/ start \in N
  BY <1>6
<1>13. \A i \in N : i <= offset => i <= start
  BY <1>5, <1>6, <1>7
<1> QED BY <1>1, <1>3, <1>4, <1>7, <1>9, <1>10, <1>11, <1>12, <1>13 DEF text, offset, N

\* A report is one of contextAtOffset, and only a process that ended has one.
Reported == \E e \in SyntaxErrors : report = ContextAtOffset(e[1], e[2])

ReportInv ==
    /\ pc \notin {"fatal", "panic"} => report = NoReport
    /\ pc = "fatal" => report = NoReport \/ (Reported /\ ~ (report.pos < 0))
    /\ pc = "panic" => Reported /\ report.pos < 0

LEMMA ReportStep == ReportInv /\ [Next]_vars => ReportInv'
<1> SUFFICES ASSUME ReportInv, [Next]_vars PROVE ReportInv'
  OBVIOUS
<1>1. CASE ParseFlags \/ FatalError \/ Unmarshal
  BY <1>1 DEF ParseFlags, FatalError, Unmarshal, ReportInv
<1>2. CASE FatalSyntaxError
  BY <1>2 DEF FatalSyntaxError, ReportInv, Reported
<1>3. CASE MergeFlags \/ SetLogLevel
  BY <1>3 DEF MergeFlags, SetLogLevel, ReportInv
<1>4. CASE UNCHANGED vars
  BY <1>4 DEF vars, ReportInv, Reported
<1> QED BY <1>1, <1>2, <1>3, <1>4 DEF Next, Done

\* For a file of any length the report shows the line of the error with its
\* number and a mark under the offending byte, and fails exactly at a newline
\* or in an empty file (util.go:26-50).
THEOREM ErrorShown == Spec => []ReportShowsError
<1>1. Init => ReportInv
  BY DEF Init, ReportInv
<1>2. ReportInv => ReportShowsError
  <2> SUFFICES ASSUME ReportInv PROVE ReportShowsError
    OBVIOUS
  <2>1. CASE report = NoReport
    BY <2>1 DEF ReportInv, NoReport, ReportShowsError
  <2>2. CASE report # NoReport
    <3>1. pc \in {"fatal", "panic"} /\ Reported /\ (pc = "panic" <=> report.pos < 0)
      BY <2>2 DEF ReportInv
    <3>2. PICK e \in SyntaxErrors : report = ContextAtOffset(e[1], e[2])
      BY <3>1 DEF Reported
    <3> DEFINE N == Newlines(report.text)
    <3>3. /\ report.pos = report.offset - report.start - 1
          /\ Len(report.text) \in Nat /\ DOMAIN report.text = 1 .. Len(report.text)
          /\ report.offset \in 0 .. Len(report.text)
          /\ report.start \in 0 .. report.offset
          /\ report.start = 0 \/ report.start \in N
          /\ \A i \in N : i <= report.offset => i <= report.start
          /\ report.end \in Nat /\ report.end <= Len(report.text)
          /\ report.end = Len(report.text)
                \/ (report.end + 1 \in N /\ report.end + 1 > report.start)
          /\ \A i \in N : i > report.start => report.end < i
          /\ report.line = Cardinality({i \in N : i <= report.start})
      BY <3>2, Context
    <3>4. \A i \in 1 .. Len(report.text) : Byte(i) = "nl" <=> i \in N
      BY <3>3 DEF Byte, Newlines
    <3>5. N \subseteq 1 .. Len(report.text)
      BY <3>3 DEF Newlines
    <3> HIDE DEF N
    <3>6. pc = "panic" => report.offset = 0 \/ Byte(report.offset) = "nl"
      BY <3>1, <3>3, <3>4
    <3>7. ASSUME pc = "fatal", report.offset > 0
          PROVE  /\ Byte(report.offset) # "nl"
                 /\ report.start + report.pos + 1 = report.offset
                 /\ report.offset <= report.end
                 /\ \A i \in report.start + 1 .. report.end : Byte(i) # "nl"
                 /\ report.line = Cardinality({i \in N : i < report.offset})
      <4>1. report.start < report.offset
        BY <3>1, <3>3, <3>7
      <4>2. report.offset \notin N
        BY <3>3, <4>1
      <4>3. Byte(report.offset) # "nl"
        BY <3>3, <3>4, <3>7, <4>2
      <4>4. report.offset <= report.end
        BY <3>3, <3>5, <4>1
      <4>5. \A i \in report.start + 1 .. report.end : Byte(i) # "nl"
        BY <3>3, <3>4
      <4>6. \A i \in N : i <= report.start <=> i < report.offset
        BY <3>3, <3>5, <4>1
      <4>7. {i \in N : i <= report.start} = {i \in N : i < report.offset}
        BY <4>6, Zenon
      <4>8. report.line = Cardinality({i \in N : i < report.offset})
        BY <3>3, <4>7, Zenon
      <4>9. report.start + report.pos + 1 = report.offset
        BY <3>3
      <4> QED BY <4>3, <4>4, <4>5, <4>8, <4>9
    <3> QED BY <3>1, <3>6, <3>7 DEF ReportShowsError, N
  <2> QED BY <2>1, <2>2
<1> QED BY <1>1, <1>2, ReportStep, PTL DEF Spec
=============================================================================
