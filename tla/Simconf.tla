------------------------------ MODULE Simconf ------------------------------
(***************************************************************************)
(* simconf (simconf.h, simconf.cpp): parse() reads a file line by line     *)
(* into sections of options; a line may include another file, which is     *)
(* parsed by a nested call. The same object may parse file after file.     *)
(*                                                                         *)
(* The files being parsed are marked in a set: each call inserts the name  *)
(* in _fname_ and erases it when it is left, by the name _fname_ has then. *)
(* A nested call sets _fname_, and its caller sets it back. A line stands  *)
(* for what is left of it without comments and spaces, with the names in   *)
(* lower case; a value is a text or a variable, $(name).                   *)
(***************************************************************************)
EXTENDS Integers, Sequences, SequencesExt

CONSTANTS Names,        \* the names of files
          Contents,     \* what may be on disk: from some of them to lists of lines
          MaxParses     \* bound on the calls by the program

\* The lines: of less than two characters; one that returns code at once (-2,
\* an include of no or two names; -4, a [ without a ]; -6, not name = value);
\* and those that do something. An option has a text or a variable, $(var).
FileLines ==
    [is : {"skip"}] \cup [is : {"bad"}, code : {-2, -4, -6}]
    \cup [is : {"include"}, file : Names] \cup [is : {"section"}, sec : STRING]
    \cup [is : {"option"}, opt : STRING,
          value : [var : {""}, text : STRING] \cup [var : STRING]]

Global == "global"
Nameless == ""

ASSUME SimconfAssumption ==
    \A disk \in Contents : /\ DOMAIN disk \subseteq Names
                           /\ \A f \in DOMAIN disk : disk[f] \in Seq(FileLines)

VARIABLES files,                        \* the files and what they contain
          _fname_, _fname_set_, _sec_name_, _sec_map_,
          calls,                        \* the calls in progress, outermost first
          ret,                          \* what the last call returned, or Running
          parses,                       \* how many calls the program has made
          failed, thrown                \* history: has a line of the program's last
                                        \* call failed, has any call thrown?

cvars == <<files, _fname_, _fname_set_, _sec_name_, _sec_map_, calls, ret, parses, failed, thrown>>
conf == <<_sec_name_, _sec_map_>>
history == <<files, parses, thrown>>

Running == 1
Threw == -100

CInit == /\ files \in Contents
         /\ _fname_ = "" /\ _fname_set_ = {}
         /\ _sec_name_ = Global /\ _sec_map_ = [s \in {Global} |-> <<>>]
         /\ calls = <<>> /\ ret = 0
         /\ parses = 0 /\ failed = FALSE /\ thrown = FALSE

Call == Last(calls)
Lines == files[Call.file]
AtLine == calls # <<>> /\ ret = Running /\ Call.line <= Len(Lines)
Line == Lines[Call.line]
NextLine == [calls EXCEPT ![Len(calls)].line = @ + 1]

\* map[key] = value of a std::map
Put(map, key, value) ==
    [k \in DOMAIN map \cup {key} |-> IF k = key THEN value ELSE map[k]]

\* _sec_map_[sec], which is there from then on
OptionsOf(sec) == IF sec \in DOMAIN _sec_map_ THEN _sec_map_[sec] ELSE <<>>

-----------------------------------------------------------------------------
(* Entering and leaving parse() *)

\* A file that is marked throws, which leaves all calls: each erases the name
\* in _fname_, which is the one that was met again. One that cannot be opened
\* is marked and erased.
Enter(f) ==
    /\ _fname_' = f
    /\ CASE f \in _fname_set_ ->
              /\ _fname_set_' = IF calls = <<>> THEN _fname_set_ ELSE _fname_set_ \ {f}
              /\ calls' = <<>> /\ ret' = Threw /\ thrown' = TRUE
         [] f \notin _fname_set_ /\ f \notin DOMAIN files ->
              /\ ret' = -1
              /\ UNCHANGED <<_fname_set_, calls, thrown>>
         [] OTHER ->
              /\ _fname_set_' = _fname_set_ \cup {f}
              /\ calls' = Append(calls, [file |-> f, line |-> 1])
              /\ ret' = Running
              /\ UNCHANGED thrown
    /\ failed' = (f \in _fname_set_ \/ f \notin DOMAIN files \/ (failed /\ calls # <<>>))

Leave(code) ==
    /\ _fname_set_' = _fname_set_ \ {_fname_'}
    /\ calls' = Front(calls)
    /\ ret' = code

parse(f) ==
    /\ calls = <<>> /\ parses < MaxParses
    /\ Enter(f)
    /\ parses' = parses + 1
    /\ UNCHANGED <<files, conf>>

EndOfFile ==
    /\ calls # <<>> /\ ret = Running /\ Call.line > Len(Lines)
    /\ UNCHANGED _fname_
    /\ Leave(0)
    /\ UNCHANGED <<conf, history, failed>>

-----------------------------------------------------------------------------
(* The lines *)

Skip ==
    /\ AtLine /\ Line.is = "skip"
    /\ calls' = NextLine
    /\ UNCHANGED <<_fname_, _fname_set_, conf, ret, history, failed>>

Include ==
    /\ AtLine /\ Line.is = "include"
    /\ Enter(Line.file)
    /\ UNCHANGED <<files, conf, parses>>

\* Mutant: _fname_ stays that of the included file.
IncludedKeepsName ==
    /\ calls # <<>> /\ ret # Running
    /\ UNCHANGED _fname_
    /\ IF ret < 0 THEN Leave(-3)
       ELSE calls' = NextLine /\ ret' = Running /\ UNCHANGED _fname_set_
    /\ UNCHANGED <<conf, history, failed>>

\* Mutant: what the included file returned is not looked at.
IncludedUnchecked ==
    /\ calls # <<>> /\ ret # Running
    /\ _fname_' = Call.file
    /\ calls' = NextLine /\ ret' = Running
    /\ UNCHANGED <<_fname_set_, conf, history, failed>>

Included ==
    /\ calls # <<>> /\ ret # Running
    /\ _fname_' = Call.file
    /\ IF ret < 0 THEN Leave(-3)
       ELSE calls' = NextLine /\ ret' = Running /\ UNCHANGED _fname_set_
    /\ UNCHANGED <<conf, history, failed>>

Fail(code) ==
    /\ UNCHANGED _fname_
    /\ Leave(code)
    /\ failed' = TRUE

\* A section other than [global] is not opened again, but is the current one.
\* The name of [] is taken, and the line then for an option without a value.
Section ==
    /\ AtLine /\ Line.is = "section"
    /\ _sec_name_' = Line.sec
    /\ CASE Line.sec = Nameless -> Fail(-6) /\ UNCHANGED _sec_map_
         [] Line.sec \in DOMAIN _sec_map_ /\ Line.sec \notin {Nameless, Global} ->
              Fail(-5) /\ UNCHANGED _sec_map_
         [] OTHER ->
              /\ _sec_map_' = Put(_sec_map_, Line.sec, <<>>)
              /\ calls' = NextLine
              /\ UNCHANGED <<_fname_, _fname_set_, ret, failed>>
    /\ UNCHANGED history

Bad ==
    /\ AtLine /\ Line.is = "bad"
    /\ Fail(Line.code)
    /\ UNCHANGED <<conf, history>>

\* option(): its text, in a set that is empty where the code returns an error
option(sec, opt) == {OptionsOf(s)[opt] : s \in {t \in {sec} : opt \in DOMAIN OptionsOf(t)}}

\* _replace_var_(): the variable's value in this section, or else in [global]
Replaced(v) == CASE v.var = "" -> {v.text}
                 [] v.var # "" /\ option(_sec_name_, v.var) # {} -> option(_sec_name_, v.var)
                 [] OTHER -> option(Global, v.var)

\* Mutant: an option that is there gets the new value.
OptionAgain ==
    /\ AtLine /\ Line.is = "option"
    /\ LET old == OptionsOf(_sec_name_) IN
       CASE Replaced(Line.value) = {} ->
              Fail(-8) /\ _sec_map_' = Put(_sec_map_, _sec_name_, old)
         [] OTHER ->
              /\ \E x \in Replaced(Line.value) :
                     _sec_map_' = Put(_sec_map_, _sec_name_, Put(old, Line.opt, x))
              /\ calls' = NextLine
              /\ UNCHANGED <<_fname_, _fname_set_, ret, failed>>
    /\ UNCHANGED <<_sec_name_, history>>

\* Looking the option up makes the section.
Option ==
    /\ AtLine /\ Line.is = "option"
    /\ LET old == OptionsOf(_sec_name_) IN
       CASE Line.opt \in DOMAIN old -> Fail(-7) /\ UNCHANGED _sec_map_
         [] Line.opt \notin DOMAIN old /\ Replaced(Line.value) = {} ->
              Fail(-8) /\ _sec_map_' = Put(_sec_map_, _sec_name_, old)
         [] OTHER ->
              /\ \E x \in Replaced(Line.value) :
                     _sec_map_' = Put(_sec_map_, _sec_name_, Put(old, Line.opt, x))
              /\ calls' = NextLine
              /\ UNCHANGED <<_fname_, _fname_set_, ret, failed>>
    /\ UNCHANGED <<_sec_name_, history>>

CNext == \/ \E f \in Names : parse(f)
         \/ EndOfFile \/ Skip \/ Include \/ Included \/ Section \/ Bad \/ Option

CSpec == CInit /\ [][CNext]_cvars
-----------------------------------------------------------------------------
(* Properties *)

\* No file is being parsed within itself, through whatever includes and errors
\* and after whatever exceptions, so that parsing ends; and the marked files
\* are those being parsed, so that none is refused that is not, unless an
\* exception has left marks behind.
FilesMarked ==
    LET open == {calls[i].file : i \in DOMAIN calls} IN
    /\ Cardinality(open) = Len(calls)
    /\ open \subseteq _fname_set_
    /\ ~thrown => _fname_set_ = open

\* An option read stays with its value, through includes, errors, exceptions
\* and later files, but for those of [global], which every [global] line clears.
OptionsStay ==
    [][\A sec \in DOMAIN _sec_map_ : \A opt \in DOMAIN _sec_map_[sec] :
           \/ /\ sec \in DOMAIN _sec_map_' /\ opt \in DOMAIN _sec_map_'[sec]
              /\ _sec_map_'[sec][opt] = _sec_map_[sec][opt]
           \/ sec = Global /\ AtLine /\ Line = [is |-> "section", sec |-> Global]]_cvars

\* A call says so when any of its lines has failed, at whatever depth of includes.
FailureReported == calls = <<>> /\ failed => ret < 0
=============================================================================
