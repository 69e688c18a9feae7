---------------------------- MODULE GlobalPreload ----------------------------
(***************************************************************************)
(* tools/runpod-shim-install-global: enable and disable edit               *)
(* /etc/ld.so.preload in place, with a read, an append, or a truncation    *)
(* and a write.  Several of them may run at once, and each may be killed   *)
(* between any two steps and be run again later.                           *)
(*                                                                         *)
(* A file is the sequence of its characters; what a command of the script  *)
(* reads or writes is small and goes through in one piece.                 *)
(***************************************************************************)
EXTENDS Selection, SequencesExt

CONSTANTS
    Procs,        \* shells that run the script
    Chars,        \* characters of a file
    NL,           \* the newline
    Contents,     \* contents the file may have at first
    Lib,          \* the line the script is about, as characters
    MaxRuns,      \* bound: how often the script is started
    MaxFaults,    \* bound: kills and failing writes
    None          \* no command

Line == Seq(Chars \ {NL})

ASSUME PreloadAssumption ==
    /\ NL \in Chars
    /\ Contents \subseteq Seq(Chars)
    /\ Lib \in Line /\ Lib # <<>>
    /\ None \notin {"enable", "disable"}
    /\ MaxRuns \in Nat /\ MaxFaults \in Nat

VARIABLES
    file,      \* /etc/ld.so.preload
    proc,      \* the command each shell runs, where it is, and its temporary file
    runs,      \* commands started
    faults,    \* kills and failing writes so far
    original,  \* history: the file at first
    last,      \* history: the command that was completed last, None after a fault
    crowded,   \* history: two commands ran at the same time
    clash,     \* history: the file was copied or added to between another's truncation and write
    torn       \* history: a fault hit a command between its truncation and its write

vars == <<file, proc, runs, faults, original, last, crowded, clash, torn>>

-----------------------------------------------------------------------------
(* Lines *)

(* The lines of a file that are ended, and the one that is not, after each *)
(* of its characters.                                                      *)
SplitUpTo(f) ==
    LET split[n \in 0..Len(f)] ==
            IF n = 0 THEN [ended |-> <<>>, open |-> <<>>]
            ELSE IF f[n] = NL
            THEN [ended |-> Append(split[n - 1].ended, split[n - 1].open), open |-> <<>>]
            ELSE [ended |-> split[n - 1].ended, open |-> Append(split[n - 1].open, f[n])]
    IN  split

Split(f) == SplitUpTo(f)[Len(f)]

(* The lines of a file as grep reads them: the last one may lack its newline. *)
LinesOf(f) ==
    IF Split(f).open = <<>> THEN Split(f).ended ELSE Append(Split(f).ended, Split(f).open)

(* What grep prints: every line with a newline. *)
TextUpTo(lines) ==
    LET text[n \in 0..Len(lines)] ==
            IF n = 0 THEN <<>> ELSE text[n - 1] \o lines[n] \o <<NL>>
    IN  text

TextOf(lines) == TextUpTo(lines)[Len(lines)]

OtherLines(f) == Kept(LinesOf(f), Line \ {Lib})
LibLines(f) == Len(Kept(LinesOf(f), {Lib}))

Ready == [cmd |-> None, step |-> "idle", tmp |-> <<>>]

Init ==
    /\ file \in Contents
    /\ proc = [p \in Procs |-> Ready]
    /\ runs = 0 /\ faults = 0
    /\ original = file
    /\ last = None
    /\ crowded = FALSE /\ clash = FALSE /\ torn = FALSE

-----------------------------------------------------------------------------
(* Steps *)

Busy(p) == proc[p].step # "idle"

(* Another command has emptied the file and is going to write it. *)
Replacing(p) == \E q \in Procs \ {p} : proc[q].step = "write"

Touches(p) == clash' = (clash \/ Replacing(p))

Goto(p, s) == proc' = [proc EXCEPT ![p].step = s]
Done(p) == proc' = [proc EXCEPT ![p] = Ready] /\ last' = proc[p].cmd

(* ensure_preload creates the file if need be and changes no content. *)
Start(p, cmd) ==
    /\ ~Busy(p) /\ runs < MaxRuns
    /\ proc' = [proc EXCEPT ![p] = [cmd |-> cmd, step |-> "look", tmp |-> <<>>]]
    /\ runs' = runs + 1
    /\ crowded' = (crowded \/ \E q \in Procs : Busy(q))
    /\ UNCHANGED <<file, faults, original, last, clash, torn>>

(* has_lib *)
HasLib(p) ==
    /\ proc[p].cmd = "enable" /\ proc[p].step = "look"
    /\ IF LibLines(file) > 0 THEN Done(p) ELSE Goto(p, "end") /\ UNCHANGED last
    /\ UNCHANGED <<file, runs, faults, original, crowded, clash, torn>>

(* Mutant: the end of the file is not looked at. *)
EndStepNever(f) == "append"

(* append_lib: does the last line lack its newline? *)
EndStep(f) == IF f # <<>> /\ Last(f) # NL THEN "newline" ELSE "append"

LookAtEnd(p) ==
    /\ proc[p].step = "end"
    /\ Goto(p, EndStep(file))
    /\ UNCHANGED <<file, runs, faults, original, last, crowded, clash, torn>>

AppendNewline(p) ==
    /\ proc[p].step = "newline"
    /\ Touches(p)
    /\ file' = Append(file, NL)
    /\ Goto(p, "append")
    /\ UNCHANGED <<runs, faults, original, last, crowded, torn>>

AppendLib(p) ==
    /\ proc[p].step = "append"
    /\ Touches(p)
    /\ file' = file \o Lib \o <<NL>>
    /\ Done(p)
    /\ UNCHANGED <<runs, faults, original, crowded, torn>>

(* Mutant: only the first of the library's lines is taken away. *)
FilteredFirst(f) == IF LibLines(f) = 0 THEN TextOf(LinesOf(f)) ELSE TextOf(RemoveFirst(LinesOf(f), Lib))

(* grep -Fxv *)
Filtered(f) == TextOf(OtherLines(f))

Filter(p) ==
    /\ proc[p].cmd = "disable" /\ proc[p].step = "look"
    /\ Touches(p)
    /\ proc' = [proc EXCEPT ![p].tmp = Filtered(file), ![p].step = "truncate"]
    /\ UNCHANGED <<file, runs, faults, original, last, crowded, torn>>

(* cat "$tmp" >"$preload": the shell opens the file, which empties it ... *)
Truncate(p) ==
    /\ proc[p].step = "truncate"
    /\ file' = <<>>
    /\ Goto(p, "write")
    /\ UNCHANGED <<runs, faults, original, last, crowded, clash, torn>>

(* ... and cat writes from its start, over what others have appended. *)
Write(p) ==
    /\ proc[p].step = "write"
    /\ file' = proc[p].tmp \o SubSeq(file, Len(proc[p].tmp) + 1, Len(file))
    /\ Goto(p, "clean")
    /\ UNCHANGED <<runs, faults, original, last, crowded, clash, torn>>

(* rm -f "$tmp" *)
Clean(p) ==
    /\ proc[p].step = "clean"
    /\ Done(p)
    /\ UNCHANGED <<file, runs, faults, original, crowded, clash, torn>>

(* The shell is killed, or its write fails and it removes the temporary    *)
(* file and exits.                                                         *)
Fault(p) ==
    /\ Busy(p) /\ faults < MaxFaults
    /\ proc' = [proc EXCEPT ![p] = Ready]
    /\ faults' = faults + 1
    /\ last' = None
    /\ torn' = (torn \/ proc[p].step = "write")
    /\ UNCHANGED <<file, runs, original, crowded, clash>>

Next ==
    \E p \in Procs :
        \/ \E cmd \in {"enable", "disable"} : Start(p, cmd)
        \/ HasLib(p) \/ LookAtEnd(p) \/ AppendNewline(p) \/ AppendLib(p)
        \/ Filter(p) \/ Truncate(p) \/ Write(p) \/ Clean(p)
        \/ Fault(p)

Spec == Init /\ [][Next]_vars

-----------------------------------------------------------------------------
(* Properties *)

(* The libraries of a file other than Lib: ld.so passes over blank lines. *)
Others(f) == Kept(LinesOf(f), Line \ {Lib, <<>>})

(* The other libraries of the file survive, in their order and none joined *)
(* to another or to Lib: with any number of commands at once, killed       *)
(* anywhere and run again, unless, between the truncation and the write of *)
(* a disable, that one is hit or another command filters the file or       *)
(* appends to it.  (Until the write, they are in the temporary file.)      *)
OthersKept ==
    ~torn /\ ~clash =>
        \/ Others(file) = Others(original)
        \/ \E p \in Procs : proc[p].step = "write" /\ Others(proc[p].tmp) = Others(original)

(* When nothing runs, an enable that was completed last, and not killed,   *)
(* has left the library listed, also when other commands ran beside it or  *)
(* a disable was cut short.  Of commands that ran one at a time, killed or *)
(* not, the last completed one has its effect: an enable leaves the        *)
(* library listed not more often than once or than at first, a disable     *)
(* leaves it not listed at all.                                            *)
LastCommandHolds ==
    (\A p \in Procs : ~Busy(p)) =>
        /\ last = "enable" => LibLines(file) > 0
        /\ ~crowded /\ last = "enable" => \/ LibLines(file) = 1
                                         \/ LibLines(file) <= LibLines(original)
        /\ ~crowded /\ last = "disable" => LibLines(file) = 0
=============================================================================
