------------------------------ MODULE Arguments -----------------------------
(***************************************************************************)
(* reorderArgs (cmd/earl/main.go): ff stops looking for flags at the first *)
(* positional, so the flags behind a subcommand's path are moved ahead of  *)
(* it.  An argument is what its spelling makes of it: a flag that consumes *)
(* the next argument, one that does not (a boolean one, or one written     *)
(* with "="), a word, or "--".  out, flags and positionals hold places of  *)
(* the command line.                                                       *)
(***************************************************************************)
EXTENDS Naturals, Sequences

CONSTANTS MaxArgs   \* bounds the command line

ASSUME ArgumentsAssumption == MaxArgs \in Nat

Kinds == {"valueFlag", "flag", "word", "--"}
isFlag(arg) == arg \in {"valueFlag", "flag"}

VARIABLES args, section, place, out, flags, positionals

arguments == <<args, section, place, out, flags, positionals>>

ArgumentsInit ==
  /\ args \in UNION {[1 .. n -> Kinds] : n \in 0 .. MaxArgs}
  /\ section = "root" /\ place = 1
  /\ out = <<>> /\ flags = <<>> /\ positionals = <<>>

Rest(n) == [k \in 1 .. Len(args) + 1 - n |-> n + k - 1]

(* Mutant of Consumed: a flag's value is left where it is. *)
FlagAlone(n) == <<n>>

(* The flag at n and, if there is one, the value it consumes. *)
Consumed(n) ==
  IF args[n] = "valueFlag" /\ n < Len(args) THEN <<n, n + 1>> ELSE <<n>>

(* The root flags and the subcommand's name stay where they are. *)
RootFlag ==
  /\ section = "root" /\ place <= Len(args) /\ isFlag(args[place])
  /\ out' = out \o Consumed(place)
  /\ place' = place + Len(Consumed(place))
  /\ UNCHANGED <<args, section, flags, positionals>>

Name ==
  /\ section = "root" /\ place <= Len(args) /\ args[place] = "word"
  /\ out' = Append(out, place) /\ place' = place + 1 /\ section' = "subcommand"
  /\ UNCHANGED <<args, flags, positionals>>

RootEnd ==
  /\ section = "root" /\ (place <= Len(args) => args[place] = "--")
  /\ out' = out \o Rest(place)
  /\ section' = "done"
  /\ UNCHANGED <<args, place, flags, positionals>>

SubcommandFlag ==
  /\ section = "subcommand" /\ place <= Len(args) /\ isFlag(args[place])
  /\ flags' = flags \o Consumed(place)
  /\ place' = place + Len(Consumed(place))
  /\ UNCHANGED <<args, section, out, positionals>>

Positional ==
  /\ section = "subcommand" /\ place <= Len(args) /\ args[place] = "word"
  /\ positionals' = Append(positionals, place) /\ place' = place + 1
  /\ UNCHANGED <<args, section, out, flags>>

(* "--", and all that follows it, is positional. *)
SubcommandEnd ==
  /\ section = "subcommand" /\ (place <= Len(args) => args[place] = "--")
  /\ positionals' = positionals \o Rest(place)
  /\ out' = out \o flags \o positionals'
  /\ section' = "done"
  /\ UNCHANGED <<args, place, flags>>

ArgumentsNext ==
  RootFlag \/ Name \/ RootEnd \/ SubcommandFlag \/ Positional \/ SubcommandEnd

ArgumentsSpec == ArgumentsInit /\ [][ArgumentsNext]_arguments

-----------------------------------------------------------------------------
(* What each of a list of arguments is taken for, if flags may follow words or, as
   in ff, may not. *)
Roles(list, flagsFollowWords) ==
  LET role[k \in 1 .. Len(list)] ==
        LET earlier == {role[j] : j \in 1 .. k - 1} IN
        IF "end" \in earlier \/ ("word" \in earlier /\ ~flagsFollowWords) THEN "word"
        ELSE IF k > 1 /\ role[k - 1] = "flag" /\ list[k - 1] = "valueFlag" THEN "value"
        ELSE IF list[k] = "--" THEN "end"
        ELSE IF isFlag(list[k]) THEN "flag"
        ELSE IF "name" \in earlier THEN "word" ELSE "name"
  IN role

(* The line ends in a flag that lacks its value. *)
Dangling(list) ==
  list # <<>> /\ list[Len(list)] = "valueFlag" /\ Roles(list, TRUE)[Len(list)] = "flag"

(* ff takes the new order as the old one was meant: the same flags with the same
   values, the same subcommand, the same words in the same order.  Left out are lines
   that end in a flag without its value: reorderArgs moves it in front of the path,
   and ff takes the path for the value.  A "--" counts as a word: ff takes one that it
   comes to behind a word for a word, and reorderArgs keeps it behind the words that
   were in front of it. *)
ParsedAsMeant ==
  section = "done" /\ ~Dangling(args) =>
    LET meant == Roles(args, TRUE)
        taken == Roles([k \in DOMAIN out |-> args[out[k]]], FALSE)
        Word(role) == role \in {"word", "end"} IN
    /\ Len(out) = Len(args) /\ {out[k] : k \in DOMAIN out} = DOMAIN args
    /\ \A k \in DOMAIN out :
         taken[k] = meant[out[k]] \/ (Word(taken[k]) /\ Word(meant[out[k]]))
    /\ \A k, l \in DOMAIN out :
         k < l /\ (Word(taken[k]) <=> Word(taken[l])) => out[k] < out[l]
=============================================================================
