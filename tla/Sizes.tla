------------------------------- MODULE Sizes -------------------------------
(***************************************************************************)
(* The sizes and durations a user may write: parse_bytes of src/config.rs  *)
(* for the server, parse_size and parse_duration of                        *)
(* src/bin/blitzctl/cache_cli.rs, which read sizes apart from it.          *)
(*                                                                         *)
(* A text is a number with an optional "+" and the letters behind it, as   *)
(* lower case; spaces between them do not matter.                          *)
(***************************************************************************)
EXTENDS Integers, Sequences

CONSTANTS
  NoSize,   \* a text that is refused
  Kibi,     \* 1024
  Kilo,     \* 1000
  Limit     \* the first number that is no u64

ASSUME SizesAssumption == Kibi \in Nat \ {0} /\ Kilo \in Nat \ {0} /\ Limit \in Nat \ {0}

Letters == <<"k", "m", "g", "t", "p">>

\* The powers of the letters from the first to the n-th.
Powers(letters, base) ==
  [l \in {letters[i] : i \in DOMAIN letters} |->
     base ^ (CHOOSE i \in DOMAIN letters : letters[i] = l)]

\* checked_mul; the number itself is read as a u64 first.
Times(number, multiplier) ==
  IF number >= Limit \/ number * multiplier >= Limit THEN NoSize ELSE number * multiplier

(* parse_bytes: binary units with one letter, decimal ones with a "b"; a   *)
(* sign is not a digit.                                                    *)
ParseBytes(text) ==
  IF text.plus THEN NoSize
  ELSE CASE text.unit = <<>> -> Times(text.number, 1)
         [] Len(text.unit) = 1 /\ text.unit[1] \in DOMAIN Powers(Letters, Kibi) ->
              Times(text.number, Powers(Letters, Kibi)[text.unit[1]])
         [] Len(text.unit) = 2 /\ text.unit[1] \in DOMAIN Powers(Letters, Kilo) /\ text.unit[2] = "b" ->
              Times(text.number, Powers(Letters, Kilo)[text.unit[1]])
         [] OTHER -> NoSize

(* The option of a YAML file may also be a number.                         *)
FromYaml(value) == IF value.kind = "number" THEN Times(value.number, 1) ELSE ParseBytes(value)

(* One letter of the given multipliers; u64::from_str takes a sign.        *)
ParseUnit(text, multipliers) ==
  CASE text.unit = <<>> -> Times(text.number, 1)
    [] Len(text.unit) = 1 /\ text.unit[1] \in DOMAIN multipliers ->
         Times(text.number, multipliers[text.unit[1]])
    [] OTHER -> NoSize

(* parse_size of blitzctl find: four letters, all of them binary.          *)
ParseSize(text) == ParseUnit(text, Powers(SubSeq(Letters, 1, 4), Kibi))

\* Seconds in a letter.
Spans == [s |-> 1, m |-> 60, h |-> 3600, d |-> 86400, w |-> 604800]

\* parse_duration
ParseDuration(text) == ParseUnit(text, Spans)

=============================================================================
