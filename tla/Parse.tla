-------------------------------- MODULE Parse --------------------------------
(***************************************************************************)
(* argparser/parse.py: from the words of a command line to the fields of   *)
(* Data, in the old format (ParamILS) and in the new one (AClib2, known by *)
(* "--config").                                                            *)
(*                                                                         *)
(* A word is [text, bare, dash, number, before, after]: bare is the text   *)
(* without the single quotes around it; dash tells whether argparse takes  *)
(* it for an option, as it does with "--"; number is its value or          *)
(* NoNumber; of --seed=7, before is "--seed" and after the word 7 (else "" *)
(* and None).  A float is given in units of 1/Unit of a second, and        *)
(* 1 / Unit stands for the 1e-10 of the rounding.                          *)
(***************************************************************************)
EXTENDS Integers, Sequences, TLC

LOCAL INSTANCE SequencesExt

CONSTANTS
    Unit,       \* units in a second
    Exact,      \* seconds from which a double has no digit left for 1e-10 (2^20)
    MaxInt      \* 2^31 - 1

ASSUME ParseAssumption ==
    Unit \in Nat \ {0} /\ Exact \in Nat \ {0} /\ MaxInt \in Nat

NoNumber == -1000

\* get_parser(), get_extended_parser() and SatWrapper.__init__(): the options
\* that take a value, and the two that take none.
GeneralOptions == {"--runsolver-path", "--temp-file-dir", "--mem-limit",
                   "--max_quality", "--sol-file", "--sat-checker"}
ExtendedOptions == {"--instance", "--cutoff", "--seed"}
IntOptions == {"--mem-limit", "--cutoff", "--seed"}
Flag == "--overwrite_cost_runtime"
Help == "--help"

NewFormat(words) == \E k \in DOMAIN words : words[k].text = "--config"
OptionsOf(words) ==
    GeneralOptions \cup IF NewFormat(words) THEN ExtendedOptions ELSE {}

\* The option is given the value; an int or a float must be one.
Stored(state, option, value) ==
    [state EXCEPT !.args = (option :> value) @@ @, !.pending = "",
                  !.bad = @ \/ (option \in IntOptions /\ value.number = NoNumber)]

\* After "--", which is left itself, no word is an option any more.
Recognised(state, options) ==
    IF \E k \in DOMAIN state.rest : state.rest[k].text = "--" THEN {}
    ELSE options \cup {Flag, Help}

\* parse_known_args(): an option takes what follows "=" or else the next word,
\* wherever it stands, also among the parameters of the target; the words that
\* are left keep their order.  --help ends the program, and no value may be given
\* to it or to the flag.
Taken(state, word, options) ==
    IF state.pending # ""
    THEN [Stored(state, state.pending, word) EXCEPT !.bad = @ \/ word.dash]
    ELSE IF {word.text, word.before} \cap Recognised(state, options) = {}
    THEN [state EXCEPT !.rest = Append(@, word)]
    ELSE IF word.text = Flag THEN [state EXCEPT !.flag = TRUE]
    ELSE IF word.text \in options THEN [state EXCEPT !.pending = word.text]
    ELSE IF word.before \in options THEN Stored(state, word.before, word.after)
    ELSE [state EXCEPT !.bad = TRUE]

NothingKnown ==
    [pending |-> "", args |-> <<>>, flag |-> FALSE, rest |-> <<>>, bad |-> FALSE]
Known(words) ==
    LET state[n \in 0..Len(words)] ==
          IF n = 0 THEN NothingKnown
          ELSE Taken(state[n - 1], words[n], OptionsOf(words))
    IN  state[Len(words)]
Given(words, option) == option \in DOMAIN Known(words).args

\* A dictionary of the pairs, without the quotes around the values: a last word
\* alone is dropped.
MutPairsFromZero(rest) ==
    LET names == {rest[k].text : k \in {n \in DOMAIN rest : n % 2 = 0 /\ n < Len(rest)}}
    IN  [name \in names |-> rest[1 + CHOOSE k \in DOMAIN rest :
            /\ k % 2 = 0 /\ k < Len(rest) /\ rest[k].text = name
            /\ \A n \in DOMAIN rest :
                  n % 2 = 0 /\ n < Len(rest) /\ rest[n].text = name => n <= k].bare]

Pairs(rest) ==
    LET Names == {n \in DOMAIN rest : n % 2 = 1 /\ n < Len(rest)}
    IN  [name \in {rest[n].text : n \in Names} |->
            rest[1 + CHOOSE k \in Names :
                    /\ rest[k].text = name
                    /\ \A n \in Names : rest[n].text = name => n <= k].bare]

\* int(c + 1 - 1e-10), which cuts off the fraction, at most MaxInt
Truncated(n) == IF n >= 0 THEN n \div Unit ELSE -((-n) \div Unit)

MutRoundsDown(asked) ==
    IF Truncated(asked) > MaxInt THEN MaxInt ELSE Truncated(asked)

Rounded(asked) ==
    LET up == Truncated(asked + IF asked < Exact * Unit THEN Unit - 1 ELSE Unit)
    IN  IF up > MaxInt THEN MaxInt ELSE up

(***************************************************************************)
(* parse_config_old(): instance, specifics, cutoff, runlength, seed, then  *)
(* the parameters.  parse_config_new(): what follows "--config".           *)
(***************************************************************************)
None == [text |-> "None", number |-> NoNumber]
Arg(words, option) ==
    IF Given(words, option) THEN Known(words).args[option] ELSE None

ParseConfigOld(words) ==
    LET rest == Known(words).rest
    IN  [instance |-> rest[1], specifics |-> rest[2].text,
         asked |-> rest[3].number, cutoff |-> Rounded(rest[3].number),
         config |-> Pairs(SubSeq(rest, 6, Len(rest)))]

ParseConfigNew(words) ==
    LET rest  == Known(words).rest
        start == CHOOSE k \in DOMAIN rest :
                    /\ rest[k].text = "--config"
                    /\ \A n \in 1..k - 1 : rest[n].text # "--config"
        asked == Arg(words, "--cutoff").number
    IN  [instance |-> Arg(words, "--instance"), specifics |-> "None",
         asked |-> asked, cutoff |-> IF asked = NoNumber THEN -1 ELSE Rounded(asked),
         config |-> Pairs(SubSeq(rest, start + 1, Len(rest)))]

ParsedLine(words) ==
    IF NewFormat(words) THEN ParseConfigNew(words) ELSE ParseConfigOld(words)

\* Lines on which parse() ends neither with an error nor with the help message.
Accepted(words) ==
    LET known == Known(words)
    IN  /\ ~known.bad /\ known.pending = ""
        /\ NewFormat(words) \/ /\ Len(known.rest) >= 5
                               /\ \A n \in 3..5 : known.rest[n].number # NoNumber
=============================================================================
