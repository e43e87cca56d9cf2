----------------------------- MODULE GatewayUsage -----------------------------
(***************************************************************************)
(* The gateway's setUsageFunc and findBoolFlagEarly (src/unnamed/part_001).*)
(* At init, before cobra parses the command line, setUsageFunc asks        *)
(* findBoolFlagEarly("advanced") whether --advanced is set; if so the      *)
(* default usage (all flags) is kept, otherwise a usage func is installed  *)
(* that prints only the flags annotated as basic.                          *)
(*                                                                         *)
(* findBoolFlagEarly scans os.Args with string prefix tests.  An argument  *)
(* is abstracted to the tests it passes, so the arguments are the strings  *)
(* below, for flagName = "advanced".  os.Args[0], the program path, never  *)
(* starts with "--" and is left out.                                       *)
(***************************************************************************)
EXTENDS Naturals, Sequences, SequencesExt

CONSTANTS
  MaxArgs   \* longest command line explored

ASSUME MaxArgs \in Nat

Args == {"--advanced", "--advanced=true", "--advanced=false", "--advanced=0",
         "--advanced-x", "false", "other"}

\* strings.HasPrefix(arg, "--advanced")
HasFlagPrefix(arg) ==
  arg \in {"--advanced", "--advanced=true", "--advanced=false",
           "--advanced=0", "--advanced-x"}

\* strings.HasPrefix(arg, "--advanced=false")
HasFalsePrefix(arg) == arg = "--advanced=false"

VARIABLES
  args,      \* os.Args[1:]
  checked,   \* setUsageFunc has run
  advanced   \* findBoolFlagEarly("advanced"), i.e. the usage is not filtered

vars == <<args, checked, advanced>>

-----------------------------------------------------------------------------
\* Mutation: the look-ahead at the next argument stops one short of the end.
RECURSIVE FindFromShortLookahead(_, _)
FindFromShortLookahead(a, i) ==
  IF i > Len(a) THEN FALSE
  ELSE IF ~HasFlagPrefix(a[i]) THEN FindFromShortLookahead(a, i + 1)
  ELSE IF i < Len(a) - 1 /\ a[i + 1] = "false" THEN FALSE
  ELSE IF ~HasFalsePrefix(a[i]) THEN TRUE
  ELSE FindFromShortLookahead(a, i + 1)

\* The loop of findBoolFlagEarly from index i (1-based): skip arguments
\* without the prefix; "--advanced false" is false; an argument that is
\* not "--advanced=false..." is true; "--advanced=false" goes on to the
\* next argument.
RECURSIVE FindFrom(_, _)
FindFrom(a, i) ==
  IF i > Len(a) THEN FALSE
  ELSE IF ~HasFlagPrefix(a[i]) THEN FindFrom(a, i + 1)
  ELSE IF i # Len(a) /\ a[i + 1] = "false" THEN FALSE
  ELSE IF ~HasFalsePrefix(a[i]) THEN TRUE
  ELSE FindFrom(a, i + 1)

findBoolFlagEarly(a) == FindFrom(a, 1)

-----------------------------------------------------------------------------
(***************************************************************************)
(* Reference: the value cobra's flag parser gives the boolean flag         *)
(* --advanced.  Only the exact flag name is the flag; "=v" is parsed with  *)
(* strconv.ParseBool ("0" is false); the last occurrence wins; the unset   *)
(* flag is false.  The code's own convention is kept: "--advanced false"   *)
(* means false.                                                            *)
(***************************************************************************)
FlagForms == {"--advanced", "--advanced=true", "--advanced=false", "--advanced=0"}

FlagValue(a, i) ==
  CASE a[i] = "--advanced=true" -> TRUE
    [] a[i] \in {"--advanced=false", "--advanced=0"} -> FALSE
    [] a[i] = "--advanced" -> ~(i < Len(a) /\ a[i + 1] = "false")

Uses(a) == {i \in 1..Len(a) : a[i] \in FlagForms}

ParsedAdvanced(a) ==
  IF Uses(a) = {} THEN FALSE
  ELSE FlagValue(a, CHOOSE i \in Uses(a) : \A j \in Uses(a) : j <= i)

-----------------------------------------------------------------------------
\* Every command line of at most MaxArgs arguments.
Init ==
  /\ args \in BoundedSeq(Args, MaxArgs)
  /\ checked = FALSE
  /\ advanced = FALSE

\* setUsageFunc(rootCmd) at init: return early if findBoolFlagEarly
\* says --advanced, else install the filtering usage func.
SetUsageFunc ==
  /\ ~checked
  /\ checked' = TRUE
  /\ advanced' = findBoolFlagEarly(args)
  /\ UNCHANGED args

Next == SetUsageFunc

Spec == Init /\ [][Next]_vars

-----------------------------------------------------------------------------
TypeOK ==
  /\ args \in Seq(Args) /\ Len(args) <= MaxArgs
  /\ checked \in BOOLEAN /\ advanced \in BOOLEAN

\* The command lines that use the flag at most once, by its exact name,
\* with no value other than true or false, and with a "false" argument
\* only as the value of "--advanced".
SingleExactUse(a) ==
  /\ \A i \in 1..Len(a) :
       /\ HasFlagPrefix(a[i]) => a[i] \in FlagForms \ {"--advanced=0"}
       /\ a[i] = "false" => i > 1 /\ a[i - 1] = "--advanced"
  /\ \A i, j \in Uses(a) : i = j

(***************************************************************************)
(* On a command line that names --advanced at most once, by its exact     *)
(* name and with a true or false value, the early scan decides the usage   *)
(* as the parsed flag will: "--advanced" last, "--advanced false" and      *)
(* "--advanced=false" are told apart at every position.                    *)
(***************************************************************************)
EarlyScanAgreesOnSingleUse ==
  checked /\ SingleExactUse(args) => advanced = ParsedAdvanced(args)

=============================================================================
