------------------------ MODULE MC_OptionsMarshaller ------------------------
(***************************************************************************)
(* One key of each kind FaxSendOptions has (pyfax.py 23-53): a char*, an   *)
(* int, a float and a bool field, a read-only and a writable attribute     *)
(* that hasattr reports, and a name it does not.  A C int of 4 bits keeps  *)
(* TLC's integers small: 8 is the first value that does not fit, as 2^31   *)
(* is for the real 32-bit int.                                             *)
(***************************************************************************)
EXTENDS OptionsMarshaller, TLC

MCKeyType ==
    [k \in {"recipient", "maxRetries", "vResolution", "useECM",
            "__class__", "__doc__", "faxNumber"} |->
        CASE k = "recipient"   -> "char"
          [] k = "maxRetries"  -> "int"
          [] k = "vResolution" -> "float"
          [] k = "useECM"      -> "bool"
          [] k = "__class__"   -> "readonly"
          [] k = "__doc__"     -> "plain"
          [] OTHER             -> "unknown"]

MCKeys == DOMAIN MCKeyType

MCIntBits == 4

\* JSON values: numbers 0, 1 and 2^(IntBits-1); strings, lists and objects
\* of those lengths; true and false; null.
MCValues ==
    {[kind |-> k, num |-> n] : k \in {"str", "int", "float", "list"},
                               n \in {0, 1, 2 ^ (MCIntBits - 1)}}
    \cup {[kind |-> "bool", num |-> n] : n \in {0, 1}}
    \cup {[kind |-> "null", num |-> 0]}

MCItems == [key : MCKeys, val : MCValues]

\* options.items() of a dict of at most two entries: distinct keys.
MCInputs ==
    {<<>>} \cup {<<i>> : i \in MCItems}
    \cup {p \in MCItems \X MCItems : p[1].key # p[2].key}
=============================================================================
