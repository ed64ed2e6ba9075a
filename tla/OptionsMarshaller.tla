-------------------------- MODULE OptionsMarshaller --------------------------
(***************************************************************************)
(* The options loop of PyFaxAPI.send_fax (src/api/pyfax.py 239-247):       *)
(*                                                                         *)
(*   c_options = FaxSendOptions()                                          *)
(*   for key, value in options.items():                                    *)
(*       if hasattr(c_options, key):                                       *)
(*           setattr(c_options, key, value.encode() if str else value)     *)
(*                                                                         *)
(* options is the JSON object of the request.  A key is a field of the     *)
(* FaxSendOptions Structure (of C type char*, int, float or bool), another *)
(* attribute of the object (read-only, such as __class__ or _objects, or   *)
(* writable, such as __doc__), or unknown.  A JSON value is abstracted to  *)
(* its kind and one number: the value of an int or float, 0/1 for a bool,  *)
(* the length of a string, list or object (an object behaves as a list    *)
(* here).  What ctypes does with each (type, value) pair is Setattr.       *)
(***************************************************************************)
EXTENDS Integers, Sequences

CONSTANTS
    Keys,       \* the option names a request may carry
    KeyType,    \* what each name is on a FaxSendOptions object
    IntBits,    \* the width of a C int
    Inputs      \* the options objects (as sequences of items) to consider

KeyTypes == {"char", "int", "float", "bool", "readonly", "plain", "unknown"}

FieldTypes == {"char", "int", "float", "bool"}

JSONKinds == {"str", "int", "float", "bool", "null", "list"}

\* A JSON value: true and false are 1 and 0, null carries 0.
JSONValue ==
    {v \in [kind : JSONKinds, num : Int] :
        /\ v.kind = "bool" => v.num \in {0, 1}
        /\ v.kind = "null" => v.num = 0}

Item == [key : Keys, val : JSONValue]

\* options.items() of a dict: no key occurs twice.
DistinctKeys(s) ==
    \A i, j \in 1 .. Len(s) : s[i].key = s[j].key => i = j

\* Half the values of a C int of IntBits bits: 2^31 for the real int.
CIntHalf == 2 ^ (IntBits - 1)

\* A C int has at least 2 bits (16 in the C standard).
ASSUME MarshallerAssumption ==
    /\ KeyType \in [Keys -> KeyTypes]
    /\ IntBits \in Nat /\ IntBits >= 2
    /\ Inputs \subseteq {s \in Seq(Item) : DistinctKeys(s)}

\* The same fact about CIntHalf, in a form the provers can use: they do not
\* interpret ^.
ASSUME CIntHalfAssumption == CIntHalf \in Nat /\ CIntHalf >= 2

\* The fields of FaxSendOptions.
Fields == {k \in Keys : KeyType[k] \in FieldTypes}

\* What a field holds: its zero default, text (bytes), a NULL char* (from
\* None or the address 0), a char* made from a nonzero integer address, or
\* a number.
Default == [kind |-> "default", num |-> 0]

Held == [kind : {"default", "text", "null", "address", "int", "float", "bool"},
         num : Int]

\* The values a C int of IntBits bits holds.
CInt == -CIntHalf .. CIntHalf - 1

\* Mutant of Wrap: the low bits read as an unsigned number.
WrapUnsigned(n) == n % (2 * CIntHalf)

\* A C int keeps the low IntBits bits, read as two's complement: ctypes
\* does no overflow check on c_int fields.
Wrap(n) ==
    LET m == n % (2 * CIntHalf)
    IN  IF m >= CIntHalf THEN m - 2 * CIntHalf ELSE m

\* Python truthiness, which a c_bool field stores.
Truthy(v) == v.kind # "null" /\ v.num # 0

\* setattr raised (TypeError or AttributeError).
Raise == [kind |-> "raise", num |-> 0]

\* A c_char_p field takes bytes (the encoded str), None, or an integer as
\* an address, 0 being NULL; a float or a list raises TypeError.
ToChar(v) ==
    IF v.kind = "str" THEN [kind |-> "text", num |-> v.num]
    ELSE IF v.kind = "null" \/ (v.kind \in {"int", "bool"} /\ v.num = 0)
         THEN [kind |-> "null", num |-> 0]
    ELSE IF v.kind \in {"int", "bool"} THEN [kind |-> "address", num |-> v.num]
    ELSE Raise

\* A c_int field takes an int (wrapped) or a bool (0 or 1); anything else,
\* the bytes of a str included, raises TypeError.
ToInt(v) ==
    IF v.kind = "int" THEN [kind |-> "int", num |-> Wrap(v.num)]
    ELSE IF v.kind = "bool" THEN [kind |-> "int", num |-> v.num]
    ELSE Raise

\* A c_float field takes any number.
ToFloat(v) ==
    IF v.kind \in {"int", "float", "bool"} THEN [kind |-> "float", num |-> v.num]
    ELSE Raise

\* A c_bool field takes any value, as its truthiness.
ToBool(v) == [kind |-> "bool", num |-> IF Truthy(v) THEN 1 ELSE 0]

\* setattr(c_options, key, value) after the str -> bytes encoding, by the
\* key's type: the new contents of the field, or Raise (setting a
\* read-only attribute raises TypeError or AttributeError).
Setattr(t, v) ==
    IF t = "char" THEN ToChar(v)
    ELSE IF t = "int" THEN ToInt(v)
    ELSE IF t = "float" THEN ToFloat(v)
    ELSE IF t = "bool" THEN ToBool(v)
    ELSE Raise

VARIABLES
    options,    \* the request's options, as the sequence options.items()
    items,      \* the items of options.items() not yet processed
    opts,       \* the FaxSendOptions fields
    status      \* "running", "done", or "raised" when setattr raised

vars == <<options, items, opts, status>>

TypeOK ==
    /\ options \in Seq(Item)
    /\ items \in Seq(Item)
    /\ opts \in [Fields -> Held]
    /\ status \in {"running", "done", "raised"}
    /\ \A f \in Fields :
          /\ opts[f].kind = "int" => opts[f].num \in CInt
          /\ opts[f].kind = "bool" => opts[f].num \in {0, 1}

\* The value options gives for key k (its keys are distinct: a dict).
Given(k) == LET i == CHOOSE i \in 1..Len(options) : options[i].key = k
            IN  options[i].val

Named(k) == \E i \in 1..Len(options) : options[i].key = k

\* Key k has been through the loop.
Processed(k) == Named(k) /\ ~\E i \in 1..Len(items) : items[i].key = k

\* FaxSendOptions() zero-fills every field; the loop starts.  An empty
\* options dict (if options: false) is the empty sequence.
Init ==
    /\ options \in Inputs
    /\ items = options
    /\ opts = [f \in Fields |-> Default]
    /\ status = "running"

\* hasattr(c_options, key) is False: the item is dropped.
Skip ==
    /\ status = "running" /\ items # <<>>
    /\ KeyType[Head(items).key] = "unknown"
    /\ items' = Tail(items)
    /\ UNCHANGED <<options, opts, status>>

\* A writable attribute that is not a field: setattr stores it on the
\* Python object, which the C call never reads.
SetPlain ==
    /\ status = "running" /\ items # <<>>
    /\ KeyType[Head(items).key] = "plain"
    /\ items' = Tail(items)
    /\ UNCHANGED <<options, opts, status>>

\* setattr on a field, or on a read-only attribute: the exception leaves
\* the loop (and send_fax) at this item.
Set ==
    /\ status = "running" /\ items # <<>>
    /\ KeyType[Head(items).key] \notin {"unknown", "plain"}
    /\ LET it  == Head(items)
           out == Setattr(KeyType[it.key], it.val)
       IN  IF out = Raise
           THEN status' = "raised" /\ UNCHANGED <<items, opts>>
           ELSE /\ opts' = [opts EXCEPT ![it.key] = out]
                /\ items' = Tail(items)
                /\ UNCHANGED status
    /\ UNCHANGED options

\* The loop ends; fax_api_send_fax gets the structure.
Finish ==
    /\ status = "running" /\ items = <<>>
    /\ status' = "done"
    /\ UNCHANGED <<options, items, opts>>

\* After the loop, or after the exception, the marshaller does nothing more.
Stopped ==
    /\ status # "running"
    /\ UNCHANGED vars

Next == Skip \/ SetPlain \/ Set \/ Finish \/ Stopped

Spec == Init /\ [][Next]_vars

-----------------------------------------------------------------------------
(***************************************************************************)
(* Spec 4.2 (and the options record of spec 3): marshal "never fails",     *)
(* drops unknown names, and coerces each value to its field's type: an int *)
(* field receives the JSON integer given for it, a string field "any       *)
(* textual value verbatim" (text or NULL).  send_fax's loop raises on a    *)
(* value of the wrong type or a read-only attribute key; ctypes wraps an   *)
(* integer to the C int's width and takes a number for a char* as a        *)
(* pointer address.                                                        *)
(***************************************************************************)
MarshalContract ==
    /\ status # "raised"
    /\ \A f \in Fields :
          /\ (KeyType[f] = "int" /\ Processed(f) /\ Given(f).kind = "int")
                => opts[f].num = Given(f).num
          /\ KeyType[f] = "char" => opts[f].kind # "address"

=============================================================================
