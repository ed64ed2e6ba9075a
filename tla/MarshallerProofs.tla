-------------------------- MODULE MarshallerProofs --------------------------
(***************************************************************************)
(* Proof about the options loop of send_fax (OptionsMarshaller): every     *)
(* field of FaxSendOptions keeps a value of its C type, the int fields a  *)
(* value of the signed C int range that ctypes' silent wrap produces.     *)
(***************************************************************************)
EXTENDS OptionsMarshaller, TLAPS

(***************************************************************************)
(* Wrapping to the C int width always yields a C int.                      *)
(***************************************************************************)
LEMMA WrapInCInt ==
    ASSUME NEW n \in Int
    PROVE  Wrap(n) \in CInt
BY CIntHalfAssumption DEF Wrap, CInt

(***************************************************************************)
(* A setattr that does not raise stores a value of the field's C type: an *)
(* int field a C int, a bool field 0 or 1.                                 *)
(***************************************************************************)
LEMMA SetattrTyped ==
    ASSUME NEW t \in FieldTypes \cup {"readonly"}, NEW v \in JSONValue,
           Setattr(t, v) # Raise
    PROVE  /\ Setattr(t, v) \in Held
           /\ Setattr(t, v).kind = "int" => Setattr(t, v).num \in CInt
           /\ Setattr(t, v).kind = "bool" => Setattr(t, v).num \in {0, 1}
<1>1. v.kind \in JSONKinds /\ v.num \in Int
  BY DEF JSONValue
<1>2. CASE t = "char"
  BY <1>1, <1>2 DEF Setattr, ToChar, ToInt, ToFloat, ToBool, Held, Raise
<1>3. CASE t = "int"
  <2>1. Wrap(v.num) \in CInt
    BY <1>1, WrapInCInt
  <2>2. v.kind = "bool" => v.num \in {0, 1}
    BY DEF JSONValue
  <2>3. {0, 1} \subseteq CInt
    BY CIntHalfAssumption DEF CInt
  <2> QED
    BY <1>1, <1>3, <2>1, <2>2, <2>3, CIntHalfAssumption DEF Setattr, ToChar, ToInt, ToFloat, ToBool, Held, Raise, CInt
<1>4. CASE t = "float"
  BY <1>1, <1>4 DEF Setattr, ToChar, ToInt, ToFloat, ToBool, Held, Raise
<1>5. CASE t = "bool"
  BY <1>1, <1>5 DEF Setattr, ToChar, ToInt, ToFloat, ToBool, Held, Raise
<1>6. CASE t = "readonly"
  BY <1>6 DEF Setattr, Raise
<1> QED
  BY <1>2, <1>3, <1>4, <1>5, <1>6 DEF FieldTypes

-----------------------------------------------------------------------------
\* TypeOK is inductive by itself.
LEMMA InitTypeOK == Init => TypeOK
  BY MarshallerAssumption DEF Init, TypeOK, Default, Held

(***************************************************************************)
(* Every step of the loop keeps the fields typed: Skip and SetPlain only  *)
(* drop the head item, and a Set that does not raise writes a value of    *)
(* the field's C type.                                                     *)
(***************************************************************************)
LEMMA NextTypeOK == TypeOK /\ [Next]_vars => TypeOK'
<1> SUFFICES ASSUME TypeOK, [Next]_vars PROVE TypeOK'
  OBVIOUS
<1>1. options \in Seq(Item) /\ items \in Seq(Item) /\ opts \in [Fields -> Held]
  BY DEF TypeOK
<1>2. CASE Skip \/ SetPlain
  <2>1. /\ items # <<>> /\ items' = Tail(items)
        /\ options' = options /\ opts' = opts /\ status' = status
    BY <1>2 DEF Skip, SetPlain
  <2>2. items' \in Seq(Item)
    BY <1>1, <2>1
  <2> QED
    BY <2>1, <2>2 DEF TypeOK
<1>3. CASE Set /\ Setattr(KeyType[Head(items).key], Head(items).val) = Raise
  BY <1>3 DEF Set, TypeOK
<1>4. CASE Set /\ Setattr(KeyType[Head(items).key], Head(items).val) # Raise
  <2> DEFINE it  == Head(items)
             k   == it.key
             out == Setattr(KeyType[k], it.val)
  <2>1. /\ items # <<>> /\ items' = Tail(items) /\ options' = options
        /\ opts' = [opts EXCEPT ![k] = out] /\ status' = status
        /\ KeyType[k] \notin {"unknown", "plain"}
    BY <1>4 DEF Set
  <2>2. it \in Item /\ items' \in Seq(Item)
    BY <1>1, <2>1
  <2>3. k \in Fields /\ KeyType[k] \in FieldTypes \cup {"readonly"}
    BY <1>4, <2>1, <2>2, MarshallerAssumption DEF Fields, FieldTypes, KeyTypes, Item, Setattr
  <2>4. /\ out \in Held
        /\ out.kind = "int" => out.num \in CInt
        /\ out.kind = "bool" => out.num \in {0, 1}
    BY <1>4, <2>2, <2>3, SetattrTyped DEF Item
  <2> QED
    BY <1>1, <2>1, <2>2, <2>3, <2>4 DEF TypeOK
<1>5. CASE Finish
  BY <1>5 DEF Finish, TypeOK
<1>6. CASE Stopped \/ UNCHANGED vars
  <2>1. UNCHANGED vars
    BY <1>6 DEF Stopped
  <2>2. options' = options /\ items' = items /\ opts' = opts /\ status' = status
    BY <2>1 DEF vars
  <2> QED
    BY <2>2 DEF TypeOK
<1> QED
  BY <1>2, <1>3, <1>4, <1>5, <1>6 DEF Next

(***************************************************************************)
(* For every set of option names, every C int width and every set of      *)
(* options dicts: the fields of the FaxSendOptions structure that send_fax *)
(* builds always hold values of their C types.                             *)
(***************************************************************************)
THEOREM MarshallerTypeCorrect == Spec => []TypeOK
BY InitTypeOK, NextTypeOK, PTL DEF Spec

=============================================================================
