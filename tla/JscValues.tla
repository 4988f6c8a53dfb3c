----------------------------- MODULE JscValues ------------------------------
(***************************************************************************)
(* What crosses between Rust and JavaScript besides strings: primitive     *)
(* values, reads that convert nothing, and the errors of host functions    *)
(* (experimental.rs, experimental/common.rs).                              *)
(*                                                                         *)
(* The content of a value is a sequence of numbers: the characters of a    *)
(* string as JscStrings has them, the number, or 0 or 1 for a Boolean.     *)
(***************************************************************************)
EXTENDS JscStrings

CONSTANTS
  FailedMessage,         \* "native host function failed"
  PanicMessage,          \* "Rust host function panicked"
  ErrorPrefix            \* "Error: ", which the engine puts before a message

(* The fixed messages fit, and the prefix is longer than the part of a      *)
(* character that a cut may leave out.                                     *)
ASSUME CrossingAssumption ==
  /\ Bytes(ErrorPrefix \o FailedMessage) <= MAX_MESSAGE_BYTES
  /\ Bytes(ErrorPrefix \o PanicMessage) <= MAX_MESSAGE_BYTES
  /\ Bytes(ErrorPrefix) > 3

(* Value: what Rust gives to JavaScript. *)
Value == {"Undefined", "Null", "Boolean", "Number", "String"}

(* Values of the engine: type, content, and what kind of object. *)
Raw(type, content) == [type |-> type, content |-> content, shape |-> "None"]
Object(shape)      == [type |-> "Object", content |-> <<>>, shape |-> shape]

ObjectShapes == {"Plain", "Function", "TypedArray", "Raises"}

(* Results: a value's content, or an error. *)
Ok(content)  == [content |-> content, error |-> "None", actual |-> "None"]
Err(error)   == [content |-> <<>>, error |-> error, actual |-> "None"]
Kind(actual) == [content |-> <<>>, error |-> "None", actual |-> actual]

value_to_raw(type, content) == Raw(type, content)

(* Looking for a typed array may raise an exception. *)
object_kind(v) ==
  CASE v.shape = "Function"   -> Kind("Function")
    [] v.shape = "Raises"     -> Err("Exception")
    [] v.shape = "TypedArray" -> Kind("Buffer")
    [] OTHER                  -> Kind("Object")

raw_kind(v) ==
  CASE v.type \in Value \cup {"Symbol", "BigInt"} -> Kind(v.type)
    [] v.type = "Object"                          -> object_kind(v)
    [] OTHER                                      -> Err("Failure")

(* A value of another kind is refused with its kind, or with the error that *)
(* finding its kind ended in.                                              *)
Refused(v) ==
  IF raw_kind(v).error # "None" THEN raw_kind(v) ELSE [raw_kind(v) EXCEPT !.error = "Type"]

as_boolean(v) == IF v.type = "Boolean" THEN Ok(v.content) ELSE Refused(v)
as_number(v)  == IF v.type = "Number" THEN Ok(v.content) ELSE Refused(v)
to_string(v)  == IF v.type = "String" THEN Ok(copy_js_string(v.content)) ELSE Refused(v)

strict_boolean(v) == IF v.type = "Boolean" THEN Ok(v.content) ELSE Err("Type")
strict_number(v)  == IF v.type = "Number" THEN Ok(v.content) ELSE Err("Type")
----------------------------------------------------------------------------
(* HostError::new and redacted. *)
HostError(message)         == [is |-> "Error", message |-> message, disclosure |-> "Exposed"]
RedactedHostError(message) == [is |-> "Error", message |-> message, disclosure |-> "Redacted"]

(* contain_unwind stops a panic, whatever it carries. *)
Panicked == [is |-> "Panic"]

javascript_message(error) ==
  IF error.disclosure = "Exposed" THEN error.message ELSE FailedMessage

WithSuffix(m) == IF m.truncated THEN m.text \o [i \in 1 .. SUFFIX_BYTES |-> 1] ELSE m.text

(* write_exception: the message of the Error that JavaScript catches. *)
write_exception(outcome) ==
  WithSuffix(truncate_for_engine(
    IF outcome.is = "Panic" THEN PanicMessage ELSE javascript_message(outcome)))

(* exception_to_owned of an Error that nobody caught: JsException, which    *)
(* map_js_error and BackendException keep as it is.                         *)
exception_to_owned(outcome) == CopyException(ErrorPrefix \o write_exception(outcome))
----------------------------------------------------------------------------
(* Reads convert nothing: one gives back what Rust sent, or refuses every   *)
(* other kind and says which it is.  Both interfaces refuse the same.       *)
StrictReads(texts) ==
  /\ \A type \in Value, content \in texts :
       LET v == value_to_raw(type, content)
       IN  /\ raw_kind(v) = Kind(type)
           /\ \A read \in {as_boolean(v), as_number(v), to_string(v)} :
                read \in {Ok(content), [Kind(type) EXCEPT !.error = "Type"]}
           /\ (to_string(v) = Ok(content)) = (type = "String")
           /\ (as_number(v) = Ok(content)) = (type = "Number")
           /\ (as_boolean(v) = Ok(content)) = (type = "Boolean")
  /\ \A v \in {Object(shape) : shape \in ObjectShapes} \cup {Raw(t, <<>>) : t \in {"Symbol", "BigInt", "Unknown"}} :
       {as_boolean(v).error, as_number(v).error, to_string(v).error} =
         {IF v.shape = "Raises" THEN "Exception" ELSE IF v.type = "Unknown" THEN "Failure" ELSE "Type"}
  /\ \A v \in {Raw(t, <<1>>) : t \in Value \cup {"Symbol"}} \cup {Object(shape) : shape \in ObjectShapes} :
       /\ (strict_number(v).error = "None") = (as_number(v).error = "None")
       /\ (strict_boolean(v).error = "None") = (as_boolean(v).error = "None")

(* A message that crosses to JavaScript and back stays within its size and  *)
(* is a part of what was sent, all of it if it fits; of a redacted error    *)
(* or of a panic nothing crosses.                                           *)
BoundedDisclosure(texts) ==
  \A s \in texts :
    LET back == exception_to_owned(HostError(s))
        sent == ErrorPrefix \o s
    IN  /\ Bytes(write_exception(HostError(s))) <= MAX_MESSAGE_BYTES
        /\ Bytes(WithSuffix(back)) <= MAX_MESSAGE_BYTES
        /\ IF Bytes(sent) <= MAX_MESSAGE_BYTES
             THEN back = [text |-> sent, truncated |-> FALSE]
             ELSE IsPrefix(back.text, sent)
        /\ exception_to_owned(RedactedHostError(s)) = exception_to_owned(HostError(FailedMessage))
        /\ exception_to_owned(Panicked) = exception_to_owned(HostError(PanicMessage))
=============================================================================
