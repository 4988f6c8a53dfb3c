----------------------------- MODULE JscStrings -----------------------------
(***************************************************************************)
(* Copies of JavaScript strings into Rust: whole (copy_js_string), within  *)
(* what a callback may still copy (copy_js_string_with_limit), and cut to  *)
(* the size of a diagnostic (exception_message.rs).                        *)
(*                                                                         *)
(* A string is the sequence of its characters, and a character is the      *)
(* number of its UTF-8 bytes, 1 to 4: no code tells two apart otherwise.   *)
(***************************************************************************)
EXTENDS Naturals, SequencesExt

CONSTANTS
  NoString,              \* Err instead of a string
  MAX_MESSAGE_BYTES,     \* the size of a diagnostic, 4096 in the code
  SUFFIX_BYTES           \* the length of TRUNCATION_SUFFIX, 15 in the code

(* The suffix is longer than the part of a character a copy can stop short of. *)
ASSUME MessageAssumption ==
  /\ MAX_MESSAGE_BYTES \in Nat /\ SUFFIX_BYTES \in 3 .. MAX_MESSAGE_BYTES

Bytes(s) == SumFunction(s)

(* UTF-16 code units: only a character of four bytes takes two. *)
Units(s) == SumFunction([i \in DOMAIN s |-> IF s[i] = 4 THEN 2 ELSE 1])

(* The longest part from the start, of whole characters, within n bytes. *)
Fitting(s, n) ==
  SubSeq(s, 1, Max({k \in 0 .. Len(s) : Bytes(SubSeq(s, 1, k)) <= n}))

(* JSStringGetMaximumUTF8CStringSize, with the terminating NUL. *)
MaximumUtf8Size(s) == 3 * Units(s) + 1

(* JSStringGetUTF8CString stops before the first character that does not fit. *)
GetUtf8(s, capacity) == IF capacity = 0 THEN <<>> ELSE Fitting(s, capacity - 1)

copy_js_string(s) == GetUtf8(s, MaximumUtf8Size(s))

(* Mutant: no byte for the terminating NUL. *)
CopyWithoutNul(s, remaining) ==
  LET value == GetUtf8(s, Min({MaximumUtf8Size(s), remaining}))
  IN  IF Units(value) < Units(s) THEN NoString ELSE value

copy_js_string_with_limit(s, remaining) ==
  LET value == GetUtf8(s, Min({MaximumUtf8Size(s), remaining + 1}))
  IN  IF Units(value) < Units(s) \/ Bytes(value) > remaining THEN NoString ELSE value

(* A character boundary at or before the place for the suffix. *)
truncation_end(s) ==
  Len(Fitting(s, Min({Bytes(s), MAX_MESSAGE_BYTES - SUFFIX_BYTES})))

Truncate(s) == [text |-> SubSeq(s, 1, truncation_end(s)), truncated |-> TRUE]

truncate_for_engine(s) ==
  IF Bytes(s) <= MAX_MESSAGE_BYTES THEN [text |-> s, truncated |-> FALSE] ELSE Truncate(s)

(* exception_message::copy. *)
CopyException(s) ==
  LET message == GetUtf8(s, Min({MaximumUtf8Size(s), MAX_MESSAGE_BYTES + 1}))
  IN  IF Units(message) < Units(s)
        THEN Truncate(message) ELSE [text |-> message, truncated |-> FALSE]

(* What the copies of some texts promise; see CrossingsAreExact. *)
ExactCopies(texts) ==
  \A s \in texts :
    LET message == CopyException(s)
    IN  /\ copy_js_string(s) = s
        /\ \A limit \in 0 .. Bytes(s) + 1 :
             copy_js_string_with_limit(s, limit) = IF Bytes(s) <= limit THEN s ELSE NoString
        /\ message = truncate_for_engine(s) /\ IsPrefix(message.text, s)
        /\ message.truncated = (Bytes(s) > MAX_MESSAGE_BYTES)
        /\ IF message.truncated
             THEN Bytes(message.text) + SUFFIX_BYTES \in MAX_MESSAGE_BYTES - 3 .. MAX_MESSAGE_BYTES
             ELSE message.text = s
=============================================================================
