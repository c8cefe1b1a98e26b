---------------------------- MODULE ParserEngine ----------------------------
(***************************************************************************)
(* The parser of src/shared/parser.c, an automaton given as a table of       *)
(* states and transitions and fed one byte at a time, running the one table  *)
(* the repository builds by program: parser_utils_strcmpi, which compares    *)
(* what is fed with a word, whatever the case of its letters.                *)
(***************************************************************************)
EXTENDS Integers, Sequences

CONSTANTS Input,    \* bytes that may be fed
          Words,    \* words a parser is built for
          MaxFed    \* bound: bytes fed between two resets

ASSUME ParserAssumption ==
    /\ Input \subseteq 0 .. 255
    /\ Words \subseteq Seq(1 .. 255)     \* a C string holds no NUL
    /\ MaxFed \in Nat

VARIABLES word,      \* what the parser compares with
          state,     \* p->state
          events,    \* the list parser_feed returns: e1 and what follows it
          aborted,   \* the address sanitizer ended the process
          fed        \* ghost: the bytes since the last reset

parser_vars == <<word, state, events, aborted, fed>>

-----------------------------------------------------------------------------
(* The table.                                                               *)

ANY == 2 ^ 9

(* classes[0xFF], all zero: 255 elements.                                    *)
classes == [c \in 0 .. 254 |-> 0]

(* char is signed: a byte above 127 becomes negative.                        *)
Char(b) == IF b > 127 THEN b - 256 ELSE b

tolower(c) == IF c \in 65 .. 90 THEN c + 32 ELSE c
toupper(c) == IF c \in 97 .. 122 THEN c - 32 ELSE c

StEq(s)  == Len(s)
StNeq(s) == Len(s) + 1

Otherwise(s) == [when |-> ANY, dest |-> StNeq(s), acts |-> <<"NEQ">>]

(* Faulty variant: the letter after the last but one taken for the last.     *)
StatesEarly(s) ==
    [k \in 0 .. StNeq(s) |->
        IF k >= Len(s)
        THEN <<Otherwise(s)>>
        ELSE LET on(c) == [when |-> c, dest |-> IF k + 2 >= Len(s) THEN StEq(s) ELSE k + 1,
                           acts |-> IF k + 2 >= Len(s) THEN <<"EQ">> ELSE <<"MAYEQ">>]
             IN  <<on(tolower(Char(s[k + 1]))), on(toupper(Char(s[k + 1]))), Otherwise(s)>>]

(* parser_utils_strcmpi: state k, for k letters that matched, takes the next *)
(* letter in either case; the last letter leads to the state EQ, which is    *)
(* state Len(s), anything else to NEQ, which is never left.                  *)
States(s) ==
    [k \in 0 .. StNeq(s) |->
        IF k >= Len(s)
        THEN <<Otherwise(s)>>
        ELSE LET on(c) == [when |-> c, dest |-> k + 1,
                           acts |-> IF k + 1 = Len(s) THEN <<"EQ">> ELSE <<"MAYEQ">>]
             IN  <<on(tolower(Char(s[k + 1]))), on(toupper(Char(s[k + 1]))), Otherwise(s)>>]

-----------------------------------------------------------------------------
(* The engine.                                                              *)

(* A bit that both numbers have: type & when.                                *)
Common(x, y) == \E b \in 0 .. 31 : (x \div 2 ^ b) % 2 = 1 /\ (y \div 2 ^ b) % 2 = 1

(* Whether a transition takes the byte: a byte, anything, or a class.        *)
Matches(t, c) ==
    \/ t.when <= 255 /\ c = t.when
    \/ t.when = ANY
    \/ t.when > 255 /\ t.when # ANY /\ Common(classes[c], t.when)

(* The first transition of a row that takes the byte, if any does.           *)
Taken(row, c) ==
    {k \in DOMAIN row : Matches(row[k], c) /\ \A j \in 1 .. k - 1 : ~Matches(row[j], c)}

parser_init ==
    /\ word \in Words
    /\ state = 0
    /\ events = <<[type |-> "MAYEQ", data |-> 0]>>
    /\ aborted = FALSE
    /\ fed = <<>>

(* The transition's actions write the events, one each, and the state moves; *)
(* if none takes the byte, e1 is returned as it was, without e2.             *)
parser_feed(c) ==
    /\ ~aborted /\ Len(fed) < MaxFed
    /\ c \in DOMAIN classes
    /\ fed' = Append(fed, c)
    /\ LET row == States(word)[state]
           hit == Taken(row, c)
       IN  IF hit = {}
           THEN events' = <<events[1]>> /\ UNCHANGED state
           ELSE \E k \in hit :
                  /\ events' = [a \in DOMAIN row[k].acts |-> [type |-> row[k].acts[a], data |-> c]]
                  /\ state' = row[k].dest
    /\ UNCHANGED <<word, aborted>>

(* p->classes[c] behind the end of the array.                                *)
FeedOutside(c) ==
    /\ ~aborted /\ Len(fed) < MaxFed
    /\ c \notin DOMAIN classes
    /\ aborted' = TRUE
    /\ UNCHANGED <<word, state, events, fed>>

parser_reset ==
    /\ ~aborted
    /\ state' = 0 /\ fed' = <<>>
    /\ UNCHANGED <<word, events, aborted>>

ParserNext ==
    \/ \E c \in Input : parser_feed(c) \/ FeedOutside(c)
    \/ parser_reset

ParserSpec == parser_init /\ [][ParserNext]_parser_vars

-----------------------------------------------------------------------------
(* Properties.                                                              *)

(* Every variable has its type: a state of the table, one event.             *)
ParserTypeOK ==
    /\ word \in Words
    /\ state \in 0 .. StNeq(word)
    /\ events \in Seq([type : {"MAYEQ", "EQ", "NEQ"}, data : 0 .. 255]) /\ Len(events) = 1
    /\ aborted \in BOOLEAN
    /\ fed \in Seq(0 .. 254)

(* The same letter in either case.  A letter of the word that is not ASCII    *)
(* is the same as none.                                                      *)
SameLetter(s, c) == s <= 127 /\ tolower(s) = tolower(c)

Agrees(w, s) == Len(w) <= Len(s) /\ \A k \in 1 .. Len(w) : SameLetter(s[k], w[k])

(* The event for the bytes w, by what the comparison means.                  *)
Expected(w, s) ==
    IF ~Agrees(w, s) THEN "NEQ" ELSE IF Len(w) = Len(s) THEN "EQ" ELSE "MAYEQ"

(* After each byte the one event says how all the bytes since the reset       *)
(* compare with the word (parser_utils.h:25-28): equal, a beginning of it,   *)
(* or neither, from then on; and it carries the byte.                        *)
Verdict ==
    fed # <<>> => events = <<[type |-> Expected(fed, word), data |-> fed[Len(fed)]]>>

(* parser_feed takes any uint8_t and parser.h:63 gives classes 256 elements;  *)
(* refuted: byte 255 reads behind the 255 of parser_no_classes.              *)
TakesEveryByte == ~aborted

(* "Crea un parser que verifica que los caracteres recibidos forment el texto *)
(* descripto por s" (parser_utils.h:25); refuted: a letter above 127 is a    *)
(* negative char, which no byte equals.                                      *)
OwnTextMatches == fed = word /\ fed # <<>> => events[1].type = "EQ"

=============================================================================
