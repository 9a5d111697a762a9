------------------------------- MODULE Bytes -------------------------------
(***************************************************************************)
(* The loops over bytes and digits that everything else relies on:         *)
(* memfunc.cpp, Convert (convert.h) and the checksum of the internet       *)
(* protocols (src/src/net/ipv4.cpp), against what they should compute.     *)
(***************************************************************************)
EXTENDS Integers, Sequences, SequencesExt

CONSTANTS
    B,              \* values of a byte, 256
    Cells,          \* bytes of memory the memory functions are tried on
    Lengths,        \* of data that is summed
    Numbers,        \* written out
    Longs           \* values of an unsigned long, 2^32

(* What the constants must satisfy.                                        *)
ConstantsOK == B % 2 = 0 /\ B > 0 /\ Numbers \subseteq Int /\ Longs \in Nat \ {0}

VARIABLES
    work,           \* the function called, and its arguments
    result          \* what it has made; <<>> before

vars == <<work, result>>

----------------------------------------------------------------------------
(* Memory functions.  Cell k holds k, so that a copy shows where it came   *)
(* from.                                                                   *)
Memory == [k \in 0 .. Cells - 1 |-> k]

CopyByte(mem, dst, src, k) == [mem EXCEPT ![dst + k] = mem[src + k]]

memcpy(dst, src, size) ==
    LET copied[k \in 0 .. size] ==
            IF k = 0 THEN Memory ELSE CopyByte(copied[k - 1], dst, src, k - 1)
    IN  copied[size]

(* Forward if the copy lies before the original, and backward otherwise.   *)
memmove(dst, src, size) ==
    LET copied[k \in 0 .. size] ==
            IF k = 0 THEN Memory ELSE CopyByte(copied[k - 1], dst, src, size - k)
    IN  IF dst < src THEN memcpy(dst, src, size) ELSE copied[size]

(* By words of four bytes, and the rest by bytes.                          *)
memset(dest, val, n) ==
    LET dwords == n \div 4
        bytes == n % 4
        filled == [k \in 0 .. Cells - 1 |->
                     IF k - dest \in 0 .. 4 * dwords - 1 THEN val ELSE Memory[k]]
    IN  [k \in 0 .. Cells - 1 |->
            IF k - (dest + 4 * dwords) \in 0 .. bytes - 1 THEN val ELSE filled[k]]

----------------------------------------------------------------------------
(* Checksum: words in network order, an odd byte last, carries added       *)
(* again.  The odd byte goes through char, which is signed.                *)
W == B * B

OddByte(c) == (IF c < B \div 2 THEN c ELSE W - B + c) * B

Carried(t) ==
    LET f[x \in Nat] == IF x < W THEN x ELSE f[(x % W) + (x \div W)]
    IN  f[t]

Sum(data) ==
    LET n == Len(data) \div 2
        words[i \in 0 .. n] ==
            IF i = 0 THEN 0 ELSE words[i - 1] + data[2 * i - 1] * B + data[2 * i]
    IN  words[n]

Checksum(data) ==
    LET temp == Sum(data) + (IF Len(data) % 2 = 1 THEN OddByte(Last(data)) ELSE 0)
        value == (W - 1) - Carried(temp)
    IN  <<value \div B, value % B>>

----------------------------------------------------------------------------
(* Convert: characters are numbers that count from the character "0".      *)
Minus == -3
Plus == -5
Letter == 49                        \* "a"
Space == -16
Blanks == {Space} \cup (-39 .. -35)   \* and tab, the ends of lines and pages

(* itoa(i): C rounds a quotient towards 0, so that the digits of a         *)
(* negative number come out negative, as characters before "0".            *)
Quotient(a, b) == IF a < 0 THEN -((-a) \div b) ELSE a \div b
Remainder(a, b) == a - b * Quotient(a, b)

itoa(i) ==
    LET digits[n \in Int] ==
            IF n = 0 THEN <<>> ELSE Append(digits[Quotient(n, 10)], Remainder(n, 10))
    IN  IF i = 0 THEN <<0>> ELSE digits[i]

(* itoa(buf, n, base): n is unsigned, and there is always a digit.         *)
Character(d) == IF d < 10 THEN d ELSE Letter + (d - 10)

itoaBase(n, base) ==
    LET digits[m \in Nat] ==
            IF m < base THEN <<Character(m)>>
            ELSE Append(digits[m \div base], Character(m % base))
    IN  digits[n % Longs]

(* A wrong atoi for the mutation runs: a plus sign ends it.                *)
SignsMinusOnly == {Minus}

Signs == {Minus, Plus}

(* atoi: blanks, a sign, and digits up to the first character that is none.*)
Length(string, chars) ==
    Min({k \in 0 .. Len(string) : k = Len(string) \/ string[k + 1] \notin chars})

Without(string, n) == SubSeq(string, n + 1, Len(string))

atoi(string) ==
    LET text == Without(string, Length(string, Blanks))
        signed == text # <<>> /\ text[1] \in Signs
        digits == IF signed THEN Tail(text) ELSE text
        value[k \in 0 .. Len(digits)] ==
            IF k = 0 THEN 0 ELSE 10 * value[k - 1] + digits[k]
        number == value[Length(digits, 0 .. 9)]
    IN  IF signed /\ text[1] = Minus THEN -number ELSE number

----------------------------------------------------------------------------
Data == UNION {[1 .. n -> 0 .. B - 1] : n \in Lengths}

Works ==
    {w \in [f : {"memmove", "memcpy"}, dst : 0 .. Cells - 1, src : 0 .. Cells - 1, n : 0 .. Cells] :
        w.dst + w.n <= Cells /\ w.src + w.n <= Cells}
    \cup {w \in [f : {"memset"}, dst : 0 .. Cells - 1, n : 0 .. Cells] : w.dst + w.n <= Cells}
    \cup [f : {"Checksum"}, data : Data]
    \cup [f : {"itoa"}, n : Numbers] \cup [f : {"itoaBase"}, n : Numbers, base : {2, 10, 16}]
    \cup [f : {"atoi"}, blanks : {<<>>, <<Space, -39>>}, n : Numbers \cap Nat,
          sign : {<<>>, <<Minus>>, <<Plus>>, <<Plus, Minus>>, <<Minus, Space>>},
          rest : {<<>>, <<Letter, 1>>, <<Minus, 1>>}]

Init == work \in Works /\ result = <<>>

Filler == -1

Call ==
    /\ result' = CASE work.f = "memmove" -> memmove(work.dst, work.src, work.n)
                   [] work.f = "memcpy" -> memcpy(work.dst, work.src, work.n)
                   [] work.f = "memset" -> memset(work.dst, Filler, work.n)
                   [] work.f = "Checksum" -> Checksum(work.data)
                   [] work.f = "itoa" -> itoa(work.n)
                   [] work.f = "itoaBase" -> itoaBase(work.n, work.base)
                   [] work.f = "atoi" ->
                         <<atoi(work.blanks \o work.sign \o itoa(work.n) \o work.rest)>>
    /\ UNCHANGED work

Next == Call
Spec == Init /\ [][Next]_vars

----------------------------------------------------------------------------
(* memmove copies the original even over itself, memcpy when the copy does *)
(* not begin inside it; memset fills what it is told to and no more.       *)
Copied == [k \in 0 .. Cells - 1 |->
    IF k - work.dst \in 0 .. work.n - 1 THEN work.src + (k - work.dst) ELSE k]

Filled == [k \in 0 .. Cells - 1 |->
    IF k - work.dst \in 0 .. work.n - 1 THEN Filler ELSE k]

Inside == work.dst - work.src \in 1 .. work.n - 1

(* The receiver adds all words, the checksum too, and must get all ones.   *)
(* So it does unless the data has an odd length and its last byte is one   *)
(* that counts as negative.                                                *)
Verifies(data, sum) ==
    LET padded == IF Len(data) % 2 = 1 THEN Append(data, 0) ELSE data
    IN  Carried(Sum(padded \o sum)) = W - 1

Negative(data) == Len(data) % 2 = 1 /\ Last(data) >= B \div 2

(* A number of 0 or more is written in digits, with no 0 in front, and     *)
(* atoi reads it back; a negative one is not, and atoi reads 0.            *)
DigitsRight(n, digits) ==
    /\ (\A k \in DOMAIN digits : digits[k] \in 0 .. 9) <=> n >= 0
    /\ atoi(digits) = IF n >= 0 THEN n ELSE 0
    /\ Len(digits) > 1 => digits[1] # 0

(* With a base the digits are the number's, as far as it is unsigned.      *)
Digit(c) == CHOOSE d \in 0 .. 35 : Character(d) = c

BaseRight(n, base, string) ==
    LET value[k \in 0 .. Len(string)] ==
            IF k = 0 THEN 0 ELSE base * value[k - 1] + Digit(string[k])
    IN  /\ \A k \in DOMAIN string : string[k] \in {Character(d) : d \in 0 .. base - 1}
        /\ value[Len(string)] = n % Longs
        /\ Len(string) > 1 => string[1] # 0

(* What atoi is to give: the number with its one sign, whatever blanks are *)
(* before and characters behind; and 0 if no digit follows the sign.       *)
Signed(sign, n) == CASE sign \in {<<>>, <<Plus>>} -> n [] sign = <<Minus>> -> -n [] OTHER -> 0

BytesRight ==
    result # <<>> =>
        CASE work.f = "memmove" -> result = Copied
          [] work.f = "memcpy" -> result = Copied <=> (~Inside \/ work.n = 0)
          [] work.f = "memset" -> result = Filled
          [] work.f = "Checksum" -> Verifies(work.data, result) <=> ~Negative(work.data)
          [] work.f = "itoa" -> DigitsRight(work.n, result)
          [] work.f = "itoaBase" -> BaseRight(work.n, work.base, result)
          [] work.f = "atoi" -> result = <<Signed(work.sign, work.n)>>
=============================================================================
