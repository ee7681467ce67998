-------------------------------- MODULE QrCode --------------------------------
(* The QR code of the toolbar when no library makes it (qr_util.py): the field  *)
(* GF(256) and its polynomials, the codewords of a text, and the matrix. A step *)
(* is one round of a loop, or one part that is drawn, in the order of the code: *)
(* what is drawn later may cover what was drawn before.                         *)
EXTENDS Integers, Sequences, FiniteSets, TLC

LOCAL INSTANCE Bitwise
LOCAL INSTANCE SequencesExt
LOCAL INSTANCE Functions

CONSTANT Lengths    \* lengths of the text in bytes

ASSUME LengthsAssumption == Lengths \subseteq Nat

VARIABLES
    exp,        \* GF_EXP, the half that is repeated
    log,        \* GF_LOG
    text,       \* utf8_bytes
    at,         \* what is worked out or drawn next
    gen,        \* poly, and later gen
    codewords,  \* msg, and in the end final_codewords
    divided,    \* rounds of the loop of rs_encode
    drawn,      \* matrix where is_func holds
    right,      \* the column of the loop that places the bits
    upward,     \* up
    next,       \* the number of bits placed so far
    placed,     \* matrix where is_func does not hold: the number of the bit there
    result      \* final_result

field == <<exp, log>>
words == <<gen, codewords, divided>>
loop == <<right, upward, next, placed>>
vars == <<field, text, at, words, drawn, loop, result>>

\* Addition, of bytes and of bits before the reduction.
Plus(x, y) == x ^^ y

-------------------------------------------------------------------------------
\* GF(256), modulo 0x11D.

Twice(x) == IF 2 * x < 256 THEN 2 * x ELSE Plus(2 * x, 285)

\* exp[i + 1] is GF_EXP[i].
Power(i) == exp[(i % 255) + 1]

gf_mul(x, y) == IF x = 0 \/ y = 0 THEN 0 ELSE Power(log[x] + log[y])

\* One round of _init_gf.
InitGf ==
    /\ at = "field" /\ Len(exp) < 255
    /\ LET x == IF exp = <<>> THEN 1 ELSE Twice(Last(exp))
       IN  /\ exp' = Append(exp, x)
           /\ log' = [log EXCEPT ![x] = Len(exp)]
    /\ UNCHANGED <<text, at, words, drawn, loop, result>>

-------------------------------------------------------------------------------
\* Versions and codewords.

Spec_(size, data, ec, alignment) ==
    [size |-> size, data |-> data, ec |-> ec, alignment |-> alignment]

VERSION_SPECS == <<
    Spec_(21, 19, 7, {}), Spec_(25, 34, 10, {6, 18}), Spec_(29, 55, 15, {6, 22}),
    Spec_(33, 80, 20, {6, 26}), Spec_(37, 108, 26, {6, 30}), Spec_(41, 136, 36, {6, 34}),
    Spec_(45, 156, 40, {6, 22, 38})>>

\* The first version with room for the text, or the last one, room or not.
MutantVersionOf(len) ==
    LET fit == {v \in DOMAIN VERSION_SPECS : VERSION_SPECS[v].data >= len}
    IN  IF fit = {} THEN 7 ELSE CHOOSE v \in fit : \A w \in fit : v <= w
VersionOf(len) ==
    LET fit == {v \in DOMAIN VERSION_SPECS : VERSION_SPECS[v].data >= len + 3}
    IN  IF fit = {} THEN 7 ELSE CHOOSE v \in fit : \A w \in fit : v <= w

Bits(value, length) == [i \in 1 .. length |-> (value \div 2 ^ (length - i)) % 2]

\* Mode, length, text, terminator, the rest of a byte, and the padding.
DataBytes(bytes) ==
    LET total == 8 * VERSION_SPECS[VersionOf(Len(bytes))].data
        Bytes(s) == [i \in 1 .. 8 * Len(s) |-> Bits(s[(i + 7) \div 8], 8)[((i - 1) % 8) + 1]]
        body == Bits(4, 4) \o Bits(Len(bytes), 8) \o Bytes(bytes)
        room == total - Len(body)
        ended == body \o Bits(0, IF room < 0 THEN 0 ELSE IF room < 4 THEN room ELSE 4)
        whole == ended \o Bits(0, (-Len(ended)) % 8)
        missing == (total - Len(whole)) \div 8
        pad == [i \in 1 .. (IF missing < 0 THEN 0 ELSE missing) |-> IF i % 2 = 1 THEN 236 ELSE 17]
        all == whole \o Bytes(pad)
    IN  [i \in 1 .. Len(all) \div 8 |->
            FoldLeft(LAMBDA b, j : 2 * b + all[8 * (i - 1) + j], 0, [j \in 1 .. 8 |-> j])]

spec == VERSION_SPECS[VersionOf(Len(text))]
size == spec.size

\* A text is told apart by its length; its bytes are of no consequence here.
Text(len) == [i \in 1 .. len |-> (37 * i + 11) % 256]

Init ==
    /\ exp = <<>> /\ log = [x \in 1 .. 255 |-> 0]
    /\ text = <<>>
    /\ at = "field"
    /\ gen = <<1>> /\ codewords = <<>> /\ divided = 0
    /\ drawn = <<>>
    /\ right = 0 /\ upward = TRUE /\ next = 0 /\ placed = <<>>
    /\ result = <<>>

\* generate_qr_matrix is called.
Call(len) ==
    /\ at = "field" /\ Len(exp) = 255
    /\ text' = Text(len)
    /\ at' = "generator"
    /\ UNCHANGED <<field, words, drawn, loop, result>>

\* rs_generator_poly: one round of the loop, or the return to rs_encode. The
\* coefficient of x^0 comes first.
rs_generator_poly ==
    /\ at = "generator"
    /\ LET degree == Len(gen)
       IN  IF degree <= spec.ec
           THEN /\ gen' = [j \in 1 .. degree + 1 |->
                             Plus(IF j > degree THEN 0 ELSE gf_mul(gen[j], Power(degree - 1)),
                                  IF j = 1 THEN 0 ELSE gen[j - 1])]
                /\ UNCHANGED <<at, codewords>>
           ELSE /\ codewords' = DataBytes(text) \o [i \in 1 .. spec.ec |-> 0]
                /\ at' = "division"
                /\ UNCHANGED gen
    /\ UNCHANGED <<field, text, divided, drawn, loop, result>>

\* rs_encode: one round of the division, which takes gen[0] for the leading
\* coefficient, or the codewords that come of it.
rs_encode ==
    /\ at = "division"
    /\ LET i == divided + 1
           last == Len(codewords) - spec.ec
       IN  IF i <= last
           THEN /\ codewords' = [k \in DOMAIN codewords |->
                                   IF k \in i .. i + spec.ec
                                   THEN Plus(codewords[k], gf_mul(gen[k - i + 1], codewords[i]))
                                   ELSE codewords[k]]
                /\ divided' = i
                /\ UNCHANGED at
           ELSE /\ codewords' = DataBytes(text) \o SubSeq(codewords, i, Len(codewords))
                /\ at' = "finders"
                /\ UNCHANGED divided
    /\ UNCHANGED <<field, text, gen, drawn, loop, result>>

-------------------------------------------------------------------------------
\* The matrix.

Grid == (0 .. size - 1) \X (0 .. size - 1)

\* set_func: later drawings cover earlier ones.
Draw(picture) == drawn' = picture @@ drawn

Abs(x) == IF x < 0 THEN -x ELSE x
Far(r, c) == IF Abs(r) < Abs(c) THEN Abs(c) ELSE Abs(r)

\* A finder pattern with its light border, which may lie outside of the grid.
Finder(r0, c0) ==
    [m \in Grid \intersect ((r0 - 1 .. r0 + 7) \X (c0 - 1 .. c0 + 7)) |->
        Far(m[1] - r0 - 3, m[2] - c0 - 3) \in {0, 1, 3}]

Finders == Finder(0, 0) @@ Finder(0, size - 7) @@ Finder(size - 7, 0)

Timing == [m \in ({6} \X (8 .. size - 9)) \union ((8 .. size - 9) \X {6}) |-> (m[1] + m[2]) % 2 = 0]

\* Alignment patterns stand clear of the finders.
AlignmentAt ==
    {p \in spec.alignment \X spec.alignment :
        /\ ~(p[1] <= 8 /\ p[2] <= 8)
        /\ ~(p[1] <= 8 /\ p[2] >= size - 8)
        /\ ~(p[1] >= size - 8 /\ p[2] <= 8)}

Alignment ==
    [m \in UNION {(p[1] - 2 .. p[1] + 2) \X (p[2] - 2 .. p[2] + 2) : p \in AlignmentAt} |->
        \E p \in AlignmentAt : Far(m[1] - p[1], m[2] - p[2]) \in {0, 2}]

DrawFinders ==
    /\ at = "finders"
    /\ Draw(Finders)
    /\ at' = "timing"
    /\ UNCHANGED <<field, text, words, loop, result>>

DrawTiming ==
    /\ at = "timing"
    /\ Draw(Timing)
    /\ at' = "alignment"
    /\ UNCHANGED <<field, text, words, loop, result>>

DrawAlignment ==
    /\ at = "alignment"
    /\ Draw(Alignment)
    /\ at' = "format"
    /\ UNCHANGED <<field, text, words, loop, result>>

\* The modules of the format are kept free, and one that is always dark is set.
FormatArea == ({8} \X (0 .. 8)) \union ((0 .. 8) \X {8})
              \union ({8} \X (size - 8 .. size - 1)) \union ((size - 8 .. size - 1) \X {8})

ReserveFormat ==
    /\ at = "format"
    /\ drawn' = drawn @@ (<<size - 8, 8>> :> TRUE) @@ [m \in FormatArea |-> FALSE]
    /\ right' = size - 1
    /\ at' = "bits"
    /\ UNCHANGED <<field, text, words, upward, next, placed, result>>

\* The modules of the columns right and right - 1 that are still free, in the
\* order in which they are filled; a loop that comes to column 6 takes 5 and 4.
Columns(col) == LET first == IF col = 6 THEN 5 ELSE col IN <<first, first - 1>>

MutantFilled(col, up) ==        \* always upwards
    SelectSeq([k \in 1 .. 2 * size |-> <<size - 1 - (k - 1) \div 2, Columns(col)[((k - 1) % 2) + 1]>>],
              LAMBDA m : m \notin DOMAIN drawn)
Filled(col, up) ==
    LET Row(vert) == IF up THEN size - 1 - vert ELSE vert
    IN  SelectSeq([k \in 1 .. 2 * size |-> <<Row((k - 1) \div 2), Columns(col)[((k - 1) % 2) + 1]>>],
                  LAMBDA m : m \notin DOMAIN drawn)

\* One round of the loop over range(size - 1, 0, -2).
PlaceBits ==
    /\ at = "bits"
    /\ right > 0
    /\ LET filled == Filled(right, upward)
       IN  /\ placed' = [m \in Range(filled) |-> next + CHOOSE i \in DOMAIN filled : filled[i] = m]
                         @@ placed
           /\ next' = next + Len(filled)
    /\ right' = right - 2
    /\ upward' = ~upward
    /\ UNCHANGED <<field, text, words, at, drawn, result>>

\* The n-th bit of the codewords, counted from 1; there is none after the last.
BitAt(n) ==
    n <= 8 * Len(codewords) /\ Bits(codewords[(n + 7) \div 8], 8)[((n - 1) % 8) + 1] = 1

\* The mask, and the format in two copies.
Format == Reverse(Bits(30660, 15))     \* Format[i + 1] is get_fbit(i) of 0x77C4

FormatBits ==
    (<<size - 8, 8>> :> TRUE)
    @@ [m \in {8} \X (size - 7 .. size - 1) |-> Format[m[2] - size + 16] = 1]
    @@ [m \in (size - 8 .. size - 1) \X {8} |-> Format[size - m[1]] = 1]
    @@ [m \in (0 .. 5) \X {8} |-> Format[15 - m[1]] = 1]
    @@ (<<7, 8>> :> (Format[9] = 1)) @@ (<<8, 8>> :> (Format[8] = 1)) @@ (<<8, 7>> :> (Format[7] = 1))
    @@ [m \in {8} \X (0 .. 5) |-> Format[m[2] + 1] = 1]

Mask(m) == (m[1] + m[2]) % 2 = 0

Finish ==
    /\ at = "bits"
    /\ right = 0
    /\ LET Bit(m) == m \in DOMAIN placed /\ BitAt(placed[m])
       IN  result' = FormatBits @@ drawn @@ [m \in Grid \ DOMAIN drawn |-> Bit(m) # Mask(m)]
    /\ at' = "done"
    /\ UNCHANGED <<field, text, words, drawn, loop>>

Next ==
    \/ InitGf \/ (\E len \in Lengths : Call(len)) \/ rs_generator_poly \/ rs_encode
    \/ DrawFinders \/ DrawTiming \/ DrawAlignment \/ ReserveFormat
    \/ PlaceBits \/ Finish

Spec == Init /\ [][Next]_vars

-------------------------------------------------------------------------------
Fits == \E v \in DOMAIN VERSION_SPECS : VERSION_SPECS[v].data >= Len(text) + 3

\* Everything that is drawn or placed lies in the grid (the lists of the code would
\* raise IndexError, or wrap around), and the matrix is complete in the end.
TypeOK ==
    /\ at \in {"field", "generator", "division", "finders", "timing", "alignment", "format", "bits", "done"}
    /\ DOMAIN drawn \subseteq Grid /\ \A m \in DOMAIN drawn : drawn[m] \in BOOLEAN
    /\ \A n \in DOMAIN codewords : codewords[n] \in 0 .. 255
    /\ DOMAIN placed \subseteq Grid /\ \A m \in DOMAIN placed : placed[m] \in 1 .. next
    /\ right \in 0 .. size - 1 /\ upward \in BOOLEAN
    /\ at = "done" => DOMAIN result = Grid /\ \A m \in Grid : result[m] \in BOOLEAN

\* Power(i) is a root of a polynomial, the coefficient of x^0 first: every bit is
\* set in an even number of its terms.
IsRoot(poly, i) ==
    \A b \in 0 .. 7 :
        Cardinality({k \in DOMAIN poly :
            (gf_mul(poly[k], Power(i * (k - 1))) \div 2 ^ b) % 2 = 1}) % 2 = 0

\* gf_mul is multiplication of polynomials over GF(2) modulo 0x11D, and the
\* generator of each version is a monic polynomial with the roots that it should
\* have.
Times[y \in 0 .. 255] ==
    [x \in 0 .. 255 |-> IF y = 0 THEN 0
                        ELSE IF y % 2 = 1 THEN Plus(x, Times[y - 1][x]) ELSE Twice(Times[y \div 2][x])]
FieldIsRight ==
    /\ at = "field" /\ Len(exp) = 255 =>
          \A x \in 0 .. 255 : \A y \in {0, 1, 2, 3, 29, 142, 255} : gf_mul(x, y) = Times[y][x]
    /\ at = "division" /\ divided = 0 =>
          /\ Len(gen) = spec.ec + 1 /\ gen[Len(gen)] = 1
          /\ \A i \in 0 .. spec.ec - 1 : IsRoot(gen, i)

\* The data codewords of a text that fits are read back as it, and there are as
\* many as the version holds; of a longer text more than that.
DataIsRight ==
    at = "finders" =>
        LET data == SubSeq(codewords, 1, Len(codewords) - spec.ec)
            Second(i) == 16 * (data[i] % 16) + data[i + 1] \div 16
        IN  /\ Fits => /\ Len(data) = spec.data
                       /\ data[1] \div 16 = 4
                       /\ Second(1) = Len(text)
                       /\ \A i \in DOMAIN text : Second(i + 1) = text[i]
            /\ Fits \/ Len(data) > spec.data

\* The codewords are those of the text: the arithmetic behind their correction and
\* the data themselves.
CodewordsAreRight == FieldIsRight /\ DataIsRight

\* The codewords, read from the last one, are a polynomial with the same roots as
\* the generator, which is how a reader finds that nothing is to be corrected.
CorrectionIsRight ==
    at = "finders" => \A i \in 0 .. spec.ec - 1 : IsRoot(Reverse(codewords), i)

\* Whatever is drawn, placed, masked and written last, the finder, timing and
\* alignment patterns by which a reader finds the code stand in the end.
PatternsStand ==
    at = "done" =>
        \A pattern \in {Finders, Timing, Alignment} :
            \A m \in DOMAIN pattern : result[m] = pattern[m]

\* A reader takes the modules two columns at a time from the right, up and down in
\* turn, and undoes the mask: as far as the vertical timing pattern (column 6) it
\* reads the codewords, bit by bit, and nothing drawn or written later is in its
\* way. All data codewords lie there.
ReaderSees ==
    at = "done" =>
        LET Strip(k) ==
                SelectSeq([i \in 1 .. 2 * size |->
                              <<IF k % 2 = 1 THEN size - 1 - (i - 1) \div 2 ELSE (i - 1) \div 2,
                                size - 2 * k + (i % 2)>>],
                          LAMBDA m : m \notin DOMAIN drawn)
            read == FlattenSeq([k \in 1 .. (size - 7) \div 2 |-> Strip(k)])
        IN  /\ Len(read) >= 8 * spec.data
            /\ \A n \in DOMAIN read : (result[read[n]] # Mask(read[n])) = BitAt(n)

\* What is drawn, placed, masked and written in turn (qr_util.py:98-184) does not
\* spoil what was there: the patterns stand, and whoever knows the mask reads all
\* data codewords. A reader needs more than that and does not get it: FormatIsRead,
\* EveryBitPlaced and CorrectionIsRight do not hold.
PatternsAndDataStand == PatternsStand /\ ReaderSees

\* Where a reader looks for bit i of the format, 0 being the last: in the column and
\* the row beside the finder at the top left, and beside the two others.
FormatAt(i) ==
    {IF i < 6 THEN <<i, 8>> ELSE IF i < 8 THEN <<i + 1, 8>>
     ELSE IF i = 8 THEN <<8, 7>> ELSE <<8, 14 - i>>,
     IF i < 8 THEN <<8, size - 1 - i>> ELSE <<size - 15 + i, 8>>}

\* "Scan with Phone to Join" (gui_overlay.py:52): a reader finds the format, which
\* tells it the mask and the level of correction, in both copies. The code writes
\* them with row and column exchanged (qr_util.py:172-183).
FormatIsRead ==
    at = "done" => \A i \in 0 .. 14 : \A m \in FormatAt(i) : result[m] = (Format[i + 1] = 1)

\* "Scan with Phone to Join" (gui_overlay.py:52): every bit of the codewords stands
\* in the matrix.
EveryBitPlaced ==
    at = "done" /\ Fits => 1 .. 8 * Len(codewords) \subseteq Range(placed)
=============================================================================
