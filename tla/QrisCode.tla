------------------------------ MODULE QrisCode ------------------------------
(***************************************************************************)
(* QRIS codes in payment-svc: a merchant is registered, a code is printed  *)
(* for it, a payer scans the code, has it explained (Decode) and pays it.  *)
(* The code is a string: data objects of a two-digit tag, a two-digit      *)
(* length and a value, the last a CRC-16 of all that precedes its value.   *)
(* What a payer hands in is what the scanner read, or somebody typed: the  *)
(* string that was printed, or one with a character misread or two         *)
(* neighbours swapped.                                                     *)
(*                                                                         *)
(* Strings are sequences of bytes.  PaymentFlows has the movement of      *)
(* the money; its ResolveString is PayScanned here.                        *)
(***************************************************************************)
EXTENDS Integers, Sequences

CONSTANTS
    Merchants,    \* what may be registered: [nmid, name, city, mcc, postal, account]
    Orders,       \* what may be asked of GenerateCharge: [type, amount, label]
    Tendered,     \* amounts a payer may enter
    Misread,      \* characters that may be read for another
    AcquirerGUID  \* QRISConfig.AcquirerGUID

Chars == 0..255

Strings == Seq(Chars)

ASSUME CodeAssumption ==
    /\ \A m \in Merchants :
          /\ DOMAIN m = {"nmid", "name", "city", "mcc", "postal", "account"}
          /\ {m.nmid, m.name, m.city, m.mcc, m.postal} \subseteq Strings
    /\ \A order \in Orders :
          /\ DOMAIN order = {"type", "amount", "label"}
          /\ order.type \in {"STATIC", "DYNAMIC"} /\ order.amount \in Nat
          /\ order.label \in Strings
    /\ Misread \subseteq Chars
    /\ AcquirerGUID \in Strings

VARIABLES
    registry,  \* merchants, by primary key
    charge,    \* a row of qris_charges, with the string that was printed
    scan,      \* the string in the payer's hands
    screen,    \* what Decode answered for scan
    payment    \* whom and what Pay took from scan

codeVars == <<registry, charge, scan, screen, payment>>

None == [kind |-> "none"]

Refused == [kind |-> "refused"]

-----------------------------------------------------------------------------
(* crc.go.  A register is the set of its bits that are 1. *)

Xor(a, b) == (a \ b) \cup (b \ a)

\* One round of the inner loop: shift left, and subtract the polynomial 0x1021 for a bit lost.
Round(crc) ==
    LET shifted == {i + 1 : i \in crc \ {15}}
    IN  IF 15 \in crc THEN Xor(shifted, {0, 5, 12}) ELSE shifted

\* The eight rounds, of a register whose low byte is 0.
Rounds ==
    [high \in SUBSET (0..7) |->
        Round(Round(Round(Round(Round(Round(Round(Round({i + 8 : i \in high}))))))))]

Weight == <<1, 2, 4, 8, 16, 32, 64, 128>>

Bits == [c \in Chars |-> {i \in 0..7 : (c \div Weight[i + 1]) % 2 = 1}]

Registers == SUBSET (0..15)

\* The rounds of one byte; they only shift the low byte of the register.
Byte == [c \in Chars |-> [crc \in Registers |->
            Xor({i + 8 : i \in crc \cap 0..7}, Rounds[Xor({i \in 0..7 : i + 8 \in crc}, Bits[c])])]]

Crc16(s) ==
    LET run[i \in 0..Len(s)] == IF i = 0 THEN 0..15 ELSE Byte[s[i]][run[i - 1]]
    IN  run[Len(s)]

-----------------------------------------------------------------------------
(* Numbers in strings. *)

Digit(d) == IF d < 10 THEN 48 + d ELSE 55 + d

\* %02d, and %02X of a byte.
TwoDigits(n, base) == <<Digit(n \div base), Digit(n % base)>>

\* %d of a number that is not negative.
Decimal[n \in Nat] == IF n < 10 THEN <<Digit(n)>> ELSE Decimal[n \div 10] \o <<Digit(n % 10)>>

Value(digits) ==
    LET read[i \in 0..Len(digits)] == IF i = 0 THEN 0 ELSE 10 * read[i - 1] + digits[i] - 48
    IN  read[Len(digits)]

IsDigits(s) == s # <<>> /\ \A i \in 1..Len(s) : s[i] \in 48..57

\* strconv: an optional sign and digits.
Signed(s) == s # <<>> /\ s[1] \in {43, 45}

IsNumber(s) == IsDigits(IF Signed(s) THEN Tail(s) ELSE s)

Number(s) ==
    CASE s # <<>> /\ s[1] = 45 -> -Value(Tail(s))
      [] s # <<>> /\ s[1] = 43 -> Value(Tail(s))
      [] OTHER                 -> Value(s)

\* Mutation of MinorToMajor: the minor part is not padded.
MinorToMajorUnpadded(minor) == Decimal[minor \div 100] \o <<46>> \o Decimal[minor % 100]

MinorToMajor(minor) == Decimal[minor \div 100] \o <<46>> \o TwoDigits(minor % 100, 10)

\* The length of what stands before the first point.
WholePart(s) == CHOOSE n \in 0..Len(s) :
                    /\ \A i \in 1..n : s[i] # 46
                    /\ n < Len(s) => s[n + 1] = 46

\* Split at the first point; what follows is padded or cut to two digits.  The spaces that the
\* code trims first are left out: a code that was printed has none.
MajorToMinor(s) ==
    LET whole == SubSeq(s, 1, WholePart(s))
        frac  == SubSeq(SubSeq(s, WholePart(s) + 2, Len(s)) \o <<48, 48>>, 1, 2)
    IN  IF IsNumber(whole) /\ IsNumber(frac) THEN {100 * Number(whole) + Number(frac)} ELSE {}

-----------------------------------------------------------------------------
(* codec.go.  A failed conversion is the empty set, one that worked a singleton. *)

Tag(n) == TwoDigits(n, 10)

\* tlv: a value of more than 99 bytes cannot be written.
TLV(tag, value) ==
    IF Len(value) > 99 THEN {} ELSE {Tag(tag) \o TwoDigits(Len(value), 10) \o value}

\* An object without a value is left out.
Object(o) == IF o[2] = <<>> THEN {<<>>} ELSE TLV(o[1], o[2])

\* buildTemplate: the objects in order.
Template(objects) ==
    LET from[i \in 1..(Len(objects) + 1)] ==
            IF i > Len(objects) THEN {<<>>}
            ELSE {a \o b : a \in Object(objects[i]), b \in from[i + 1]}
    IN  from[1]

Hex(crc) ==
    LET bit(i)    == IF i \in crc THEN 1 ELSE 0
        nibble(k) == Digit(8 * bit(k + 3) + 4 * bit(k + 2) + 2 * bit(k + 1) + bit(k))
    IN  <<nibble(12), nibble(8), nibble(4), nibble(0)>>

\* The CRC covers its own tag and length.
Sealed(s) == LET headed == s \o Tag(63) \o <<48, 52>> IN headed \o Hex(Crc16(headed))

\* Encode, of a payload whose required fields are there.  Of the additional data (62) it has the
\* reference label only: the bill number (62/01) is one more text that Decode shows and nobody
\* pays by.
Encode(p) ==
    {Sealed(body) : body \in
        UNION {Template(<< <<0, <<48, 49>>>>, <<1, p.initiation>>, <<26, account>>,
                           <<52, p.mcc>>, <<53, <<51, 54, 48>>>>, <<54, p.amount>>,
                           <<58, <<73, 68>>>>, <<59, p.name>>, <<60, p.city>>,
                           <<61, p.postal>>, <<62, additional>> >>) :
               account \in Template(<< <<0, AcquirerGUID>>, <<1, p.nmid>> >>),
               additional \in Template(<< <<5, p.label>> >>)}}

\* The check value crc.go and its test give for "123456789".
ASSUME CheckValue == Hex(Crc16(<<49, 50, 51, 52, 53, 54, 55, 56, 57>>)) = <<50, 57, 66, 49>>

Malformed == [ok |-> FALSE]

\* parseTLV: the objects of s by tag, the last of a tag counting.  A length below zero makes
\* the slice panic, which ends the request as well.
Parse[s \in Strings] ==
    IF s = <<>> THEN [ok |-> TRUE, at |-> [tag \in {} |-> <<>>]]
    ELSE LET header == SubSeq(s, 3, 4)
             size   == Number(header)
         IN  IF Len(s) < 4 \/ ~IsNumber(header) \/ size < 0 \/ size > Len(s) - 4 THEN Malformed
             ELSE LET rest == Parse[SubSeq(s, 5 + size, Len(s))]
                      tag  == SubSeq(s, 1, 2)
                  IN  IF ~rest.ok THEN Malformed
                      ELSE [ok |-> TRUE,
                            at |-> [t \in DOMAIN rest.at \cup {tag} |->
                                       IF t \in DOMAIN rest.at THEN rest.at[t]
                                       ELSE SubSeq(s, 5, 4 + size)]]

Field(objects, tag) == IF Tag(tag) \in DOMAIN objects THEN objects[Tag(tag)] ELSE <<>>

Upper(c) == IF c \in 97..122 THEN c - 32 ELSE c

\* The last four characters, in either case, are the CRC of the others.
CrcMatches(s) ==
    LET sum == SubSeq(s, Len(s) - 3, Len(s))
    IN  [i \in 1..4 |-> Upper(sum[i])] = Hex(Crc16(SubSeq(s, 1, Len(s) - 4)))

\* Decode: no payload, or one of which the CRC is right or not.
Decode(s) ==
    LET root    == Parse[s]
        account == Parse[Field(root.at, 26)]
        more    == Parse[Field(root.at, 62)]
    IN  IF ~root.ok THEN {}
        ELSE IF ~account.ok \/ ~more.ok THEN {}
        ELSE {[nmid |-> Field(account.at, 1), initiation |-> Field(root.at, 1),
               amount |-> Field(root.at, 54), name |-> Field(root.at, 59),
               city |-> Field(root.at, 60), mcc |-> Field(root.at, 52),
               label |-> Field(more.at, 5), crcValid |-> Len(s) >= 4 /\ CrcMatches(s)]}

IsDynamic(p) == p.initiation = <<49, 50>>

-----------------------------------------------------------------------------
CodeInit ==
    /\ registry = {}
    /\ charge = None
    /\ scan = <<>>
    /\ screen = None
    /\ payment = None

\* GetByNMID; the NMID is unique.
Owner(nmid) == {m \in registry : m.nmid = nmid}

\* RegisterMerchant, of an account account-svc knows.  The NMID is unique in the table.
RegisterMerchant(m) ==
    /\ Owner(m.nmid) = {}
    /\ registry' = registry \cup {m}
    /\ UNCHANGED <<charge, scan, screen, payment>>

\* The payload GenerateCharge has encoded.
PayloadOf(m, order) ==
    [initiation |-> IF order.type = "STATIC" THEN <<49, 49>> ELSE <<49, 50>>,
     amount     |-> IF order.type = "DYNAMIC" THEN MinorToMajor(order.amount) ELSE <<>>,
     nmid |-> m.nmid, mcc |-> m.mcc, name |-> m.name, city |-> m.city, postal |-> m.postal,
     label |-> order.label]

\* GenerateCharge, for a merchant that is ACTIVE.
PrintCharge(m, order) ==
    /\ charge = None
    /\ \E s \in Encode(PayloadOf(m, order)) :
          /\ charge' = [kind |-> "printed", merchant |-> m, order |-> order, qr |-> s]
          /\ scan' = s
    /\ UNCHANGED <<registry, screen, payment>>

\* The payload cannot be encoded: nothing is stored.
GenerateFails(m, order) ==
    /\ charge = None
    /\ Encode(PayloadOf(m, order)) = {}
    /\ charge' = Refused
    /\ UNCHANGED <<registry, scan, screen, payment>>

\* One character is read for another, or two neighbours are swapped.
Garble ==
    /\ charge.kind = "printed"
    /\ scan = charge.qr
    /\ screen = None /\ payment = None
    /\ \/ \E i \in 1..Len(scan), c \in Misread : scan' = [scan EXCEPT ![i] = c]
       \/ \E i \in 1..(Len(scan) - 1) :
             scan' = [scan EXCEPT ![i] = scan[i + 1], ![i + 1] = scan[i]]
    /\ UNCHANGED <<registry, charge, screen, payment>>

\* The payer has the string decoded.  An amount that is no number is left out.
Show ==
    /\ charge.kind = "printed"
    /\ screen = None
    /\ \/ /\ Decode(scan) = {}
          /\ screen' = Refused
       \/ \E p \in Decode(scan) :
             screen' = [kind |-> "shown", nmid |-> p.nmid, name |-> p.name,
                        amount |-> IF p.amount = <<>> THEN {} ELSE MajorToMinor(p.amount),
                        dynamic |-> IsDynamic(p), crcValid |-> p.crcValid]
    /\ UNCHANGED <<registry, charge, scan, payment>>

\* amountForDecoded: the amount of the code, or the one the payer entered (0: none).
AmountForDecoded(p, entered) ==
    IF IsDynamic(p) THEN MajorToMinor(p.amount) ELSE {entered} \ {0}

\* Mutation of Payable: the checksum is only shown, not required.
PayableUnchecked(s) == Decode(s)

\* resolveQRStringPayment: the string decodes and its checksum is right.
Payable(s) == {p \in Decode(s) : p.crcValid}

\* resolveQRStringPayment and the movement it asks for.
PayScanned(entered) ==
    /\ charge.kind = "printed"
    /\ payment = None
    /\ \/ \E p \in Payable(scan) :
             \E m \in Owner(p.nmid), amount \in AmountForDecoded(p, entered) :
                payment' = [kind |-> "paid", account |-> m.account, amount |-> amount,
                            entered |-> entered]
       \/ /\ \A p \in Payable(scan) :
                \/ Owner(p.nmid) = {}
                \/ AmountForDecoded(p, entered) = {}
          /\ payment' = [kind |-> "refused", entered |-> entered]
    /\ UNCHANGED <<registry, charge, scan, screen>>

CodeNext ==
    \/ \E m \in Merchants : RegisterMerchant(m)
    \/ \E m \in registry, order \in Orders : PrintCharge(m, order) \/ GenerateFails(m, order)
    \/ Garble
    \/ Show
    \/ \E entered \in Tendered \cup {0} : PayScanned(entered)

CodeSpec == CodeInit /\ [][CodeNext]_codeVars

-----------------------------------------------------------------------------
CodeTypeOK ==
    /\ registry \subseteq Merchants
    /\ charge.kind \in {"none", "refused", "printed"}
    /\ scan \in Strings
    /\ screen.kind \in {"none", "refused", "shown"}
    /\ payment.kind \in {"none", "refused", "paid"}

\* What the merchant asked for when the code was printed.
Asked(entered) == IF charge.order.type = "DYNAMIC" THEN charge.order.amount ELSE entered

(***************************************************************************)
(* Whoever pays by a scanned string pays the merchant it was printed for,  *)
(* and the amount that was printed into it, however the string was         *)
(* misread; and what was read correctly can be paid.                       *)
(***************************************************************************)
PaidAsPrinted ==
    /\ payment.kind = "paid" =>
          /\ payment.account = charge.merchant.account
          /\ payment.amount = Asked(payment.entered)
    /\ payment.kind = "refused" /\ scan = charge.qr => Asked(payment.entered) = 0

(***************************************************************************)
(* What the payer is shown is what the payer then pays: a payment is taken *)
(* exactly when the checksum was shown as right, and of the amount shown.  *)
(***************************************************************************)
ShownIsPaid ==
    screen.kind = "shown" =>
        /\ payment.kind = "paid" =>
              /\ screen.crcValid
              /\ screen.nmid = charge.merchant.nmid
              /\ screen.dynamic => screen.amount = {payment.amount}
        /\ payment.kind = "refused" /\ screen.crcValid =>
              ~screen.dynamic /\ payment.entered = 0
=============================================================================
