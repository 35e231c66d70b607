---------------------------- MODULE Bills_proofs ----------------------------
(***************************************************************************)
(* What the splits of a bill add up to, for any table of taxes, any lines  *)
(* and any number of them, and words of any width.                         *)
(*                                                                         *)
(* The argument: a word holds an integer up to multiples of 2^Width, and   *)
(* so do sums of what words hold. Up to such a multiple each tax and each  *)
(* discount of a line reaches exactly one tax account; so do all of them,  *)
(* and adding up by account or by line is the same. The net is checked to  *)
(* fill up taxes and discounts to the gross amount, in a word.             *)
(***************************************************************************)
EXTENDS Bills, Rules_proofs

(* Integers that a word cannot tell apart.                                 *)
Alike(a, b) == \E k \in Int : a = b + k * (2 * HalfWord)

(* A remainder, and what it leaves out.                                    *)
LEMMA Residue ==
    ASSUME NEW m \in Nat \ {0}, NEW n \in Int
    PROVE  /\ n % m \in Int /\ 0 <= n % m /\ n % m < m
           /\ \E k \in Int : n % m = n + k * m
<1>1. n % m \in Int
  OBVIOUS
<1>2. 0 <= n % m
  OBVIOUS
<1>3. n % m < m
  OBVIOUS
<1>4. n \div m \in Int
  OBVIOUS
<1>5. n % m = n - m * (n \div m)
  OBVIOUS
<1> DEFINE r == n % m
           q == n \div m
<1>6. r \in Int /\ q \in Int /\ r = n - m * q
  BY <1>1, <1>4, <1>5
<1> HIDE DEF r, q
<1>7. -q \in Int /\ r = n + (-q) * m
  BY <1>6
<1>8. \E k \in Int : r = n + k * m
  BY <1>7
<1> QED
  BY <1>1, <1>2, <1>3, <1>8 DEF r

(* Of the integers that differ by multiples of m, one is in 0 .. m - 1.    *)
LEMMA OneResidue ==
    ASSUME NEW m \in Nat \ {0}, NEW a \in Int, NEW b \in Int, NEW j \in Int,
           0 <= a, a < m, 0 <= b, b < m, a = b + j * m
    PROVE  a = b
<1>1. CASE j >= 1
  <2>1. j * m >= m
    BY <1>1
  <2> QED
    BY <2>1
<1>2. CASE j <= -1
  <2>1. (-j) * m >= m /\ j * m = -((-j) * m)
    BY <1>2
  <2> QED
    BY <2>1
<1>3. CASE j = 0
  BY <1>3
<1> QED
  BY <1>1, <1>2, <1>3

(* Being alike is an equivalence, and sums of what is alike are alike.     *)
LEMMA AlikeIs ==
    ASSUME NEW a \in Int, NEW b \in Int, NEW c \in Int, NEW d \in Int
    PROVE  /\ Alike(a, a)
           /\ Alike(a, b) => Alike(b, a)
           /\ Alike(a, b) /\ Alike(b, c) => Alike(a, c)
           /\ Alike(a, b) /\ Alike(c, d) => Alike(a + c, b + d)
<1> DEFINE m == 2 * HalfWord
<1>1. m \in Int
  BY SplitsAssumption
<1> HIDE DEF m
<1>2. Alike(a, a)
  <2>1. a = a + 0 * m
    BY <1>1
  <2> QED
    BY <2>1 DEF Alike, m
<1>3. ASSUME Alike(a, b) PROVE Alike(b, a)
  <2>1. PICK k \in Int : a = b + k * m
    BY <1>3 DEF Alike, m
  <2>2. -k \in Int /\ b = a + (-k) * m
    BY <1>1, <2>1
  <2> QED
    BY <2>2 DEF Alike, m
<1>4. ASSUME Alike(a, b), Alike(b, c) PROVE Alike(a, c)
  <2>1. PICK k \in Int : a = b + k * m
    BY <1>4 DEF Alike, m
  <2>2. PICK j \in Int : b = c + j * m
    BY <1>4 DEF Alike, m
  <2>3. k + j \in Int /\ a = c + (k + j) * m
    BY <1>1, <2>1, <2>2
  <2> QED
    BY <2>3 DEF Alike, m
<1>5. ASSUME Alike(a, b), Alike(c, d) PROVE Alike(a + c, b + d)
  <2>1. PICK k \in Int : a = b + k * m
    BY <1>5 DEF Alike, m
  <2>2. PICK j \in Int : c = d + j * m
    BY <1>5 DEF Alike, m
  <2>3. k + j \in Int /\ a + c = (b + d) + (k + j) * m
    BY <1>1, <2>1, <2>2
  <2> QED
    BY <2>3 DEF Alike, m
<1> QED
  BY <1>2, <1>3, <1>4, <1>5

(* What a word holds of an integer is alike to it ...                      *)
LEMMA WrapAlike ==
    ASSUME NEW n \in Int
    PROVE  Wrap(n) \in Int /\ Alike(Wrap(n), n)
<1> DEFINE m == 2 * HalfWord
           p == n + HalfWord
<1>1. HalfWord \in Int /\ m \in Nat \ {0} /\ p \in Int
  BY SplitsAssumption
<1>2. Wrap(n) = (p % m) - HalfWord
  BY DEF Wrap
<1> HIDE DEF m
<1>3. PICK k \in Int : p % m = p + k * m
  BY <1>1, Residue
<1>4. p % m \in Int
  BY <1>1, Residue
<1>5. Wrap(n) = n + k * m
  BY <1>1, <1>2, <1>3
<1> QED
  BY <1>1, <1>2, <1>4, <1>5 DEF Alike, m

(* ... and the same for integers that are alike.                           *)
LEMMA WrapSame ==
    ASSUME NEW a \in Int, NEW b \in Int, Alike(a, b)
    PROVE  Wrap(a) = Wrap(b)
<1> DEFINE m == 2 * HalfWord
           p == a + HalfWord
           q == b + HalfWord
<1>1. HalfWord \in Int /\ m \in Nat \ {0} /\ p \in Int /\ q \in Int
  BY SplitsAssumption
<1>2. Wrap(a) = (p % m) - HalfWord /\ Wrap(b) = (q % m) - HalfWord
  BY DEF Wrap
<1>3. PICK j \in Int : a = b + j * m
  BY DEF Alike
<1> HIDE DEF m
<1>4. p = q + j * m
  BY <1>1, <1>3
<1> HIDE DEF p, q
<1> DEFINE x == p % m
           y == q % m
<1>5. x \in Int /\ 0 <= x /\ x < m /\ y \in Int /\ 0 <= y /\ y < m
  BY <1>1, Residue
<1>6. PICK k \in Int : x = p + k * m
  BY <1>1, Residue
<1>7. PICK l \in Int : y = q + l * m
  BY <1>1, Residue
<1> HIDE DEF x, y
<1>8. x = y + (j + k - l) * m
  BY <1>1, <1>3, <1>4, <1>5, <1>6, <1>7
<1>9. j + k - l \in Int
  OBVIOUS
<1>10. x = y
  BY <1>1, <1>5, <1>8, <1>9, OneResidue
<1> QED
  BY <1>2, <1>10 DEF x, y

(* On S, a word cannot tell f from g.                                      *)
AlikeOn(f, g, S) ==
    \A x \in S : f[x] \in Int /\ g[x] \in Int /\ Alike(f[x], g[x])

(* So what a word holds of a sum is alike to the sum.                      *)
LEMMA TotalAlike ==
    ASSUME NEW T, NEW f, \A x \in T : f[x] \in Int, NEW seq \in Seq(T)
    PROVE  /\ SumOf(f, seq) \in Int /\ Total(f, seq) \in Int
           /\ Alike(Total(f, seq), SumOf(f, seq))
BY SumInt, WrapAlike DEF Total

(* Sums over a sequence are alike when all they add is ...                 *)
LEMMA SumAlike ==
    ASSUME NEW T, NEW f, NEW g, AlikeOn(f, g, T), NEW seq \in Seq(T)
    PROVE  Alike(SumOf(f, seq), SumOf(g, seq))
<1> DEFINE S == {s \in Seq(T) : Alike(SumOf(f, s), SumOf(g, s))}
<1>1. <<>> \in S
  <2>1. Alike(0, 0)
    BY AlikeIs
  <2> QED
    BY <2>1, EmptySeq, SumEmpty
<1>2. ASSUME NEW s \in S, NEW x \in T PROVE Append(s, x) \in S
  <2>1. SumOf(f, s) \in Int /\ SumOf(g, s) \in Int
    BY SumInt DEF AlikeOn
  <2>2. f[x] \in Int /\ g[x] \in Int /\ Alike(f[x], g[x])
    BY DEF AlikeOn
  <2>3. Alike(SumOf(f, s) + f[x], SumOf(g, s) + g[x])
    BY <2>1, <2>2, AlikeIs
  <2> QED
    BY <2>3, SumAppend, AppendProperties
<1> HIDE DEF S
<1>3. S \in SUBSET Seq(T)
  BY DEF S
<1>4. S = Seq(T)
  BY <1>1, <1>2, <1>3, Sums!SeqSet
<1> QED
  BY <1>4 DEF S

(* ... and so are sums over a finite set.                                  *)
LEMMA SetSumAlike ==
    ASSUME NEW S, IsFiniteSet(S), NEW f, NEW g, AlikeOn(f, g, S)
    PROVE  Alike(SumOver(f, S), SumOver(g, S))
<1>1. PICK it : SumTable(it, f, S)
  BY SetSumTable
<1>2. PICK jt : SumTable(jt, g, S)
  BY SetSumTable
<1> DEFINE P == {s \in SUBSET S : it[s] \in Int /\ jt[s] \in Int /\ Alike(it[s], jt[s])}
<1>3. {} \in P
  <2>1. Alike(0, 0)
    BY AlikeIs
  <2> QED
    BY <1>1, <1>2, <2>1 DEF SumTable
<1>4. ASSUME NEW s \in SUBSET S, s # {}, s \ {Some(s)} \in P PROVE s \in P
  <2>1. Some(s) \in S
    BY <1>4 DEF Some
  <2>2. /\ it[s] = f[Some(s)] + it[s \ {Some(s)}]
        /\ jt[s] = g[Some(s)] + jt[s \ {Some(s)}]
    BY <1>1, <1>2, <1>4 DEF SumTable
  <2>3. f[Some(s)] \in Int /\ g[Some(s)] \in Int /\ Alike(f[Some(s)], g[Some(s)])
    BY <2>1 DEF AlikeOn
  <2> DEFINE x == Some(s)
             r == s \ {Some(s)}
  <2>4. it[r] \in Int /\ jt[r] \in Int /\ Alike(it[r], jt[r])
    BY <1>4
  <2>5. it[s] = f[x] + it[r] /\ jt[s] = g[x] + jt[r]
    BY <2>2
  <2>6. f[x] \in Int /\ g[x] \in Int /\ Alike(f[x], g[x])
    BY <2>3
  <2> HIDE DEF x, r, P
  <2>7. Alike(f[x] + it[r], g[x] + jt[r])
    BY <2>4, <2>6, AlikeIs
  <2> QED
    BY <2>4, <2>5, <2>6, <2>7 DEF P
<1> HIDE DEF P
<1>5. P \in SUBSET (SUBSET S)
  BY DEF P
<1>6. P = SUBSET S
  BY <1>3, <1>4, <1>5, PartsSet
<1> QED
  BY <1>1, <1>2, <1>6 DEF P, SumTable

-----------------------------------------------------------------------------
(* What a line credits to all tax accounts together is, for a word, its    *)
(* taxes and discounts.                                                    *)
LEMMA LineHandsOut ==
    ASSUME NEW item \in LineItem, ValidItem(item), IsFiniteSet(AllowedTaxAccounts)
    PROVE  LET got == [a \in AllowedTaxAccounts |-> ItemCredit(item, a)]
           IN  /\ SumOver(got, AllowedTaxAccounts) \in Int
               /\ Alike(SumOver(got, AllowedTaxAccounts),
                        ItemTaxTotal(item) + ItemDiscountTotal(item))
<1> DEFINE C == ToSet(item.codes)
           D == ToSet(item.discounts)
           A == AllowedTaxAccounts
           tax == [x \in C |->
                      IF x \in TaxCodes THEN CodeTax(x, item.amount) ELSE 0]
           off == [x \in D |-> x.amount]
           taxTo == [a \in A |-> [x \in C |->
                        IF TaxSplit[x].account = a
                        THEN CodeTax(x, item.amount) ELSE 0]]
           offTo == [a \in A |-> [x \in D |->
                        IF x.account = a THEN x.amount ELSE 0]]
           gotTax == [a \in A |-> SumOf(taxTo[a], item.codes)]
           gotOff == [a \in A |-> SumOf(offTo[a], item.discounts)]
           exact  == [a \in A |-> gotTax[a] + gotOff[a]]
           got    == [a \in A |-> ItemCredit(item, a)]
<1>1. /\ item.amount \in Int /\ item.codes \in Seq(STRING)
      /\ item.discounts \in Seq(LineDiscount)
  BY DEF LineItem
<1>2. item.codes \in Seq(C) /\ item.discounts \in Seq(D) /\ D \subseteq LineDiscount
  BY <1>1, OwnElements
<1>3. \A x \in C : /\ tax[x] = CodeTax(x, item.amount) /\ tax[x] \in Int
                   /\ TaxSplit[x].account \in A
  BY <1>1, CodeTaxInt DEF ValidItem
<1>4. \A x \in D : off[x] = x.amount /\ off[x] \in Int /\ x.account \in A
  BY <1>2 DEF ValidItem, LineDiscount
<1>5. \A a \in A : \A x \in C :
         /\ taxTo[a][x] = IF TaxSplit[x].account = a THEN tax[x] ELSE 0
         /\ taxTo[a][x] \in Int
  BY <1>3
<1>6. \A a \in A : \A x \in D :
         /\ offTo[a][x] = IF x.account = a THEN off[x] ELSE 0
         /\ offTo[a][x] \in Int
  BY <1>4
<1>7. /\ ItemTaxTotal(item) = Total(tax, item.codes)
      /\ ItemDiscountTotal(item) = Total(off, item.discounts)
      /\ \A a \in A : /\ gotTax[a] = SumOf(taxTo[a], item.codes)
                      /\ gotOff[a] = SumOf(offTo[a], item.discounts)
                      /\ exact[a] = gotTax[a] + gotOff[a]
                      /\ got[a] = Total(taxTo[a], item.codes)
                                  + Total(offTo[a], item.discounts)
  BY DEF ItemTaxTotal, ItemDiscountTotal, ItemCredit
<1> SUFFICES /\ SumOver(got, A) \in Int
             /\ Alike(SumOver(got, A), ItemTaxTotal(item) + ItemDiscountTotal(item))
  OBVIOUS
<1> HIDE DEF tax, off, taxTo, offTo, gotTax, gotOff, exact, got, C, D
<1>8. ASSUME NEW a \in A
      PROVE  /\ gotTax[a] \in Int /\ gotOff[a] \in Int /\ got[a] \in Int
             /\ exact[a] \in Int /\ Alike(got[a], exact[a])
  <2> DEFINE f == taxTo[a]
             g == offTo[a]
  <2>1. (\A x \in C : f[x] \in Int) /\ (\A x \in D : g[x] \in Int)
    BY <1>5, <1>6
  <2>2. /\ gotTax[a] = SumOf(f, item.codes) /\ gotOff[a] = SumOf(g, item.discounts)
        /\ exact[a] = gotTax[a] + gotOff[a]
        /\ got[a] = Total(f, item.codes) + Total(g, item.discounts)
    BY <1>7
  <2> HIDE DEF f, g
  <2>3. /\ SumOf(f, item.codes) \in Int /\ Total(f, item.codes) \in Int
        /\ Alike(Total(f, item.codes), SumOf(f, item.codes))
    BY <1>2, <2>1, TotalAlike
  <2>4. /\ SumOf(g, item.discounts) \in Int /\ Total(g, item.discounts) \in Int
        /\ Alike(Total(g, item.discounts), SumOf(g, item.discounts))
    BY <1>2, <2>1, TotalAlike
  <2>5. Alike(Total(f, item.codes) + Total(g, item.discounts),
              SumOf(f, item.codes) + SumOf(g, item.discounts))
    BY <2>3, <2>4, AlikeIs
  <2> QED
    BY <2>2, <2>3, <2>4, <2>5
<1>9. SumOver(gotTax, A) = SumOf(tax, item.codes)
  <2>1. ASSUME NEW x \in C
        PROVE  SumOver(Shares(taxTo, x, A), A) = tax[x]
    <3> DEFINE f == Shares(taxTo, x, A)
               b == TaxSplit[x].account
    <3>1. \A a \in A : f[a] = IF a = b THEN tax[x] ELSE 0
      BY <1>5 DEF Shares
    <3>2. b \in A /\ tax[x] \in Int
      BY <1>3
    <3> HIDE DEF f, b
    <3>3. SumOver(f, A) = tax[x]
      BY <3>1, <3>2, SetSumPoint
    <3> QED
      BY <3>3 DEF f
  <2>2. \A x \in C : \A a \in A : taxTo[a][x] \in Int
    BY <1>5
  <2>3. HandsOut(taxTo, tax, A, C)
    BY <2>1, <2>2 DEF HandsOut
  <2> QED
    BY <1>2, <1>7, <2>3, SumsSwap
<1>10. SumOver(gotOff, A) = SumOf(off, item.discounts)
  <2>1. ASSUME NEW x \in D
        PROVE  SumOver(Shares(offTo, x, A), A) = off[x]
    <3> DEFINE f == Shares(offTo, x, A)
               b == x.account
    <3>1. \A a \in A : f[a] = IF a = b THEN off[x] ELSE 0
      BY <1>6 DEF Shares
    <3>2. b \in A /\ off[x] \in Int
      BY <1>4
    <3> HIDE DEF f, b
    <3>3. SumOver(f, A) = off[x]
      BY <3>1, <3>2, SetSumPoint
    <3> QED
      BY <3>3 DEF f
  <2>2. \A x \in D : \A a \in A : offTo[a][x] \in Int
    BY <1>6
  <2>3. HandsOut(offTo, off, A, D)
    BY <2>1, <2>2 DEF HandsOut
  <2> QED
    BY <1>2, <1>7, <2>3, SumsSwap
<1>11. SumOver(exact, A) = SumOf(tax, item.codes) + SumOf(off, item.discounts)
  <2>1. AddsUp(exact, gotTax, gotOff, A)
    BY <1>7, <1>8 DEF AddsUp
  <2> QED
    BY <1>9, <1>10, <2>1, SetSumAdd
<1>12. Alike(SumOver(got, A), SumOver(exact, A))
  <2>1. AlikeOn(got, exact, A)
    BY <1>8 DEF AlikeOn
  <2> QED
    BY <2>1, SetSumAlike
<1>13. SumOver(got, A) \in Int
  BY <1>8, SetSumInt
<1>14. /\ SumOf(tax, item.codes) \in Int /\ Total(tax, item.codes) \in Int
       /\ Alike(Total(tax, item.codes), SumOf(tax, item.codes))
  BY <1>2, <1>3, TotalAlike
<1>15. /\ SumOf(off, item.discounts) \in Int /\ Total(off, item.discounts) \in Int
       /\ Alike(Total(off, item.discounts), SumOf(off, item.discounts))
  BY <1>2, <1>4, TotalAlike
<1>16. Alike(Total(tax, item.codes) + Total(off, item.discounts),
             SumOf(tax, item.codes) + SumOf(off, item.discounts))
  BY <1>14, <1>15, AlikeIs
<1> DEFINE u == Total(tax, item.codes) + Total(off, item.discounts)
           v == SumOf(tax, item.codes) + SumOf(off, item.discounts)
           w == SumOver(got, A)
<1>17. u \in Int /\ v \in Int /\ w \in Int /\ Alike(u, v) /\ Alike(w, v)
  BY <1>11, <1>12, <1>13, <1>14, <1>15, <1>16
<1>18. ItemTaxTotal(item) + ItemDiscountTotal(item) = u
  BY <1>7
<1> HIDE DEF u, v
<1>19. Alike(w, u)
  <2> HIDE DEF w
  <2>1. Alike(v, u)
    BY <1>17, AlikeIs
  <2> QED
    BY <1>17, <2>1, AlikeIs
<1> QED
  BY <1>17, <1>18, <1>19

(* So is what a payment credits, for a word, its taxes and discounts.      *)
LEMMA BillHandsOut ==
    ASSUME NEW bill \in Seq(LineItem), \A item \in ToSet(bill) : ValidItem(item),
           IsFiniteSet(AllowedTaxAccounts)
    PROVE  LET credits == [a \in AllowedTaxAccounts |-> Credit(bill, a)]
           IN  /\ SumOver(credits, AllowedTaxAccounts) \in Int
               /\ TaxTotal(bill) \in Int /\ DiscountTotal(bill) \in Int
               /\ Alike(SumOver(credits, AllowedTaxAccounts),
                        TaxTotal(bill) + DiscountTotal(bill))
<1> DEFINE T == ToSet(bill)
           A == AllowedTaxAccounts
           t == [item \in T |-> ItemTaxTotal(item)]
           d == [item \in T |-> ItemDiscountTotal(item)]
           k == [item \in T |-> t[item] + d[item]]
           part == [a \in A |-> [item \in T |-> ItemCredit(item, a)]]
           all  == [item \in T |-> SumOver(Shares(part, item, A), A)]
           got  == [a \in A |-> SumOf(part[a], bill)]
           credits == [a \in A |-> Credit(bill, a)]
<1>1. bill \in Seq(T) /\ T \subseteq LineItem
  BY OwnElements
<1>2. \A x \in T : /\ t[x] = ItemTaxTotal(x) /\ d[x] = ItemDiscountTotal(x)
                   /\ t[x] \in Int /\ d[x] \in Int /\ k[x] = t[x] + d[x]
  BY <1>1, LineInts
<1>3. \A x \in T : \A a \in A : part[a][x] = ItemCredit(x, a) /\ part[a][x] \in Int
  BY <1>1, LineInts
<1>4. \A x \in T : /\ all[x] = SumOver(Shares(part, x, A), A)
                   /\ Shares(part, x, A) = [a \in A |-> ItemCredit(x, a)]
  BY DEF Shares
<1>5. /\ TaxTotal(bill) = Total(t, bill) /\ DiscountTotal(bill) = Total(d, bill)
      /\ \A a \in A : /\ got[a] = SumOf(part[a], bill)
                      /\ credits[a] = Total(part[a], bill)
  BY DEF TaxTotal, DiscountTotal, Credit
<1> SUFFICES /\ SumOver(credits, A) \in Int
             /\ TaxTotal(bill) \in Int /\ DiscountTotal(bill) \in Int
             /\ Alike(SumOver(credits, A), TaxTotal(bill) + DiscountTotal(bill))
  OBVIOUS
<1>6. ASSUME NEW x \in T
      PROVE  all[x] \in Int /\ Alike(all[x], k[x])
  <2>1. x \in LineItem /\ ValidItem(x)
    BY <1>1
  <2>2. LET f == [a \in A |-> ItemCredit(x, a)]
        IN  /\ SumOver(f, A) \in Int
            /\ Alike(SumOver(f, A), ItemTaxTotal(x) + ItemDiscountTotal(x))
    BY <2>1, LineHandsOut
  <2> HIDE DEF t, d, k, part, all, T
  <2> QED
    BY <1>2, <1>4, <2>2
<1> HIDE DEF t, d, k, part, all, got, credits, T
<1>7. ASSUME NEW a \in A
      PROVE  got[a] \in Int /\ credits[a] \in Int /\ Alike(credits[a], got[a])
  <2> DEFINE f == part[a]
  <2>1. \A x \in T : f[x] \in Int
    BY <1>3
  <2> HIDE DEF f
  <2>2. /\ SumOf(f, bill) \in Int /\ Total(f, bill) \in Int
        /\ Alike(Total(f, bill), SumOf(f, bill))
    BY <1>1, <2>1, TotalAlike
  <2> QED
    BY <1>5, <2>2 DEF f
<1>8. SumOver(credits, A) \in Int /\ Alike(SumOver(credits, A), SumOver(got, A))
  <2>1. AlikeOn(credits, got, A)
    BY <1>7 DEF AlikeOn
  <2> QED
    BY <1>7, <2>1, SetSumAlike, SetSumInt
<1>9. SumOver(got, A) = SumOf(all, bill)
  <2>1. HandsOut(part, all, A, T)
    BY <1>3, <1>4 DEF HandsOut
  <2> QED
    BY <1>1, <1>5, <2>1, SumsSwap
<1>10. Alike(SumOf(all, bill), SumOf(k, bill))
  <2>1. AlikeOn(all, k, T)
    BY <1>2, <1>6 DEF AlikeOn
  <2> QED
    BY <1>1, <2>1, SumAlike
<1>11. SumOf(k, bill) = SumOf(t, bill) + SumOf(d, bill)
  <2>1. AddsUp(k, t, d, T)
    BY <1>2 DEF AddsUp
  <2> QED
    BY <1>1, <2>1, SumAdd
<1>12. /\ SumOf(t, bill) \in Int /\ Total(t, bill) \in Int
       /\ Alike(Total(t, bill), SumOf(t, bill))
  BY <1>1, <1>2, TotalAlike
<1>13. /\ SumOf(d, bill) \in Int /\ Total(d, bill) \in Int
       /\ Alike(Total(d, bill), SumOf(d, bill))
  BY <1>1, <1>2, TotalAlike
<1>14. SumOf(all, bill) \in Int
  BY <1>1, <1>6, SumInt
<1> DEFINE p == SumOver(credits, A)
           q == SumOf(all, bill)
           r == SumOf(t, bill) + SumOf(d, bill)
           u == Total(t, bill) + Total(d, bill)
<1>15. /\ p \in Int /\ q \in Int /\ r \in Int /\ u \in Int
       /\ Alike(p, q) /\ Alike(q, r)
  BY <1>8, <1>9, <1>10, <1>11, <1>12, <1>13, <1>14
<1>16. Alike(u, r)
  BY <1>12, <1>13, AlikeIs
<1>17. TaxTotal(bill) + DiscountTotal(bill) = u
  BY <1>5
<1> HIDE DEF q, r, u
<1>18. Alike(p, u)
  <2> HIDE DEF p
  <2>1. Alike(p, r) /\ Alike(r, u)
    BY <1>15, <1>16, AlikeIs
  <2> QED
    BY <1>15, <2>1, AlikeIs
<1> QED
  BY <1>5, <1>12, <1>13, <1>15, <1>17, <1>18

-----------------------------------------------------------------------------
BillOK == items \in Seq(LineItem)

(* The lines of every bill are lines.                                      *)
LEMMA BillOKHolds == Spec => []BillOK
<1>1. Init => BillOK
  BY EmptySeq DEF Init, BillOK
<1>2. BillOK /\ [Next]_items => BillOK'
  <2> SUFFICES ASSUME BillOK, [Next]_items PROVE BillOK'
    OBVIOUS
  <2>1. ASSUME NEW item \in Lines, AddItem(item) PROVE BillOK'
    BY <2>1, BillsAssumption, AppendProperties DEF AddItem, BillOK
  <2>2. CASE UNCHANGED items
    BY <2>2 DEF BillOK
  <2> QED
    BY <2>1, <2>2 DEF Next
<1> QED
  BY <1>1, <1>2, PTL DEF Spec

(* What applying a payment credits to the tax accounts, each tax rounded by*)
(* itself (state.go, ApplyTransaction), and what NetToPayee leaves to the  *)
(* payee are in a word the gross amount, whatever overflows on the way.    *)
THEOREM BillsNothingLostInRounding == Spec => []NothingLostInRounding
<1>1. BillOK => NothingLostInRounding
  <2> DEFINE A == AllowedTaxAccounts
             credits == [a \in A |-> Credit(items, a)]
             taken == TaxTotal(items) + DiscountTotal(items)
  <2> SUFFICES ASSUME BillOK, ValidLines(items)
               PROVE  Wrap(SumOver(credits, A) + NetToPayee(items)) = GrossAmount(items)
    BY DEF NothingLostInRounding, SumOver
  <2>1. items \in Seq(LineItem) /\ \A item \in ToSet(items) : ValidItem(item)
    BY DEF BillOK, ValidLines
  <2>2. IsFiniteSet(A)
    BY BillsAssumption
  <2>3. /\ SumOver(credits, A) \in Int
        /\ TaxTotal(items) \in Int /\ DiscountTotal(items) \in Int
        /\ Alike(SumOver(credits, A), taken)
    BY <2>1, <2>2, BillHandsOut
  <2>4. NetToPayee(items) \in Int
    <3> DEFINE n == GrossAmount(items) - TaxTotal(items) - DiscountTotal(items)
    <3>1. n \in Int
      BY <2>1, <2>3, GrossInt
    <3>2. NetToPayee(items) = Wrap(n)
      BY DEF NetToPayee
    <3> HIDE DEF n
    <3> QED
      BY <3>1, <3>2, WrapInt
  <2>5. Wrap(taken + NetToPayee(items)) = GrossAmount(items)
    BY DEF ValidLines
  <2>6. taken \in Int
    BY <2>3
  <2> HIDE DEF credits, taken, A
  <2> DEFINE u == SumOver(credits, A)
             n == NetToPayee(items)
  <2>7. u \in Int /\ n \in Int /\ Alike(u, taken)
    BY <2>3, <2>4
  <2>8. Wrap(u + n) = Wrap(taken + n)
    <3> HIDE DEF u, n
    <3>1. Alike(n, n)
      BY <2>7, AlikeIs
    <3>2. Alike(u + n, taken + n)
      BY <2>6, <2>7, <3>1, AlikeIs
    <3>3. u + n \in Int /\ taken + n \in Int
      BY <2>6, <2>7
    <3> QED
      BY <3>2, <3>3, WrapSame
  <2> QED
    BY <2>5, <2>8
<1> QED
  BY <1>1, BillOKHolds, PTL

(* When nothing overflows, a payment that passes ValidateTransaction has   *)
(* the sum of its lines as its gross amount, and taxes and discounts never *)
(* take more than that.                                                    *)
THEOREM BillsSplitsStayWithinTheLines == Spec => []SplitsStayWithinTheLines
<1>1. BillOK => SplitsStayWithinTheLines
  <2> SUFFICES ASSUME BillOK, ValidLines(items), NothingOverflows(items)
               PROVE  /\ GrossAmount(items) = ExactGross(items)
                      /\ ExactTaken(items) <= ExactGross(items)
    BY DEF SplitsStayWithinTheLines
  <2>1. Sound(items)
    BY DEF BillOK, Sound
  <2>2. /\ GrossAmount(items) = ExactGross(items) /\ GrossAmount(items) \in Nat
        /\ NetToPayee(items) = ExactGross(items) - ExactTaken(items)
        /\ NetToPayee(items) \in Nat /\ ExactTaken(items) \in Nat
    BY <2>1, Getters, LineTotals
  <2> QED
    BY <2>2
<1> QED
  BY <1>1, BillOKHolds, PTL
=============================================================================
