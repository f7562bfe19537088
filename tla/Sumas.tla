------------------------------- MODULE Sumas -------------------------------
(****************************************************************************)
(* What SumFunctionOnSet adds over a finite set: the money and the units of *)
(* every model are counted with it.                                         *)
(****************************************************************************)
EXTENDS Integers, FiniteSets, Functions, FiniteSetTheorems, WellFoundedInduction, TLAPS

Elegido(s) == CHOOSE x \in s : TRUE

\* The equation of the fold over the subsets of S.
Ecuacion(S, f, g) ==
    g = [s \in SUBSET S |-> IF s = {} THEN 0 ELSE f[Elegido(s)] + g[s \ {Elegido(s)}]]

\* A nonempty set of subsets of a finite set has one with no other of them inside.
LEMMA Menores ==
    ASSUME NEW S, IsFiniteSet(S), NEW T \in SUBSET SUBSET S, T # {}
    PROVE  \E x \in T : \A y \in T : y \subseteq x => y = x
<1>1. FiniteSubsetsOf(S) = SUBSET S
  BY FS_Subset DEF FiniteSubsetsOf
<1>2. IsWellFoundedOn(StrictSubsetOrdering(S), FiniteSubsetsOf(S))
  BY FS_StrictSubsetOrderingWellFounded
<1>3. PICK x \in T : \A y \in T : ~ (<<y, x>> \in StrictSubsetOrdering(S))
  BY <1>1, <1>2, WFMin
<1>4. ASSUME NEW y \in T, y \subseteq x, y # x PROVE FALSE
  BY <1>3, <1>4 DEF StrictSubsetOrdering
<1> QED
  BY <1>4

LEMMA Elegible == \A s : s # {} => Elegido(s) \in s
BY DEF Elegido

\* Two solutions agree on the subsets they share.
LEMMA Coherente ==
    ASSUME NEW S, IsFiniteSet(S), NEW T, NEW U \in SUBSET S, U \in SUBSET T,
           NEW f, NEW g, NEW h, Ecuacion(S, f, g), Ecuacion(T, f, h)
    PROVE  g[U] = h[U]
<1> DEFINE Malos == {s \in SUBSET U : g[s] # h[s]}
<1>1. CASE Malos = {}
  BY <1>1
<1>2. CASE Malos # {}
  <2>1. PICK s \in Malos : \A y \in Malos : y \subseteq s => y = s
    <3>1. IsFiniteSet(U)
      BY FS_Subset
    <3> HIDE DEF Malos
    <3>2. Malos \in SUBSET SUBSET U
      BY DEF Malos
    <3> QED
      BY <1>2, <3>1, <3>2, Menores
  <2>2. /\ g[s] = IF s = {} THEN 0 ELSE f[Elegido(s)] + g[s \ {Elegido(s)}]
        /\ h[s] = IF s = {} THEN 0 ELSE f[Elegido(s)] + h[s \ {Elegido(s)}]
    <3>1. s \in SUBSET S /\ s \in SUBSET T
      OBVIOUS
    <3>2. g[s] = IF s = {} THEN 0 ELSE f[Elegido(s)] + g[s \ {Elegido(s)}]
      BY <3>1 DEF Ecuacion
    <3>3. h[s] = IF s = {} THEN 0 ELSE f[Elegido(s)] + h[s \ {Elegido(s)}]
      BY <3>1 DEF Ecuacion
    <3> QED
      BY <3>2, <3>3
  <2>3. s # {}
    BY <2>2
  <2>4. s \ {Elegido(s)} \notin Malos
    BY <2>1, <2>3, Elegible
  <2>5. g[s \ {Elegido(s)}] = h[s \ {Elegido(s)}]
    BY <2>4
  <2> QED
    BY <2>2, <2>3, <2>5
<1> QED
  BY <1>1, <1>2

LEMMA HaySolucion ==
    ASSUME NEW S, IsFiniteSet(S), NEW f
    PROVE  \E g : Ecuacion(S, f, g)
<1> DEFINE Malos == {s \in SUBSET S : ~\E g : Ecuacion(s, f, g)}
<1>1. SUFFICES ASSUME Malos # {} PROVE FALSE
  OBVIOUS
<1>2. PICK T \in Malos : \A y \in Malos : y \subseteq T => y = T
  <2>1. Malos \in SUBSET SUBSET S
    OBVIOUS
  <2> HIDE DEF Malos
  <2> QED
    BY <1>1, <2>1, Menores
<1>3. IsFiniteSet(T)
  BY FS_Subset
<1> DEFINE Sol(s) == CHOOSE g : Ecuacion(s, f, g)
           h == [s \in SUBSET T |-> IF s = {} THEN 0
                    ELSE f[Elegido(s)] + Sol(s \ {Elegido(s)})[s \ {Elegido(s)}]]
<1>4. ASSUME NEW s \in SUBSET T, s # T PROVE Ecuacion(s, f, Sol(s))
  <2>1. s \notin Malos
    BY <1>2, <1>4
  <2>2. \E g : Ecuacion(s, f, g)
    BY <2>1
  <2> QED
    BY <2>2
<1>5. ASSUME NEW s \in SUBSET T, s # T PROVE h[s] = Sol(s)[s]
  <2>1. CASE s = {}
    <3>1. Sol(s)[s] = 0
      <4>1. Ecuacion(s, f, Sol(s))
        BY <1>4, <1>5
      <4> HIDE DEF Sol
      <4> QED
        BY <2>1, <4>1 DEF Ecuacion
    <3> HIDE DEF Sol
    <3> QED
      BY <2>1, <3>1
  <2>2. CASE s # {}
    <3> DEFINE u == s \ {Elegido(s)}
    <3>1. u \in SUBSET T /\ u # T /\ u \in SUBSET s
      BY <1>5
    <3>2. Ecuacion(s, f, Sol(s)) /\ Ecuacion(u, f, Sol(u))
      BY <1>4, <1>5, <3>1
    <3>3. IsFiniteSet(s)
      BY <1>3, FS_Subset
    <3> HIDE DEF Sol
    <3>4. Sol(s)[u] = Sol(u)[u]
      BY <3>1, <3>2, <3>3, Coherente
    <3>5. Sol(s)[s] = f[Elegido(s)] + Sol(s)[u]
      BY <2>2, <3>2 DEF Ecuacion
    <3>6. h[s] = f[Elegido(s)] + Sol(u)[u]
      BY <2>2
    <3> QED
      BY <3>4, <3>5, <3>6
  <2> QED
    BY <2>1, <2>2
<1>6. Ecuacion(T, f, h)
  <2>1. ASSUME NEW s \in SUBSET T, s # {}
        PROVE  Sol(s \ {Elegido(s)})[s \ {Elegido(s)}] = h[s \ {Elegido(s)}]
    <3>1. s \ {Elegido(s)} \in SUBSET T /\ s \ {Elegido(s)} # T
      BY <2>1, Elegible
    <3> HIDE DEF Sol, h
    <3> QED
      BY <1>5, <3>1
  <2>2. h = [s \in SUBSET T |-> IF s = {} THEN 0 ELSE f[Elegido(s)] + h[s \ {Elegido(s)}]]
    <3> DEFINE A(s) == IF s = {} THEN 0
                       ELSE f[Elegido(s)] + Sol(s \ {Elegido(s)})[s \ {Elegido(s)}]
               B(s) == IF s = {} THEN 0 ELSE f[Elegido(s)] + h[s \ {Elegido(s)}]
    <3>1. \A s \in SUBSET T : A(s) = B(s)
      <4> HIDE DEF Sol, h
      <4> QED
        BY <2>1
    <3>2. h = [s \in SUBSET T |-> A(s)]
      OBVIOUS
    <3> HIDE DEF A, h, Sol
    <3>3. h = [s \in SUBSET T |-> B(s)]
      <4> HIDE DEF B
      <4> QED
        BY <3>1, <3>2
    <3> QED
      BY <3>3 DEF B
  <2> HIDE DEF Sol, h
  <2> QED
    BY <2>2 DEF Ecuacion
<1>7. T \notin Malos
  <2> HIDE DEF Sol, h
  <2> QED
    BY <1>6
<1> QED
  BY <1>7

LEMMA SumaEsSolucion ==
    ASSUME NEW S, IsFiniteSet(S), NEW f
    PROVE  \E g : Ecuacion(S, f, g) /\ SumFunctionOnSet(f, S) = g[S]
<1> DEFINE g == CHOOSE g : Ecuacion(S, f, g)
<1>1. Ecuacion(S, f, g)
  BY HaySolucion
<1>2. SumFunctionOnSet(f, S) = g[S]
  BY DEF SumFunctionOnSet, FoldFunctionOnSet, MapThenFoldSet, Ecuacion, Elegido
<1> QED
  BY <1>1, <1>2
-----------------------------------------------------------------------------
\* The sum takes the element chosen and goes on with the rest.
LEMMA SumaPorElegido ==
    ASSUME NEW S, IsFiniteSet(S), NEW f
    PROVE  /\ S = {} => SumFunctionOnSet(f, S) = 0
           /\ S # {} => SumFunctionOnSet(f, S)
                          = f[Elegido(S)] + SumFunctionOnSet(f, S \ {Elegido(S)})
<1>1. PICK g : Ecuacion(S, f, g) /\ SumFunctionOnSet(f, S) = g[S]
  BY SumaEsSolucion
<1>2. g[S] = IF S = {} THEN 0 ELSE f[Elegido(S)] + g[S \ {Elegido(S)}]
  BY <1>1 DEF Ecuacion
<1>3. CASE S = {}
  BY <1>1, <1>2, <1>3
<1>4. CASE S # {}
  <2> DEFINE R == S \ {Elegido(S)}
  <2>1. IsFiniteSet(R)
    BY FS_Subset
  <2>2. PICK h : Ecuacion(R, f, h) /\ SumFunctionOnSet(f, R) = h[R]
    BY <2>1, SumaEsSolucion
  <2>3. g[R] = h[R]
    BY <1>1, <2>1, <2>2, Coherente
  <2> QED
    BY <1>1, <1>2, <1>4, <2>2, <2>3
<1> QED
  BY <1>3, <1>4

LEMMA SumaEntera ==
    ASSUME NEW S, IsFiniteSet(S), NEW f, \A x \in S : f[x] \in Int
    PROVE  SumFunctionOnSet(f, S) \in Int
<1> DEFINE Malos == {s \in SUBSET S : SumFunctionOnSet(f, s) \notin Int}
<1>1. SUFFICES ASSUME Malos # {} PROVE FALSE
  OBVIOUS
<1>2. PICK s \in Malos : \A y \in Malos : y \subseteq s => y = s
  <2>1. Malos \in SUBSET SUBSET S
    OBVIOUS
  <2> HIDE DEF Malos
  <2> QED
    BY <1>1, <2>1, Menores
<1>3. s \in SUBSET S /\ IsFiniteSet(s)
  BY FS_Subset
<1>4. s # {}
  BY <1>3, SumaPorElegido
<1>5. SumFunctionOnSet(f, s) = f[Elegido(s)] + SumFunctionOnSet(f, s \ {Elegido(s)})
  BY <1>3, <1>4, SumaPorElegido
<1>6. Elegido(s) \in s /\ s \ {Elegido(s)} \notin Malos
  BY <1>2, <1>4, Elegible
<1> QED
  BY <1>3, <1>5, <1>6

\* Any element can be taken apart, not only the one chosen.
LEMMA SumaQuita ==
    ASSUME NEW S, IsFiniteSet(S), NEW f, \A x \in S : f[x] \in Int, NEW a \in S
    PROVE  SumFunctionOnSet(f, S) = f[a] + SumFunctionOnSet(f, S \ {a})
<1> DEFINE Suma(s) == SumFunctionOnSet(f, s)
           Malos == {s \in SUBSET S : \E x \in s : Suma(s) # f[x] + Suma(s \ {x})}
<1>1. SUFFICES ASSUME Malos # {} PROVE FALSE
  OBVIOUS
<1>2. PICK s \in Malos : \A y \in Malos : y \subseteq s => y = s
  <2>1. Malos \in SUBSET SUBSET S
    OBVIOUS
  <2> HIDE DEF Malos
  <2> QED
    BY <1>1, <2>1, Menores
<1>3. PICK x \in s : Suma(s) # f[x] + Suma(s \ {x})
  OBVIOUS
<1>4. ASSUME NEW u \in SUBSET S
      PROVE  Suma(u) \in Int /\ (u # {} => Suma(u) = f[Elegido(u)] + Suma(u \ {Elegido(u)}))
  <2>1. IsFiniteSet(u)
    BY FS_Subset
  <2> QED
    BY <2>1, SumaEntera, SumaPorElegido
<1> DEFINE c == Elegido(s)
<1>5. c \in s /\ c # x
  BY <1>3, <1>4, Elegible
<1>6. s \ {x} \notin Malos /\ s \ {c} \notin Malos
  BY <1>2, <1>5
<1>7. Suma(s \ {x}) = f[c] + Suma((s \ {x}) \ {c})
  BY <1>5, <1>6
<1>8. Suma(s \ {c}) = f[x] + Suma((s \ {c}) \ {x})
  BY <1>5, <1>6
<1>9. Suma((s \ {c}) \ {x}) = Suma((s \ {x}) \ {c})
  <2>1. (s \ {c}) \ {x} = (s \ {x}) \ {c}
    OBVIOUS
  <2> HIDE DEF Suma, c
  <2> QED
    BY <2>1
<1>10. Suma(s) = f[c] + Suma(s \ {c})
  BY <1>4, <1>5
<1>11. /\ f[c] \in Int /\ f[x] \in Int /\ Suma((s \ {x}) \ {c}) \in Int
       /\ Suma(s \ {x}) \in Int /\ Suma(s \ {c}) \in Int /\ Suma(s) \in Int
  BY <1>4, <1>5
<1> HIDE DEF Suma, c, Malos
<1> QED
  BY <1>3, <1>7, <1>8, <1>9, <1>10, <1>11

\* The sum of the values of g is at most that of f when each of them is.
LEMMA SumaMonotona ==
    ASSUME NEW S, IsFiniteSet(S), NEW f, NEW g,
           \A x \in S : f[x] \in Int /\ g[x] \in Int /\ f[x] <= g[x]
    PROVE  SumFunctionOnSet(f, S) <= SumFunctionOnSet(g, S)
<1> DEFINE F(s) == SumFunctionOnSet(f, s)
           G(s) == SumFunctionOnSet(g, s)
           Malos == {s \in SUBSET S : ~ (F(s) <= G(s))}
<1>1. SUFFICES ASSUME Malos # {} PROVE FALSE
  OBVIOUS
<1>2. PICK s \in Malos : \A y \in Malos : y \subseteq s => y = s
  <2>1. Malos \in SUBSET SUBSET S
    OBVIOUS
  <2> HIDE DEF Malos
  <2> QED
    BY <1>1, <2>1, Menores
<1>3. ASSUME NEW u \in SUBSET S
      PROVE  F(u) \in Int /\ G(u) \in Int /\ (u = {} => F(u) = 0 /\ G(u) = 0)
  <2>1. IsFiniteSet(u)
    BY FS_Subset
  <2> QED
    BY <2>1, SumaEntera, SumaPorElegido
<1> DEFINE c == Elegido(s)
<1>4. s # {} /\ c \in s
  BY <1>3, Elegible
<1>5. F(s) = f[c] + F(s \ {c}) /\ G(s) = g[c] + G(s \ {c})
  <2>1. IsFiniteSet(s)
    BY FS_Subset
  <2> QED
    BY <1>4, <2>1, SumaPorElegido
<1>6. F(s \ {c}) <= G(s \ {c})
  BY <1>2, <1>4
<1>7. /\ f[c] \in Int /\ g[c] \in Int /\ f[c] <= g[c] /\ F(s \ {c}) \in Int
      /\ G(s \ {c}) \in Int /\ F(s) \in Int /\ G(s) \in Int /\ ~ (F(s) <= G(s))
  BY <1>3, <1>4
<1> HIDE DEF F, G, c
<1> QED
  BY <1>5, <1>6, <1>7

\* It only looks at the values over S.
LEMMA SumaIgual ==
    ASSUME NEW S, IsFiniteSet(S), NEW f, NEW g, \A x \in S : f[x] \in Int /\ g[x] = f[x]
    PROVE  SumFunctionOnSet(g, S) = SumFunctionOnSet(f, S)
<1>1. /\ SumFunctionOnSet(f, S) <= SumFunctionOnSet(g, S)
      /\ SumFunctionOnSet(g, S) <= SumFunctionOnSet(f, S)
  BY SumaMonotona
<1>2. SumFunctionOnSet(f, S) \in Int /\ SumFunctionOnSet(g, S) \in Int
  BY SumaEntera
<1> QED
  BY <1>1, <1>2

\* One value changes.
LEMMA SumaCambia ==
    ASSUME NEW S, IsFiniteSet(S), NEW f, NEW g, NEW a \in S,
           \A x \in S : f[x] \in Int /\ g[x] \in Int,
           \A x \in S \ {a} : g[x] = f[x]
    PROVE  SumFunctionOnSet(g, S) = SumFunctionOnSet(f, S) - f[a] + g[a]
<1>1. IsFiniteSet(S \ {a})
  BY FS_Subset
<1>2. SumFunctionOnSet(g, S \ {a}) = SumFunctionOnSet(f, S \ {a})
  BY <1>1, SumaIgual
<1>3. SumFunctionOnSet(f, S \ {a}) \in Int
  BY <1>1, SumaEntera
<1>4. /\ SumFunctionOnSet(f, S) = f[a] + SumFunctionOnSet(f, S \ {a})
      /\ SumFunctionOnSet(g, S) = g[a] + SumFunctionOnSet(g, S \ {a})
  BY SumaQuita
<1> QED
  BY <1>2, <1>3, <1>4

LEMMA SumaDeCeros ==
    ASSUME NEW S, IsFiniteSet(S), NEW f, \A x \in S : f[x] = 0
    PROVE  SumFunctionOnSet(f, S) = 0
<1> DEFINE Malos == {s \in SUBSET S : SumFunctionOnSet(f, s) # 0}
<1>1. SUFFICES ASSUME Malos # {} PROVE FALSE
  OBVIOUS
<1>2. PICK s \in Malos : \A y \in Malos : y \subseteq s => y = s
  <2>1. Malos \in SUBSET SUBSET S
    OBVIOUS
  <2> HIDE DEF Malos
  <2> QED
    BY <1>1, <2>1, Menores
<1>3. s \in SUBSET S /\ IsFiniteSet(s)
  BY FS_Subset
<1>4. s # {}
  BY <1>3, SumaPorElegido
<1>5. SumFunctionOnSet(f, s) = f[Elegido(s)] + SumFunctionOnSet(f, s \ {Elegido(s)})
  BY <1>3, <1>4, SumaPorElegido
<1>6. Elegido(s) \in s /\ s \ {Elegido(s)} \notin Malos
  BY <1>2, <1>4, Elegible
<1> QED
  BY <1>3, <1>5, <1>6

LEMMA SumaNatural ==
    ASSUME NEW S, IsFiniteSet(S), NEW f, \A x \in S : f[x] \in Nat
    PROVE  SumFunctionOnSet(f, S) \in Nat
<1> DEFINE z == [x \in S |-> 0]
<1>1. SumFunctionOnSet(z, S) = 0
  BY SumaDeCeros
<1>2. SumFunctionOnSet(z, S) <= SumFunctionOnSet(f, S)
  BY SumaMonotona
<1>3. SumFunctionOnSet(f, S) \in Int
  BY SumaEntera
<1> QED
  BY <1>1, <1>2, <1>3

\* The sum of the sums is the sum over both.
LEMMA SumaDeDos ==
    ASSUME NEW S, IsFiniteSet(S), NEW f, NEW g, NEW h,
           \A x \in S : f[x] \in Int /\ g[x] \in Int /\ h[x] = f[x] + g[x]
    PROVE  SumFunctionOnSet(h, S) = SumFunctionOnSet(f, S) + SumFunctionOnSet(g, S)
<1> DEFINE F(s) == SumFunctionOnSet(f, s)
           G(s) == SumFunctionOnSet(g, s)
           H(s) == SumFunctionOnSet(h, s)
           Malos == {s \in SUBSET S : H(s) # F(s) + G(s)}
<1>1. SUFFICES ASSUME Malos # {} PROVE FALSE
  OBVIOUS
<1>2. PICK s \in Malos : \A y \in Malos : y \subseteq s => y = s
  <2>1. Malos \in SUBSET SUBSET S
    OBVIOUS
  <2> HIDE DEF Malos
  <2> QED
    BY <1>1, <2>1, Menores
<1>3. ASSUME NEW u \in SUBSET S
      PROVE  /\ F(u) \in Int /\ G(u) \in Int
             /\ u = {} => F(u) = 0 /\ G(u) = 0 /\ H(u) = 0
  <2>1. IsFiniteSet(u)
    BY FS_Subset
  <2> QED
    BY <2>1, SumaEntera, SumaPorElegido
<1> DEFINE c == Elegido(s)
<1>4. s # {} /\ c \in s
  BY <1>3, Elegible
<1>5. /\ F(s) = f[c] + F(s \ {c}) /\ G(s) = g[c] + G(s \ {c})
      /\ H(s) = h[c] + H(s \ {c})
  <2>1. IsFiniteSet(s)
    BY FS_Subset
  <2> QED
    BY <1>4, <2>1, SumaPorElegido
<1>6. H(s \ {c}) = F(s \ {c}) + G(s \ {c})
  BY <1>2, <1>4
<1>7. /\ f[c] \in Int /\ g[c] \in Int /\ h[c] = f[c] + g[c] /\ F(s \ {c}) \in Int
      /\ G(s \ {c}) \in Int /\ H(s) # F(s) + G(s)
  BY <1>3, <1>4
<1> HIDE DEF F, G, H, c
<1> QED
  BY <1>5, <1>6, <1>7

\* A sum over part of S is the sum over S of the same values, zero outside.
LEMMA SumaDeParte ==
    ASSUME NEW S, IsFiniteSet(S), NEW T \in SUBSET S, NEW f, NEW h,
           \A x \in S : f[x] \in Int /\ h[x] = IF x \in T THEN f[x] ELSE 0
    PROVE  SumFunctionOnSet(f, T) = SumFunctionOnSet(h, S)
<1> DEFINE F(s) == SumFunctionOnSet(f, s \cap T)
           H(s) == SumFunctionOnSet(h, s)
           Malos == {s \in SUBSET S : H(s) # F(s)}
<1>1. SUFFICES ASSUME Malos # {} PROVE FALSE
  <2>1. S \notin Malos /\ S \cap T = T
    BY <1>1
  <2> QED
    BY <2>1
<1>2. PICK s \in Malos : \A y \in Malos : y \subseteq s => y = s
  <2>1. Malos \in SUBSET SUBSET S
    OBVIOUS
  <2> HIDE DEF Malos
  <2> QED
    BY <1>1, <2>1, Menores
<1>3. ASSUME NEW u \in SUBSET S
      PROVE  /\ F(u) \in Int /\ H(u) \in Int
             /\ u = {} => F(u) = 0 /\ H(u) = 0
  <2>1. IsFiniteSet(u) /\ IsFiniteSet(u \cap T)
    BY FS_Subset
  <2> QED
    BY <2>1, SumaEntera, SumaPorElegido
<1> DEFINE c == Elegido(s)
<1>4. s # {} /\ c \in s
  BY <1>3, Elegible
<1>5. IsFiniteSet(s) /\ IsFiniteSet(s \cap T) /\ IsFiniteSet((s \ {c}) \cap T)
  BY FS_Subset
<1>6. H(s) = h[c] + H(s \ {c})
  BY <1>4, <1>5, SumaPorElegido
<1>7. H(s \ {c}) = F(s \ {c})
  BY <1>2, <1>4
<1>8. F(s) = h[c] + F(s \ {c})
  <2>1. CASE c \in T
    <3>1. (s \cap T) \ {c} = (s \ {c}) \cap T /\ c \in s \cap T
      BY <1>4, <2>1
    <3>2. \A x \in s \cap T : f[x] \in Int
      OBVIOUS
    <3>3. SumFunctionOnSet(f, s \cap T) = f[c] + SumFunctionOnSet(f, (s \cap T) \ {c})
      BY <1>5, <3>1, <3>2, SumaQuita
    <3> QED
      BY <1>4, <2>1, <3>1, <3>3
  <2>2. CASE c \notin T
    <3>1. s \cap T = (s \ {c}) \cap T
      BY <2>2
    <3>2. F(s \ {c}) \in Int /\ h[c] = 0
      BY <1>3, <1>4, <2>2
    <3>3. F(s) = F(s \ {c})
      BY <3>1
    <3> HIDE DEF F
    <3> QED
      BY <3>2, <3>3
  <2> QED
    BY <2>1, <2>2
<1> QED
  BY <1>6, <1>7, <1>8

\* One value is at most the sum, when none is negative.
LEMMA SumaIncluye ==
    ASSUME NEW S, IsFiniteSet(S), NEW f, \A x \in S : f[x] \in Nat, NEW a \in S
    PROVE  f[a] <= SumFunctionOnSet(f, S)
<1>1. IsFiniteSet(S \ {a})
  BY FS_Subset
<1>2. SumFunctionOnSet(f, S \ {a}) \in Nat
  BY <1>1, SumaNatural
<1>3. SumFunctionOnSet(f, S) = f[a] + SumFunctionOnSet(f, S \ {a})
  BY SumaQuita
<1> QED
  BY <1>2, <1>3

\* The sum of a part and of the rest.
LEMMA SumaPartida ==
    ASSUME NEW S, IsFiniteSet(S), NEW T \in SUBSET S, NEW f, \A x \in S : f[x] \in Int
    PROVE  SumFunctionOnSet(f, S) = SumFunctionOnSet(f, T) + SumFunctionOnSet(f, S \ T)
<1> DEFINE g == [x \in S |-> IF x \in T THEN f[x] ELSE 0]
           h == [x \in S |-> IF x \in S \ T THEN f[x] ELSE 0]
<1>1. \A x \in S : f[x] \in Int /\ g[x] = IF x \in T THEN f[x] ELSE 0
  OBVIOUS
<1>2. \A x \in S : f[x] \in Int /\ h[x] = IF x \in S \ T THEN f[x] ELSE 0
  OBVIOUS
<1>3. \A x \in S : g[x] \in Int /\ h[x] \in Int /\ f[x] = g[x] + h[x]
  OBVIOUS
<1> HIDE DEF g, h
<1>4. SumFunctionOnSet(f, T) = SumFunctionOnSet(g, S)
  BY <1>1, SumaDeParte
<1>5. SumFunctionOnSet(f, S \ T) = SumFunctionOnSet(h, S)
  <2>1. S \ T \in SUBSET S
    OBVIOUS
  <2> QED
    BY <2>1, <1>2, SumaDeParte
<1>6. SumFunctionOnSet(f, S) = SumFunctionOnSet(g, S) + SumFunctionOnSet(h, S)
  BY <1>3, SumaDeDos
<1> QED
  BY <1>4, <1>5, <1>6

\* A nonempty finite set of integers has a greatest one.
LEMMA HayMaximo ==
    ASSUME NEW S, IsFiniteSet(S), \A x \in S : x \in Int, S # {}
    PROVE  \E x \in S : \A y \in S : x >= y
<1> DEFINE Malos == {s \in SUBSET S : s # {} /\ ~ \E x \in s : \A y \in s : x >= y}
<1>1. SUFFICES ASSUME Malos # {} PROVE FALSE
  OBVIOUS
<1>2. PICK s \in Malos : \A y \in Malos : y \subseteq s => y = s
  <2>1. Malos \in SUBSET SUBSET S
    OBVIOUS
  <2> HIDE DEF Malos
  <2> QED
    BY <1>1, <2>1, Menores
<1>3. PICK a \in s : TRUE
  OBVIOUS
<1>4. s \ {a} # {}
  <2>1. ASSUME s \ {a} = {} PROVE FALSE
    <3>1. \A y \in s : a >= y
      BY <1>3, <2>1
    <3> QED
      BY <1>3, <3>1
  <2> QED
    BY <2>1
<1>5. PICK m \in s \ {a} : \A y \in s \ {a} : m >= y
  <2>1. s \ {a} \in SUBSET S /\ s \ {a} \notin Malos
    BY <1>2, <1>3
  <2> QED
    BY <1>4, <2>1
<1>6. CASE a >= m
  <2>1. \A y \in s : a >= y
    BY <1>3, <1>5, <1>6
  <2> QED
    BY <1>3, <2>1
<1>7. CASE ~(a >= m)
  <2>1. \A y \in s : m >= y
    BY <1>3, <1>5, <1>7
  <2> QED
    BY <1>5, <2>1
<1> QED
  BY <1>6, <1>7

=============================================================================
