----------------------- MODULE DistribuicaoDfe_proofs ------------------------
(***************************************************************************)
(* Proofs about DistribuicaoDfe, for any number of synchronisations,       *)
(* documents, batches and failures.                                        *)
(*                                                                         *)
(* CursorSeguro is not inductive: a synchronisation writes into the row    *)
(* the cursor it carries, whether or not it still holds the claim. The     *)
(* invariant says that no synchronisation ever carries a cursor past an    *)
(* untreated document, because what it has left of a batch has no gap.     *)
(* That the variables stay in their sets needs none of this, and holds     *)
(* whatever a batch may miss.                                             *)
(***************************************************************************)
EXTENDS DistribuicaoDfe, WellFoundedInduction, TLAPS

SemLacuna(p) ==
  \A d \in local[p].docs :
    /\ local[p].seguro < d
    /\ \A n \in Nsus : local[p].seguro < n /\ n <= d => n \in local[p].docs

Lotes(p) ==
  /\ pc[p] \in {"ocioso", "reivindicar"} => local[p].lotes = 0
  /\ pc[p] \in {"consultar", "processar"} => local[p].lotes < MaxLotes

Andamento(p) ==
  /\ 1 .. local[p].cursor \subseteq tratados
  /\ pc[p] = "processar" =>
       /\ 1 .. local[p].seguro \subseteq tratados
       /\ SemLacuna(p)

ProcOK(p) == Lotes(p) /\ Andamento(p)

IInv ==
  /\ TypeOK
  /\ CursorSeguro
  /\ \A p \in Sincs : ProcOK(p)

-----------------------------------------------------------------------------
(* The next document of a batch comes right after the last one treated. *)
LEMMA ProximoSegue ==
  ASSUME TypeOK, NEW p \in Sincs, SemLacuna(p), local[p].docs # {}
  PROVE  /\ Proximo(p) = local[p].seguro + 1
         /\ Proximo(p) \in local[p].docs
         /\ local[p].docs \ {Proximo(p)} \subseteq Nsus
<1> DEFINE s == local[p].seguro
           D == local[p].docs
<1>1. s \in Nat /\ D \subseteq Nsus /\ Nsus \subseteq Nat
  BY DfeAssumption DEF TypeOK, Local, Nsus
<1>2. PICK d \in D : TRUE
  OBVIOUS
<1>3. s + 1 \in D
  BY <1>1, <1>2, DfeAssumption DEF SemLacuna, Nsus
<1>4. \A n \in D : s + 1 <= n
  <2>1. TAKE n \in D
  <2>2. n \in Nat /\ s < n
    BY <1>1 DEF SemLacuna
  <2>3. QED
    BY <1>1, <2>2
<1>5. Proximo(p) \in D /\ \A y \in D : Proximo(p) <= y
  BY <1>3, <1>4 DEF Proximo, Min
<1>6. Proximo(p) = s + 1
  <2>1. Proximo(p) \in Nat /\ Proximo(p) <= s + 1 /\ s + 1 <= Proximo(p)
    BY <1>1, <1>3, <1>4, <1>5
  <2>2. QED
    BY <1>1, <2>1
<1>7. QED
  BY <1>1, <1>5, <1>6

(* What the parser finds in a batch has no gap after its beginning. *)
LEMMA ExtraidosSemLacuna ==
  ASSUME Omissao # "qualquer",
         NEW c \in 0 .. UltimoNsu, NEW u \in 0 .. UltimoNsu,
         NEW D \in Extraidos((c + 1) .. u)
  PROVE  /\ D \subseteq Nsus
         /\ \A d \in D :
              /\ c < d
              /\ \A n \in Nsus : c < n /\ n <= d => n \in D
<1>1. /\ D \subseteq (c + 1) .. u
      /\ \A n \in D, m \in (c + 1) .. u : m <= n => m \in D
  BY DfeAssumption DEF Extraidos
<1>2. QED
  BY <1>1, DfeAssumption DEF Nsus

-----------------------------------------------------------------------------
LEMMA InitIInv == Init => IInv
  BY DfeAssumption DEF Init, IInv, TypeOK, CursorSeguro, ProcOK, Lotes, Andamento,
     Controle, Local, Vazio, Pontos, Nsus

(* What a step of p must show: it touches no other synchronisation, keeps  *)
(* what was treated, and leaves the row and p's own part right. *)
PassoOK(p) ==
  /\ TypeOK'
  /\ CursorSeguro'
  /\ ProcOK(p)'
  /\ \A q \in Sincs \ {p} : pc'[q] = pc[q] /\ local'[q] = local[q]
  /\ tratados \subseteq tratados'

LEMMA PassoPreserva ==
  ASSUME IInv, NEW p \in Sincs, PassoOK(p)
  PROVE  IInv'
<1>1. ASSUME NEW q \in Sincs, q # p PROVE ProcOK(q)'
  BY <1>1 DEF IInv, PassoOK, ProcOK, Lotes, Andamento, SemLacuna
<1>2. QED
  BY <1>1 DEF IInv, PassoOK

(* A step of p keeps the types when the row and p's own part are right. *)
LEMMA TiposDoPasso ==
  ASSUME TypeOK, NEW p \in Sincs, emitidos' = emitidos, tratados' \subseteq Nsus,
         controle' \in Controle, falhas' \in 0 .. MaxFalhas,
         NEW l \in Local, local' = [local EXCEPT ![p] = l],
         NEW ponto \in Pontos, pc' = [pc EXCEPT ![p] = ponto]
  PROVE  TypeOK'
  BY DEF TypeOK

(* The fields of what a synchronisation holds, and of the row. *)
LEMMA Campos ==
  ASSUME TypeOK, NEW p \in Sincs
  PROVE  /\ local[p] \in Local
         /\ local[p].cursor \in 0 .. UltimoNsu
         /\ local[p].max \in 0 .. UltimoNsu
         /\ local[p].ult \in 0 .. UltimoNsu
         /\ local[p].docs \subseteq Nsus
         /\ local[p].seguro \in 0 .. UltimoNsu
         /\ local[p].falhou \in BOOLEAN
         /\ local[p].lotes \in 0 .. MaxLotes
         /\ controle.ultimo \in 0 .. UltimoNsu
         /\ controle.max \in 0 .. UltimoNsu
         /\ emitidos \in 0 .. UltimoNsu
  BY DEF TypeOK, Local, Controle

LEMMA VazioTipo == Vazio \in Local
  BY DfeAssumption DEF Vazio, Local

LEMMA LerOK ==
  ASSUME IInv, NEW p \in Sincs, Ler(p)
  PROVE  PassoOK(p)
<1> DEFINE l == [local[p] EXCEPT !.cursor = controle.ultimo, !.max = controle.max]
<1>1. TypeOK'
  <2>1. l \in Local
    BY Campos DEF IInv, Local
  <2>2. local' = [local EXCEPT ![p] = l]
    BY DEF IInv, TypeOK, Local, Ler
  <2>3. QED
    BY <2>1, <2>2, TiposDoPasso DEF IInv, TypeOK, Ler, Pontos
<1>2. CursorSeguro'
  BY DEF IInv, Ler, CursorSeguro
<1>3. ProcOK(p)'
  <2>1. local'[p] = l /\ l.cursor = controle.ultimo /\ l.lotes = local[p].lotes
    BY Campos DEF IInv, TypeOK, Local, Ler
  <2>2. pc'[p] = "reivindicar"
    BY DEF IInv, TypeOK, Ler
  <2>3. QED
    BY <2>1, <2>2 DEF IInv, Ler, ProcOK, Lotes, Andamento, CursorSeguro
<1>4. QED
  BY <1>1, <1>2, <1>3 DEF PassoOK, Ler, IInv, TypeOK

LEMMA EncerrarOK ==
  ASSUME IInv, NEW p \in Sincs, Encerrar(p), emitidos' = emitidos, tratados' = tratados,
         controle' \in Controle, controle'.ultimo = controle.ultimo,
         falhas' \in 0 .. MaxFalhas
  PROVE  PassoOK(p)
<1>1. TypeOK'
  BY VazioTipo, TiposDoPasso DEF IInv, TypeOK, Encerrar, Pontos
<1>2. CursorSeguro'
  BY DEF IInv, CursorSeguro
<1>3. ProcOK(p)'
  BY DfeAssumption DEF IInv, TypeOK, Encerrar, Vazio, ProcOK, Lotes, Andamento
<1>4. QED
  BY <1>1, <1>2, <1>3 DEF PassoOK, Encerrar, IInv, TypeOK

(* A step that only goes to one of the points after the batches. *)
LEMMA IrOK ==
  ASSUME IInv, NEW p \in Sincs, NEW ponto \in {"adiar", "esgotar", "finalizar"},
         Ir(p, ponto), emitidos' = emitidos, tratados' = tratados,
         controle' \in Controle, 1 .. controle'.ultimo \subseteq tratados,
         falhas' \in 0 .. MaxFalhas
  PROVE  PassoOK(p)
<1>1. TypeOK'
  <2>1. local' = [local EXCEPT ![p] = local[p]]
    BY DEF IInv, TypeOK, Ir
  <2>2. QED
    BY <2>1, Campos, TiposDoPasso DEF IInv, TypeOK, Ir, Pontos
<1>2. CursorSeguro'
  BY DEF CursorSeguro
<1>3. ProcOK(p)'
  BY DEF IInv, TypeOK, Ir, ProcOK, Lotes, Andamento
<1>4. QED
  BY <1>1, <1>2, <1>3 DEF PassoOK, Ir, IInv, TypeOK

LEMMA ReivindicarOK ==
  ASSUME IInv, NEW p \in Sincs, Reivindicar(p)
  PROVE  PassoOK(p)
<1>1. CASE Disponivel
  <2>1. controle' \in Controle /\ controle'.ultimo = controle.ultimo
    BY <1>1 DEF IInv, TypeOK, Controle, Reivindicar
  <2>2. TypeOK'
    <3>1. local' = [local EXCEPT ![p] = local[p]]
      BY <1>1 DEF IInv, TypeOK, Reivindicar, Ir
    <3>2. QED
      BY <1>1, <2>1, <3>1, Campos, TiposDoPasso DEF IInv, TypeOK, Reivindicar, Ir, Pontos
  <2>3. CursorSeguro'
    BY <2>1 DEF IInv, CursorSeguro, Reivindicar
  <2>4. ProcOK(p)'
    BY <1>1, DfeAssumption DEF IInv, TypeOK, Reivindicar, Ir, ProcOK, Lotes, Andamento
  <2>5. QED
    BY <1>1, <2>2, <2>3, <2>4 DEF PassoOK, Reivindicar, Ir, IInv, TypeOK
<1>2. CASE ~Disponivel
  BY <1>2, EncerrarOK DEF IInv, TypeOK, Reivindicar
<1>3. QED
  BY <1>1, <1>2

LEMMA ConsultarLoteOK ==
  ASSUME Omissao # "qualquer", IInv, NEW p \in Sincs, ConsultarLote(p)
  PROVE  PassoOK(p)
<1> DEFINE c == local[p].cursor
           u == Menor(c + TamLote, emitidos)
<1>1. PICK D \in Extraidos((c + 1) .. u) :
        local' = [local EXCEPT ![p].max = Maior(@, emitidos), ![p].ult = u,
                               ![p].docs = D, ![p].seguro = c, ![p].falhou = FALSE]
  BY DEF ConsultarLote
<1> DEFINE l == [local[p] EXCEPT !.max = Maior(local[p].max, emitidos), !.ult = u,
                                 !.docs = D, !.seguro = c, !.falhou = FALSE]
<1>2. c \in 0 .. UltimoNsu /\ u \in 0 .. UltimoNsu
      /\ Maior(local[p].max, emitidos) \in 0 .. UltimoNsu
  BY Campos, DfeAssumption DEF IInv, Menor, Maior
<1>3. /\ D \subseteq Nsus
      /\ \A d \in D :
           /\ c < d
           /\ \A n \in Nsus : c < n /\ n <= d => n \in D
  BY <1>2, ExtraidosSemLacuna
<1>4. l \in Local /\ local' = [local EXCEPT ![p] = l]
  <2>1. l \in Local
    BY <1>2, <1>3, Campos DEF IInv, Local
  <2>2. local' = [local EXCEPT ![p] = l]
    BY <1>1 DEF IInv, TypeOK, Local
  <2>3. QED
    BY <2>1, <2>2
<1>5. TypeOK'
  BY <1>4, TiposDoPasso DEF IInv, TypeOK, ConsultarLote, Pontos
<1>6. CursorSeguro'
  BY DEF IInv, CursorSeguro, ConsultarLote
<1>7. ProcOK(p)'
  <2>1. local'[p] = l /\ pc'[p] = "processar"
    BY <1>4 DEF IInv, TypeOK, ConsultarLote
  <2>2. /\ l.cursor = c /\ l.seguro = c /\ l.docs = D /\ l.lotes = local[p].lotes
    BY Campos DEF IInv, Local
  <2>3. 1 .. c \subseteq tratados' /\ local[p].lotes < MaxLotes
    BY DEF IInv, ProcOK, Lotes, Andamento, ConsultarLote
  <2>4. QED
    BY <1>3, <2>1, <2>2, <2>3 DEF ProcOK, Lotes, Andamento, SemLacuna
<1>8. QED
  BY <1>4, <1>5, <1>6, <1>7 DEF PassoOK, ConsultarLote, IInv, TypeOK

LEMMA ConsultarVazioOK ==
  ASSUME IInv, NEW p \in Sincs, ConsultarVazio(p)
  PROVE  PassoOK(p)
<1> DEFINE l == [local[p] EXCEPT !.max = Maior(local[p].max, emitidos)]
<1>1. l \in Local /\ local' = [local EXCEPT ![p] = l]
  <2>1. Maior(local[p].max, emitidos) \in 0 .. UltimoNsu
    BY Campos DEF IInv, Maior
  <2>2. l \in Local
    BY <2>1, Campos DEF IInv, Local
  <2>3. local' = [local EXCEPT ![p] = l]
    BY DEF IInv, TypeOK, Local, ConsultarVazio
  <2>4. QED
    BY <2>2, <2>3
<1>2. TypeOK'
  BY <1>1, TiposDoPasso DEF IInv, TypeOK, ConsultarVazio, Pontos
<1>3. CursorSeguro'
  BY DEF IInv, CursorSeguro, ConsultarVazio
<1>4. ProcOK(p)'
  <2>1. local'[p] = l /\ l.cursor = local[p].cursor
    BY <1>1, Campos DEF IInv, TypeOK, Local
  <2>2. QED
    BY <2>1 DEF IInv, TypeOK, ConsultarVazio, ProcOK, Lotes, Andamento
<1>5. QED
  BY <1>1, <1>2, <1>3, <1>4 DEF PassoOK, ConsultarVazio, IInv, TypeOK

LEMMA FalhaOK == TypeOK /\ Falha => falhas' \in 0 .. MaxFalhas
  BY DfeAssumption DEF TypeOK, Falha

LEMMA ConsultarErroOK ==
  ASSUME IInv, NEW p \in Sincs, ConsultarErro(p)
  PROVE  PassoOK(p)
<1>1. PICK ponto \in {"adiar", "esgotar", "finalizar"} : Ir(p, ponto)
  BY DEF ConsultarErro
<1>2. QED
  BY <1>1, IrOK, FalhaOK DEF ConsultarErro, IInv, TypeOK, CursorSeguro

LEMMA TratarOK ==
  ASSUME IInv, NEW p \in Sincs, Tratar(p)
  PROVE  PassoOK(p)
<1> DEFINE n == Proximo(p)
           l == [local[p] EXCEPT !.docs = local[p].docs \ {n}, !.seguro = n]
<1>1. SemLacuna(p) /\ 1 .. local[p].seguro \subseteq tratados
  BY DEF IInv, ProcOK, Andamento, Tratar
<1>2. /\ n = local[p].seguro + 1
      /\ n \in local[p].docs
      /\ local[p].docs \ {n} \subseteq Nsus
  BY <1>1, ProximoSegue DEF IInv, Tratar
<1>3. n \in Nsus
  BY <1>2, Campos DEF IInv
<1>4. l \in Local /\ local' = [local EXCEPT ![p] = l]
  <2>1. l \in Local
    <3>1. n \in 0 .. UltimoNsu
      BY <1>3, DfeAssumption DEF Nsus
    <3>2. QED
      BY <1>2, <3>1, Campos DEF IInv, Local
  <2>2. local' = [local EXCEPT ![p] = l]
    BY DEF IInv, TypeOK, Local, Tratar
  <2>3. QED
    BY <2>1, <2>2
<1>5. TypeOK'
  <2>1. pc' = [pc EXCEPT ![p] = "processar"]
    BY DEF IInv, TypeOK, Tratar
  <2>2. QED
    BY <1>3, <1>4, <2>1, TiposDoPasso DEF IInv, TypeOK, Tratar, Pontos
<1>6. CursorSeguro'
  BY DEF IInv, CursorSeguro, Tratar
<1>7. ProcOK(p)'
  <2>1. local'[p] = l /\ pc'[p] = "processar"
    BY <1>4 DEF IInv, TypeOK, Tratar
  <2>2. /\ l.cursor = local[p].cursor /\ l.seguro = n
        /\ l.docs = local[p].docs \ {n} /\ l.lotes = local[p].lotes
    BY Campos DEF IInv, Local
  <2>3. 1 .. n \subseteq tratados'
    <3>1. \A m \in 1 .. n : m \in 1 .. local[p].seguro \/ m = n
      BY <1>2, Campos, DfeAssumption DEF IInv
    <3>2. QED
      BY <1>1, <3>1 DEF Tratar
  <2>4. \A d \in local[p].docs \ {n} :
          /\ n < d
          /\ \A m \in Nsus : n < m /\ m <= d => m \in local[p].docs \ {n}
    <3>1. TAKE d \in local[p].docs \ {n}
    <3>2. d \in Nat /\ local[p].seguro \in Nat /\ local[p].seguro < d
      BY <1>1, Campos, DfeAssumption DEF IInv, SemLacuna, Nsus
    <3>3. n < d
      BY <1>2, <3>1, <3>2
    <3>4. ASSUME NEW m \in Nsus, n < m, m <= d PROVE m \in local[p].docs \ {n}
      <4>1. local[p].seguro < m /\ m # n
        BY <1>2, <3>2, <3>4, DfeAssumption DEF Nsus
      <4>2. QED
        BY <1>1, <3>1, <3>4, <4>1 DEF SemLacuna
    <3>5. QED
      BY <3>3, <3>4
  <2>5. 1 .. local[p].cursor \subseteq tratados' /\ local[p].lotes < MaxLotes
    BY DEF IInv, ProcOK, Lotes, Andamento, Tratar
  <2>6. SemLacuna(p)'
    BY <2>1, <2>2, <2>4 DEF SemLacuna
  <2>7. QED
    BY <2>1, <2>2, <2>3, <2>5, <2>6 DEF ProcOK, Lotes, Andamento
<1>8. QED
  BY <1>4, <1>5, <1>6, <1>7 DEF PassoOK, Tratar, IInv, TypeOK

LEMMA TratarErroOK ==
  ASSUME IInv, NEW p \in Sincs, TratarErro(p)
  PROVE  PassoOK(p)
<1> DEFINE l == [local[p] EXCEPT !.docs = {}, !.falhou = TRUE]
<1>1. SemLacuna(p) /\ 1 .. local[p].seguro \subseteq tratados
  BY DEF IInv, ProcOK, Andamento, TratarErro
<1>2. Proximo(p) \in Nsus
  BY <1>1, ProximoSegue, Campos DEF IInv, TratarErro
<1>3. l \in Local /\ local' = [local EXCEPT ![p] = l]
  <2>1. l \in Local
    BY Campos DEF IInv, Local
  <2>2. local' = [local EXCEPT ![p] = l]
    BY DEF IInv, TypeOK, Local, TratarErro
  <2>3. QED
    BY <2>1, <2>2
<1>4. tratados' \subseteq Nsus /\ tratados \subseteq tratados'
  BY <1>2 DEF IInv, TypeOK, TratarErro
<1>5. TypeOK'
  <2>1. pc' = [pc EXCEPT ![p] = "processar"]
    BY DEF IInv, TypeOK, TratarErro
  <2>2. falhas' \in 0 .. MaxFalhas
    BY FalhaOK DEF IInv, TratarErro
  <2>3. QED
    BY <1>3, <1>4, <2>1, <2>2, TiposDoPasso DEF IInv, TypeOK, TratarErro, Pontos
<1>6. CursorSeguro'
  BY <1>4 DEF IInv, CursorSeguro, TratarErro
<1>7. ProcOK(p)'
  <2>1. local'[p] = l /\ pc'[p] = "processar"
    BY <1>3 DEF IInv, TypeOK, TratarErro
  <2>2. /\ l.cursor = local[p].cursor /\ l.seguro = local[p].seguro
        /\ l.docs = {} /\ l.lotes = local[p].lotes
    BY Campos DEF IInv, Local
  <2>3. QED
    BY <1>4, <2>1, <2>2 DEF IInv, TratarErro, ProcOK, Lotes, Andamento, SemLacuna
<1>8. QED
  BY <1>3, <1>4, <1>5, <1>6, <1>7 DEF PassoOK, TratarErro, IInv, TypeOK

(* The row as an update with p's cursor leaves it. *)
LEMMA AtualizadoOK ==
  ASSUME IInv, NEW p \in Sincs, pc[p] = "processar"
  PROVE  /\ Atualizado(p) \in Controle
         /\ 1 .. Atualizado(p).ultimo \subseteq tratados
<1>1. /\ Atualizado(p) \in Controle
      /\ Atualizado(p).ultimo = local[p].seguro
  BY Campos DEF IInv, TypeOK, Controle, Atualizado, CursorSalvo
<1>2. 1 .. local[p].seguro \subseteq tratados
  BY DEF IInv, ProcOK, Andamento
<1>3. QED
  BY <1>1, <1>2

LEMMA AdiadoOK ==
  ASSUME IInv, NEW p \in Sincs
  PROVE  /\ Adiado(p) \in Controle
         /\ 1 .. Adiado(p).ultimo \subseteq tratados
<1>1. /\ Adiado(p) \in Controle
      /\ Adiado(p).ultimo = controle.ultimo
  BY Campos DEF IInv, TypeOK, Controle, Adiado
<1>2. QED
  BY <1>1 DEF IInv, CursorSeguro

LEMMA GravarCursorOK ==
  ASSUME IInv, NEW p \in Sincs, GravarCursor(p)
  PROVE  PassoOK(p)
<1> DEFINE l == [local[p] EXCEPT !.cursor = local[p].seguro, !.lotes = local[p].lotes + 1]
<1>1. local[p].lotes < MaxLotes /\ 1 .. local[p].seguro \subseteq tratados
  BY DEF IInv, ProcOK, Lotes, Andamento, GravarCursor
<1>2. l \in Local /\ local' = [local EXCEPT ![p] = l]
  <2>1. local[p].lotes + 1 \in 0 .. MaxLotes
    BY <1>1, Campos, DfeAssumption DEF IInv
  <2>2. l \in Local
    BY <2>1, Campos DEF IInv, Local
  <2>3. local' = [local EXCEPT ![p] = l]
    BY DEF IInv, TypeOK, Local, GravarCursor, CursorSalvo
  <2>4. QED
    BY <2>2, <2>3
<1>3. PICK ponto \in {"finalizar", "consultar"} :
        /\ pc' = [pc EXCEPT ![p] = ponto]
        /\ ponto = "consultar" => local'[p].lotes # MaxLotes
  BY DEF GravarCursor
<1>4. TypeOK'
  BY <1>2, <1>3, AtualizadoOK, TiposDoPasso DEF IInv, TypeOK, GravarCursor, Pontos
<1>5. CursorSeguro'
  BY AtualizadoOK DEF GravarCursor, CursorSeguro
<1>6. ProcOK(p)'
  <2>1. local'[p] = l /\ pc'[p] = ponto
    BY <1>2, <1>3 DEF IInv, TypeOK
  <2>2. l.cursor = local[p].seguro /\ l.lotes = local[p].lotes + 1
    BY Campos DEF IInv, Local
  <2>3. ponto = "consultar" => l.lotes < MaxLotes
    BY <1>1, <1>3, <2>1, <2>2, Campos, DfeAssumption DEF IInv
  <2>4. QED
    BY <1>1, <2>1, <2>2, <2>3 DEF GravarCursor, ProcOK, Lotes, Andamento
<1>7. QED
  BY <1>2, <1>3, <1>4, <1>5, <1>6 DEF PassoOK, GravarCursor, IInv, TypeOK

LEMMA AdiarOK ==
  ASSUME IInv, NEW p \in Sincs, Adiar(p)
  PROVE  PassoOK(p)
  BY AdiadoOK, IrOK DEF Adiar, IInv, TypeOK

LEMMA GravarErroOK ==
  ASSUME IInv, NEW p \in Sincs, GravarErro(p)
  PROVE  PassoOK(p)
<1>1. controle' \in Controle /\ 1 .. controle'.ultimo \subseteq tratados
  BY AtualizadoOK, AdiadoOK DEF GravarErro, IInv, TypeOK, CursorSeguro
<1>2. falhas' \in 0 .. MaxFalhas
  BY FalhaOK DEF GravarErro, IInv
<1>3. QED
  BY <1>1, <1>2, IrOK DEF GravarErro

LEMMA FinalizarOK ==
  ASSUME IInv, NEW p \in Sincs, Finalizar(p)
  PROVE  PassoOK(p)
<1>1. controle' \in Controle /\ controle'.ultimo = controle.ultimo
  BY DEF IInv, TypeOK, Controle, Finalizar
<1>2. QED
  BY <1>1, EncerrarOK DEF IInv, TypeOK, Finalizar

LEMMA CairOK ==
  ASSUME IInv, NEW p \in Sincs, Cair(p)
  PROVE  PassoOK(p)
  BY EncerrarOK, FalhaOK DEF IInv, TypeOK, Cair

-----------------------------------------------------------------------------
(* Time and SEFAZ: nothing of the synchronisations changes. *)
LEMMA AmbienteOK ==
  ASSUME IInv, Vencer \/ Passar \/ Emitir \/ UNCHANGED vars
  PROVE  IInv'
<1>1. /\ tratados' = tratados /\ pc' = pc /\ local' = local
      /\ controle' \in Controle /\ controle'.ultimo = controle.ultimo
  BY DEF IInv, TypeOK, Controle, Vencer, Passar, Emitir, vars
<1>2. emitidos' \in 0 .. UltimoNsu
  BY DfeAssumption DEF IInv, TypeOK, Vencer, Passar, Emitir, vars
<1>3. falhas' \in 0 .. MaxFalhas
  BY FalhaOK DEF IInv, TypeOK, Vencer, Passar, Emitir, vars
<1>4. TypeOK'
  BY <1>1, <1>2, <1>3 DEF IInv, TypeOK
<1>5. CursorSeguro'
  BY <1>1 DEF IInv, CursorSeguro
<1>6. ASSUME NEW q \in Sincs PROVE ProcOK(q)'
  BY <1>1 DEF IInv, ProcOK, Lotes, Andamento, SemLacuna
<1>7. QED
  BY <1>4, <1>5, <1>6 DEF IInv

LEMMA NextIInv ==
  ASSUME Omissao # "qualquer", IInv, [Next]_vars
  PROVE  IInv'
<1>1. ASSUME NEW p \in Sincs, Ler(p) \/ Trabalhar(p) \/ Falhar(p)
      PROVE  IInv'
  <2>1. PassoOK(p)
    BY <1>1, LerOK, ReivindicarOK, ConsultarLoteOK, ConsultarVazioOK, ConsultarErroOK,
       TratarOK, TratarErroOK, GravarCursorOK, AdiarOK, GravarErroOK, FinalizarOK, CairOK
       DEF Trabalhar, Falhar
  <2>2. QED
    BY <2>1, PassoPreserva
<1>2. QED
  BY <1>1, AmbienteOK DEF Next

(* The invariant of the synchronisations of a client, when a batch is      *)
(* complete or misses only its end.                                        *)
THEOREM InvarianteDfe ==
  ASSUME Omissao # "qualquer"
  PROVE  Spec => []IInv
<1>1. Init => IInv
  BY InitIInv
<1>2. IInv /\ [Next]_vars => IInv'
  BY NextIInv
<1>3. QED
  BY <1>1, <1>2, PTL DEF Spec

(* DistribuicaoDfeService never stores a cursor past a document it did not *)
(* treat: whatever fails, dies, is slow or loses its claim, as long as the *)
(* documents of a batch are complete or cut at the end.                    *)
THEOREM CursorNuncaPassa ==
  ASSUME Omissao # "qualquer"
  PROVE  Spec => []CursorSeguro
<1>1. IInv => CursorSeguro
  BY DEF IInv
<1>2. QED
  BY <1>1, InvarianteDfe, PTL

-----------------------------------------------------------------------------
(* The types, whatever a batch may miss.                                   *)

(* A set of numbers that is not empty has a least one. *)
LEMMA MenorNumero ==
  ASSUME NEW S, S \subseteq Nat, S # {}
  PROVE  \E n \in S : \A m \in S : n <= m
<1> DEFINE R == OpToRel(<, Nat)
<1>1. IsWellFoundedOn(R, Nat)
  BY NatLessThanWellFounded
<1>2. R = {x \in Nat \X Nat : x[1] < x[2]}
  BY DEF OpToRel
<1> HIDE DEF R
<1>3. PICK n \in S : \A m \in S : ~(<<m, n>> \in R)
  BY <1>1, WFMin
<1>4. ASSUME NEW m \in S PROVE n <= m
  <2>1. m \in Nat /\ n \in Nat /\ ~(<<m, n>> \in R)
    BY <1>3
  <2>2. <<m, n>> \in Nat \X Nat
    BY <2>1
  <2>3. m < n => <<m, n>> \in R
    BY <1>2, <2>1, <2>2
  <2> QED
    BY <2>1, <2>3
<1> QED
  BY <1>4

LEMMA ProximoDoLote ==
  ASSUME TypeOK, NEW p \in Sincs, local[p].docs # {}
  PROVE  Proximo(p) \in local[p].docs /\ Proximo(p) \in Nsus
<1>1. local[p].docs \subseteq Nsus /\ Nsus \subseteq Nat
  BY Campos, DfeAssumption DEF Nsus
<1>2. PICK n \in local[p].docs : \A m \in local[p].docs : n <= m
  BY <1>1, MenorNumero
<1>3. Proximo(p) \in local[p].docs
  BY <1>2 DEF Proximo, Min
<1> QED
  BY <1>1, <1>3

TInv == TypeOK /\ \A p \in Sincs : Lotes(p)

(* What a step of p must show for its types. *)
LEMMA TiposPreservados ==
  ASSUME TInv, NEW p \in Sincs, emitidos' = emitidos, tratados' \subseteq Nsus,
         controle' \in Controle, falhas' = falhas \/ Falha,
         NEW l \in Local, local' = [local EXCEPT ![p] = l],
         NEW ponto \in Pontos, pc' = [pc EXCEPT ![p] = ponto],
         ponto \in {"ocioso", "reivindicar"} => l.lotes = 0,
         ponto \in {"consultar", "processar"} => l.lotes < MaxLotes
  PROVE  TInv'
<1>1. falhas' \in 0 .. MaxFalhas
  BY FalhaOK DEF TInv, TypeOK
<1>2. TypeOK'
  BY <1>1, TiposDoPasso DEF TInv
<1>3. ASSUME NEW q \in Sincs PROVE Lotes(q)'
  <2>1. CASE q = p
    BY <2>1 DEF TInv, TypeOK, Lotes
  <2>2. CASE q # p
    BY <2>2 DEF TInv, TypeOK, Lotes
  <2> QED
    BY <2>1, <2>2
<1> QED
  BY <1>2, <1>3 DEF TInv

LEMMA TipoDeLocal ==
  ASSUME TInv, NEW p \in Sincs
  PROVE  /\ local = [local EXCEPT ![p] = local[p]]
         /\ pc = [pc EXCEPT ![p] = pc[p]]
         /\ pc[p] \in Pontos
         /\ tratados \subseteq Nsus /\ controle \in Controle
         /\ Atualizado(p) \in Controle /\ Adiado(p) \in Controle
         /\ Vazio \in Local /\ Vazio.lotes = 0
<1>1. Atualizado(p) \in Controle /\ Adiado(p) \in Controle
  BY Campos DEF TInv, TypeOK, Controle, Atualizado, CursorSalvo, Adiado
<1>2. Vazio \in Local /\ Vazio.lotes = 0
  BY VazioTipo DEF Vazio
<1> QED
  BY <1>1, <1>2 DEF TInv, TypeOK

(* The steps before a batch is there. *)
LEMMA LeituraTipada ==
  ASSUME TInv, NEW p \in Sincs,
         Ler(p) \/ Reivindicar(p) \/ ConsultarVazio(p) \/ ConsultarErro(p)
  PROVE  TInv'
<1> USE TipoDeLocal
<1>1. CASE Ler(p)
  <2> DEFINE l == [local[p] EXCEPT !.cursor = controle.ultimo, !.max = controle.max]
  <2>1. l \in Local /\ l.lotes = 0
    BY <1>1, Campos DEF TInv, Local, Lotes, Ler
  <2>2. local' = [local EXCEPT ![p] = l]
    BY <1>1 DEF TInv, TypeOK, Local, Ler
  <2> QED
    BY <1>1, <2>1, <2>2, TiposPreservados DEF Ler, Pontos
<1>2. CASE Reivindicar(p) /\ Disponivel
  <2>1. controle' \in Controle
    BY <1>2 DEF TInv, TypeOK, Controle, Reivindicar
  <2>2. local[p] \in Local /\ local[p].lotes < MaxLotes
    BY <1>2, Campos, DfeAssumption DEF TInv, Lotes, Reivindicar
  <2> QED
    BY <1>2, <2>1, <2>2, TiposPreservados DEF Reivindicar, Ir, Pontos
<1>3. CASE Reivindicar(p) /\ ~Disponivel
  BY <1>3, TiposPreservados DEF Reivindicar, Encerrar, Pontos
<1>4. CASE ConsultarVazio(p)
  <2> DEFINE l == [local[p] EXCEPT !.max = Maior(local[p].max, emitidos)]
  <2>1. l \in Local
    BY Campos DEF TInv, Local, Maior
  <2>2. local' = [local EXCEPT ![p] = l]
    BY <1>4 DEF TInv, TypeOK, Local, ConsultarVazio
  <2> QED
    BY <1>4, <2>1, <2>2, TiposPreservados DEF ConsultarVazio, Pontos
<1>5. CASE ConsultarErro(p)
  <2>1. PICK ponto \in {"adiar", "esgotar", "finalizar"} : Ir(p, ponto)
    BY <1>5 DEF ConsultarErro
  <2>2. local[p] \in Local
    BY Campos DEF TInv
  <2> QED
    BY <1>5, <2>1, <2>2, TiposPreservados DEF ConsultarErro, Ir, Pontos
<1> QED
  BY <1>1, <1>2, <1>3, <1>4, <1>5

LEMMA LoteTipado ==
  ASSUME TInv, NEW p \in Sincs, ConsultarLote(p)
  PROVE  TInv'
<1> DEFINE c == local[p].cursor
           u == Menor(c + TamLote, emitidos)
<1>1. PICK D \in Extraidos((c + 1) .. u) :
        local' = [local EXCEPT ![p].max = Maior(@, emitidos), ![p].ult = u,
                               ![p].docs = D, ![p].seguro = c, ![p].falhou = FALSE]
  BY DEF ConsultarLote
<1> DEFINE l == [local[p] EXCEPT !.max = Maior(local[p].max, emitidos), !.ult = u,
                                 !.docs = D, !.seguro = c, !.falhou = FALSE]
<1>2. /\ c \in 0 .. UltimoNsu /\ u \in 0 .. UltimoNsu
      /\ Maior(local[p].max, emitidos) \in 0 .. UltimoNsu
  BY Campos, DfeAssumption DEF TInv, Menor, Maior
<1>3. D \subseteq Nsus
  <2>1. D \subseteq (c + 1) .. u
    BY <1>1 DEF Extraidos
  <2> QED
    BY <1>2, <2>1, DfeAssumption DEF Nsus
<1>4. l \in Local /\ l.lotes < MaxLotes
  BY <1>2, <1>3, Campos DEF TInv, Local, Lotes, ConsultarLote
<1>5. local' = [local EXCEPT ![p] = l]
  BY <1>1 DEF TInv, TypeOK, Local
<1> QED
  BY <1>4, <1>5, TipoDeLocal, TiposPreservados DEF ConsultarLote, Pontos

(* The documents of the batch, and the update of the row. *)
LEMMA TratarTipado ==
  ASSUME TInv, NEW p \in Sincs, Tratar(p) \/ TratarErro(p)
  PROVE  TInv'
<1>1. Proximo(p) \in Nsus /\ Proximo(p) \in 0 .. UltimoNsu
  BY ProximoDoLote, DfeAssumption DEF TInv, Tratar, TratarErro, Nsus
<1>2. tratados' \subseteq Nsus
  BY <1>1 DEF TInv, TypeOK, Tratar, TratarErro
<1>3. local[p].lotes < MaxLotes /\ pc' = [pc EXCEPT ![p] = "processar"]
  BY DEF TInv, TypeOK, Lotes, Tratar, TratarErro
<1>4. CASE Tratar(p)
  <2> DEFINE l == [local[p] EXCEPT !.docs = local[p].docs \ {Proximo(p)},
                                   !.seguro = Proximo(p)]
  <2>1. l \in Local /\ l.lotes = local[p].lotes
    BY <1>1, Campos DEF TInv, Local
  <2>2. local' = [local EXCEPT ![p] = l]
    BY <1>4 DEF TInv, TypeOK, Local, Tratar
  <2> QED
    BY <1>2, <1>3, <1>4, <2>1, <2>2, TipoDeLocal, TiposPreservados DEF Tratar, Pontos
<1>5. CASE TratarErro(p)
  <2> DEFINE l == [local[p] EXCEPT !.docs = {}, !.falhou = TRUE]
  <2>1. l \in Local /\ l.lotes = local[p].lotes
    BY Campos DEF TInv, Local
  <2>2. local' = [local EXCEPT ![p] = l]
    BY <1>5 DEF TInv, TypeOK, Local, TratarErro
  <2> QED
    BY <1>2, <1>3, <1>5, <2>1, <2>2, TipoDeLocal, TiposPreservados DEF TratarErro, Pontos
<1> QED
  BY <1>4, <1>5

LEMMA CursorTipado ==
  ASSUME TInv, NEW p \in Sincs, GravarCursor(p)
  PROVE  TInv'
<1> DEFINE l == [local[p] EXCEPT !.cursor = local[p].seguro, !.lotes = local[p].lotes + 1]
<1>1. l \in Local /\ l.lotes = local[p].lotes + 1 /\ l.lotes \in 0 .. MaxLotes
  <2>1. local[p].lotes + 1 \in 0 .. MaxLotes
    BY Campos, DfeAssumption DEF TInv, Lotes, GravarCursor
  <2> QED
    BY <2>1, Campos DEF TInv, Local
<1>2. local' = [local EXCEPT ![p] = l] /\ local'[p] = l
  BY DEF TInv, TypeOK, Local, GravarCursor, CursorSalvo
<1>3. PICK ponto \in {"finalizar", "consultar"} :
        /\ pc' = [pc EXCEPT ![p] = ponto]
        /\ ponto = "consultar" => local'[p].lotes # MaxLotes
  BY DEF GravarCursor
<1>4. ponto = "consultar" => l.lotes < MaxLotes
  <2>1. \A n \in 0 .. MaxLotes : n # MaxLotes => n < MaxLotes
    BY DfeAssumption
  <2> QED
    BY <1>1, <1>2, <1>3, <2>1
<1> QED
  BY <1>1, <1>2, <1>3, <1>4, TipoDeLocal, TiposPreservados DEF GravarCursor, Pontos

LEMMA FimTipado ==
  ASSUME TInv, NEW p \in Sincs,
         Adiar(p) \/ GravarErro(p) \/ Finalizar(p) \/ Cair(p)
  PROVE  TInv'
<1> USE TipoDeLocal
<1>1. CASE Adiar(p) \/ GravarErro(p)
  <2>1. controle' \in Controle
    BY <1>1 DEF Adiar, GravarErro
  <2>2. local[p] \in Local
    BY Campos DEF TInv
  <2> QED
    BY <1>1, <2>1, <2>2, TiposPreservados DEF Adiar, GravarErro, Ir, Pontos
<1>2. CASE Finalizar(p) \/ Cair(p)
  <2>1. controle' \in Controle
    BY <1>2 DEF TInv, TypeOK, Controle, Finalizar, Cair
  <2> QED
    BY <1>2, <2>1, TiposPreservados DEF Finalizar, Cair, Encerrar, Pontos
<1> QED
  BY <1>1, <1>2

LEMMA PassoTInv == TInv /\ [Next]_vars => TInv'
<1> SUFFICES ASSUME TInv, [Next]_vars PROVE TInv'
  OBVIOUS
<1>1. ASSUME NEW p \in Sincs, Ler(p) \/ Trabalhar(p) \/ Falhar(p) PROVE TInv'
  BY <1>1, LeituraTipada, LoteTipado, TratarTipado, CursorTipado, FimTipado
     DEF Trabalhar, Falhar
<1>2. CASE Vencer \/ Passar \/ Emitir \/ UNCHANGED vars
  <2>1. /\ tratados' = tratados /\ pc' = pc /\ local' = local
        /\ controle' \in Controle
    BY <1>2 DEF TInv, TypeOK, Controle, Vencer, Passar, Emitir, vars
  <2>2. emitidos' \in 0 .. UltimoNsu
    BY <1>2, DfeAssumption DEF TInv, TypeOK, Vencer, Passar, Emitir, vars
  <2>3. falhas' \in 0 .. MaxFalhas
    BY <1>2, FalhaOK DEF TInv, TypeOK, Vencer, Passar, Emitir, vars
  <2> QED
    BY <2>1, <2>2, <2>3 DEF TInv, TypeOK, Lotes
<1> QED
  BY <1>1, <1>2 DEF Next

(* Every variable stays in its set, whatever a batch may miss. *)
THEOREM TipoCorretoDfe == Spec => []TypeOK
<1>1. Init => TInv
  BY InitIInv DEF IInv, ProcOK, TInv
<1>2. TInv => TypeOK
  BY DEF TInv
<1>3. QED
  BY <1>1, <1>2, PassoTInv, PTL DEF Spec

-----------------------------------------------------------------------------
(* The claim. It depends on no number: only on the shape of the row.       *)
Forma ==
  /\ pc \in [Sincs -> Pontos]
  /\ controle = [ultimo |-> controle.ultimo, max |-> controle.max,
                 espera |-> controle.espera, dono |-> controle.dono,
                 vencido |-> controle.vencido]

LEMMA FormaInit == Init => Forma
  BY DEF Init, Forma, Pontos

LEMMA FormaNext == Forma /\ [Next]_vars => Forma'
<1> SUFFICES ASSUME Forma, [Next]_vars PROVE Forma'
  OBVIOUS
<1> USE DEF Forma, Pontos
<1>1. ASSUME NEW p \in Sincs, Ler(p) \/ Trabalhar(p) PROVE Forma'
  <2>1. CASE Ler(p)
    BY <2>1 DEF Ler
  <2>2. CASE Reivindicar(p)
    BY <2>2 DEF Reivindicar, Ir, Encerrar
  <2>3. CASE ConsultarLote(p) \/ ConsultarVazio(p)
    BY <2>3 DEF ConsultarLote, ConsultarVazio
  <2>4. CASE Tratar(p)
    BY <2>4 DEF Tratar
  <2>5. CASE GravarCursor(p)
    BY <2>5 DEF GravarCursor, Atualizado
  <2>6. CASE Adiar(p)
    BY <2>6 DEF Adiar, Adiado, Ir
  <2>7. CASE Finalizar(p)
    BY <2>7 DEF Finalizar, Encerrar
  <2>8. QED
    BY <1>1, <2>1, <2>2, <2>3, <2>4, <2>5, <2>6, <2>7 DEF Trabalhar
<1>2. ASSUME NEW p \in Sincs, Falhar(p) PROVE Forma'
  <2>1. CASE ConsultarErro(p) \/ TratarErro(p) \/ Cair(p)
    BY <2>1 DEF ConsultarErro, TratarErro, Cair, Ir, Encerrar
  <2>2. CASE GravarErro(p)
    BY <2>2 DEF GravarErro, Atualizado, Adiado, Ir
  <2>3. QED
    BY <1>2, <2>1, <2>2 DEF Falhar
<1>3. CASE Vencer \/ Passar \/ Emitir \/ UNCHANGED vars
  BY <1>3 DEF Vencer, Passar, Emitir, vars
<1>4. QED
  BY <1>1, <1>2, <1>3 DEF Next

(* What a step does to the claim: only taking it over, releasing one's own *)
(* and letting it age change it. *)
LEMMA PassoDoClaim ==
  ASSUME Forma, [Next]_vars, controle'.dono # controle.dono
  PROVE  \/ Disponivel
         \/ \E q \in Sincs : controle.dono = q /\ pc'[q] = "ocioso"
<1> USE DEF Forma
<1>1. ASSUME NEW q \in Sincs, Ler(q) \/ Trabalhar(q)
      PROVE  Disponivel \/ (controle.dono = q /\ pc'[q] = "ocioso")
  <2>1. CASE Ler(q) \/ ConsultarLote(q) \/ ConsultarVazio(q) \/ Tratar(q)
    BY <2>1 DEF Ler, ConsultarLote, ConsultarVazio, Tratar
  <2>2. CASE Reivindicar(q)
    BY <2>2 DEF Reivindicar
  <2>3. CASE GravarCursor(q)
    BY <2>3 DEF GravarCursor, Atualizado
  <2>4. CASE Adiar(q)
    BY <2>4 DEF Adiar, Adiado
  <2>5. CASE Finalizar(q)
    BY <2>5 DEF Finalizar, Encerrar
  <2>6. QED
    BY <1>1, <2>1, <2>2, <2>3, <2>4, <2>5 DEF Trabalhar
<1>2. ASSUME NEW q \in Sincs, Falhar(q) PROVE FALSE
  <2>1. CASE ConsultarErro(q) \/ TratarErro(q) \/ Cair(q)
    BY <2>1 DEF ConsultarErro, TratarErro, Cair
  <2>2. CASE GravarErro(q)
    BY <2>2 DEF GravarErro, Atualizado, Adiado
  <2>3. QED
    BY <1>2, <2>1, <2>2 DEF Falhar
<1>3. CASE Vencer \/ Passar \/ Emitir \/ UNCHANGED vars
  BY <1>3 DEF Vencer, Passar, Emitir, vars
<1>4. QED
  BY <1>1, <1>2, <1>3 DEF Next

(* tentarIniciarSincronizacao and finalizarSincronizacao: a claim within   *)
(* its fifteen minutes is lost only by the synchronisation that ends or    *)
(* dies, never to another one, whatever a document batch may miss.         *)
THEOREM ClaimProtegido == Spec => ClaimPreservado
<1>1. Forma /\ [Next]_vars =>
        [\A p \in Sincs :
           /\ controle.dono = p /\ ~controle.vencido
           /\ pc[p] \notin {"ocioso", "reivindicar"}
           => controle'.dono = p \/ pc'[p] = "ocioso"]_vars
  <2> SUFFICES ASSUME Forma, [Next]_vars, NEW p \in Sincs,
                      controle.dono = p, ~controle.vencido, controle'.dono # p
               PROVE  pc'[p] = "ocioso"
    OBVIOUS
  <2>1. ~Disponivel
    BY DfeAssumption DEF Disponivel
  <2>2. QED
    BY <2>1, PassoDoClaim
<1>2. QED
  BY <1>1, FormaInit, FormaNext, PTL DEF Spec, ClaimPreservado
=============================================================================
