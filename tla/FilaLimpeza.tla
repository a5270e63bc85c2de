----------------------------- MODULE FilaLimpeza -----------------------------
(***************************************************************************)
(* What the cleanup queue promises to the services that store files in R2, *)
(* without workers, claims or leases: only a scheduled key is removed by   *)
(* the queue, a key is done only when its object is gone, and a done key   *)
(* stays done.  StorageCleanup implements this; GuiaDocumentos uses it.    *)
(* Keys are not reused: nothing is stored under a key once scheduled.      *)
(***************************************************************************)
CONSTANT Chaves       \* object keys

VARIABLES
  objetos,   \* the bucket: keys with a stored object
  fila       \* for each key, its place in the queue

filaVars == <<objetos, fila>>

Etapas == {"fora", "agendado", "concluido"}

FInit == objetos = {} /\ fila = [k \in Chaves |-> "fora"]

(* A service stores an object. *)
Depositar(k) ==
  /\ fila[k] = "fora"
  /\ objetos' = objetos \cup {k}
  /\ fila' = fila

(* A service discards an object it never referenced. *)
Descartar(k) ==
  /\ fila[k] = "fora"
  /\ objetos' = objetos \ {k}
  /\ fila' = fila

(* One statement schedules a set of keys; a key already there is ignored. *)
Agendar(K) ==
  /\ fila' = [k \in Chaves |-> IF k \in K /\ fila[k] = "fora" THEN "agendado" ELSE fila[k]]
  /\ objetos' = objetos

(* The object goes; a slow worker may repeat this after the key is done. *)
Remover(k) ==
  /\ fila[k] # "fora"
  /\ objetos' = objetos \ {k}
  /\ fila' = fila

Concluir(k) ==
  /\ fila[k] = "agendado"
  /\ k \notin objetos
  /\ fila' = [fila EXCEPT ![k] = "concluido"]
  /\ objetos' = objetos

Limpar(k) == Remover(k) \/ Concluir(k)

FNext ==
  \/ \E k \in Chaves : Depositar(k) \/ Descartar(k) \/ Limpar(k)
  \/ \E K \in SUBSET Chaves : Agendar(K)

FSpec == FInit /\ [][FNext]_filaVars
=============================================================================
