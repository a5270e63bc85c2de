SPECIFICATION Spec
CONSTANTS
  p1 = p1  p2 = p2
  e1 = e1  e2 = e2
  Nada = Nada
  Procs = {p1, p2}
  MaxVersao = 2
  Entradas = {e1}
  Isolamentos = {"RR"}

PROPERTY EscritaSinalizaRevisao
