SPECIFICATION Spec
CONSTANTS
  e1 = e1  e2 = e2  e3 = e3
  p1 = p1  p2 = p2
  Entregas = {e1, e2, e3}
  Processos = {p1, p2}
  Lote = 2
  Concorrencia = 2
  MaxFalhas = 3
  Nada = Nada
SYMMETRY Simetria
INVARIANT FalhaCompensada
