SPECIFICATION Spec
CONSTANTS
  g1 = g1  g2 = g2
  r1 = r1  r2 = r2
  p1 = p1  p2 = p2
  Guias = {g1, g2}
  Recibos = {r1, r2}
  Processos = {p1, p2}
  Nada = Nada
SYMMETRY Simetria

PROPERTY ExclusaoAgenda
CHECK_DEADLOCK FALSE
