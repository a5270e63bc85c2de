SPECIFICATION Spec
CONSTANTS
  b1 = b1
  p1 = p1  p2 = p2
  Bens = {b1}
  Pedidos = {p1, p2}
  Meses = 2
  Parcelas = 2
  Bases = {4}
  Escala = 2
  Coeficientes = {1, 2}
  MaxVersao = 2
  Ajustes = {{}, {2}}
SYMMETRY Simetria
INVARIANT BaixaPermanece
