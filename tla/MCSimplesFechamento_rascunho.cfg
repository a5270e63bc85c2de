SPECIFICATION Spec
CONSTANTS
  p1 = p1  p2 = p2
  Nada = Nada
  Pedidos = {p1, p2}
  MaxVersao = 2
  MaxFech = 3
SYMMETRY Simetria
PROPERTY FechaRascunho
