SPECIFICATION Spec
CONSTANTS
  SSD1306_PAGES = 3
  SSD1306_WIDTH = 3
  GLYPH_WIDTH = 1
  Byte = {0, 1}
  Noise = Noise
  MaxText = 3
  MaxFaults = 2
INVARIANTS TypeOK PagesBeforeFailureShown
PROPERTIES LinesClippedAtEdge PictureRecovers
